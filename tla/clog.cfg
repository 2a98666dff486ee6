SPECIFICATION FairSpec
CONSTANTS
    h1 = h1
    h2 = h2
    web = web
    db = db
    logsweb = logsweb
    Handlers = {h1, h2}
    ToolsOf <- MCToolsOf
    Namespaces = {web, db, logsweb}
    NoNamespace = NoNamespace
    Places <- MCPlaces
    Prefixed = {logsweb}
    Unprefixed <- MCUnprefixed
    Fields <- MCFields
    Candidates <- MCCandidates
    NoField = NoField
    Mappings <- MCMappings
INVARIANTS TypeOK FilteredAnswersStayInside LastingLogsAreFound
PROPERTIES StaleFieldsDie
CHECK_DEADLOCK FALSE
