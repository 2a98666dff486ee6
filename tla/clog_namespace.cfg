SPECIFICATION Spec
CONSTANTS
    h1 = h1
    h2 = h2
    web = web
    db = db
    logsweb = logsweb
    Handlers = {h1}
    ToolsOf <- MCEveryTool
    Namespaces = {web, db, logsweb}
    NoNamespace = NoNamespace
    Places <- MCPlaces
    Prefixed = {logsweb}
    Unprefixed <- MCUnprefixed
    Fields <- MCFields
    Candidates <- MCCandidates
    NoField = NoField
    Mappings <- MCNamespaceless
INVARIANTS AnswersStayInNamespace
CHECK_DEADLOCK FALSE
