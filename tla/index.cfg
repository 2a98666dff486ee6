SPECIFICATION FairSpec
CONSTANTS
    a = a
    b = b
    x = x
    y = y
    t1 = t1
    Sources = {a, b}
    Schemas = {x, y}
    Tables = {t1}
    SourceOf <- MCSourceOf
    SchemaOf <- MCSchemaOf
    Handlers = {h1}
    Slices = {s1, s2, s3}
INVARIANTS TypeOK SearchSeesOneBuild
PROPERTIES InstalledWasReal FailuresStayLocal RefresherStops LastingTablesAreFound
CHECK_DEADLOCK FALSE
