SPECIFICATION StartupSpec
CONSTANTS
    ALI = "ALI"
    BOB = "BOB"
    k1 = k1
    k2 = k2
    Tokens = {k1, k2}
    NoToken = NoToken
    Names = {"ALI", "BOB"}
    Envs <- MCEnvs
    SourceNames = {"core", "CORE"}
    Upper <- MCUpper
    NameRank <- MCNameRank
    SourceEnvs <- MCSourceEnvs
    Calls <- MCCalls
    Starts <- MCStarts
INVARIANTS StartupTypeOK RolesAreConfigured EnvDecidesRoles WritesAreOptedIn EnvDecidesAnswers
