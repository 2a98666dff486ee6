SPECIFICATION Spec
CONSTANTS
    ALI = ALI
    k1 = k1
    k2 = k2
    Tokens = {k1, k2}
    NoToken = NoToken
    Names = {ALI}
    Envs <- MCOneUser
INVARIANTS PerUserWins
