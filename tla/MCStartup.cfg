SPECIFICATION Spec
CONSTANTS
    None = None
    NULL = NULL
    Field <- MCField
    Number <- MCNumber
    Configuration <- MCConfiguration
    Size = 2
    MaxCalls = 2
INVARIANTS TypeOK AsDocumented NoWildWrite Balanced SuccessIsReal
