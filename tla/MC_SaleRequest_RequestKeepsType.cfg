CONSTANTS
    s1 = s1
    s2 = s2
    base1 = base1
    quote1 = quote1
    None = None
    Accounts <- MC_Accounts
    Codes <- MC_Codes
    InitAssets <- MC_InitAssets
    CloseTime = 1
    Times = {0, 2}
    Prices = {0, 1}
    Caps = {0, 1}
    MaxRequests = 2

SPECIFICATION Spec
PROPERTIES
    RequestKeepsType
