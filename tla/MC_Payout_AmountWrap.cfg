CONSTANTS
    src = src
    comm = comm
    h1 = h1
    hb1 = hb1
    hb2 = hb2
    NoBalance = NoBalance
    NoLimits = NoLimits
    Windows <- MC_Windows
    WindowLen <- MC_WindowLen
    Accounts <- MC_Accounts
    Source = src
    Commission = comm
    InitBalances <- MC_InitBalancesEmpty
    HolderBalances <- MC_HolderBalances
    HolderOf <- MC_HolderOf
    Held <- MC_Held
    Issued = 5
    Price = 2
    PayoutFee = NoLimits
    FeeChoices <- MC_FeeChoicesNone
    MaxPayoutChoices = {50}
    IntWidth = 6
    One = 1
    HoldersFilled = TRUE
    AssetSet = TRUE
    MaxPayouts = 4
SPECIFICATION Spec
PROPERTIES SourceNotCredited
