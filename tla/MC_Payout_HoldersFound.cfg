CONSTANTS
    src = src
    comm = comm
    h1 = h1
    hb1 = hb1
    hb2 = hb2
    NoBalance = NoBalance
    NoLimits = NoLimits
    Windows <- MC_Windows
    WindowLen <- MC_WindowLen
    Accounts <- MC_Accounts
    Source = src
    Commission = comm
    InitBalances <- MC_InitBalances
    HolderBalances <- MC_HolderBalances
    HolderOf <- MC_HolderOf
    Held <- MC_Held
    Issued = 5
    Price = 2
    PayoutFee <- MC_PayoutFee
    FeeChoices <- MC_FeeChoices
    MaxPayoutChoices = {0, 4, 6}
    IntWidth = 5
    One = 1
    HoldersFilled = FALSE
    AssetSet = FALSE
    MaxPayouts = 4
SPECIFICATION Spec
INVARIANTS HoldersFound
