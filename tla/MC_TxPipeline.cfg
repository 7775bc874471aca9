CONSTANTS
    kRec = kRec
    kFeeAsset = kFeeAsset
    kSrc = kSrc
    kComm = kComm
    OpKeys <- MC_OpKeys
    FeeAssetKey = kFeeAsset
    SourceBalance = kSrc
    CommissionBalance = kComm
    Vals = {1}
    InitVals = {1, 2}
    FeeAssetCodes = {1}
    InitBalances = {3}
    BalanceMax = 4
    FeeWidth = 2
    OpTypes <- MC_OpTypes
    OpFee <- MC_OpFee
    FeeFeatureOn = TRUE
    MaxFeeChoices = {1}
    CloseTime = 1
    TxExpirationPeriod = 1
    TimeChoices = {1, 3}
    AuthOutcomes = {"ok", "txBAD_AUTH"}
    MaxTxs = 2
    MaxOps = 2
    MaxOpSteps = 1
    KindChoices = {"reference", "entitytype"}
    PresetKeys = {kFeeAsset}

SPECIFICATION Spec
INVARIANTS
    TypeOK
    CacheCoherent
    JournalMatchesStore
PROPERTIES
    AtomicRefinement
