CONSTANTS
    a1 = a1
    a2 = a2
    a3 = a3
    e1 = e1
    e2 = e2
    None = None
    AccountIds <- MC_AccountIds
    PoolEntries <- MC_PoolEntries
    PoolTypeOf <- MC_PoolTypeOf
    PoolTypes = {"erc20"}
    AutoTypes = {"eth", "btc"}
    Generators = {"eth", "btc"}
    DayInSeconds = 1
    MaxTime = 3
SYMMETRY MC_Symmetry
SPECIFICATION Spec
INVARIANTS BindingsMatchPool
