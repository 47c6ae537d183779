CONSTANTS
    u1 = u1
    u2 = u2
    u3 = u3
    k1 = k1
    k2 = k2
    Nobody = Nobody
    Users = {u1, u2}
    Commands = {k1, k2}
    MaxSwitches = 3
    MaxTroubles = 1
    MaxRestarts = 1
    MaxCommands = 3
    MaxEvents = 5
    BusCapacity = 2
    RelayCapacity = 1
    MaxFailures = 8
    BucketUsers = {"ann", "bob"}
    Secret = "s"
    Owner = "ann"
    ColumnSecrets = {"old", "new"}
    Ours = 2
    MaxHeld = 3
    Configs <- TestConfigs
    RowIds = {"a", "b"}
    MaxRowVersion = 2
    MaxConfigures = 3
    Locals = {"first", "second"}
    Registries = {"default", "custom"}
    Installers = {"i1", "i2"}
    LogBuilders <- TestLogBuilders
    OverrideLevels = {0, 3}
    Targets <- TestTargets
    PathNames = {"app", "sqlx", "query", "slow", "log"}
    MaxLines = 1
    SymbolNames = {"trash", "bell"}
    SizesOf <- TestSizes
    WithLucide = {"trash"}
SYMMETRY Symmetry
SPECIFICATION LibSpec
INVARIANTS
    PoolIsActiveUsers
    OthersWiped
    MirrorFollowsHook
    ConsumerInformed
    BucketKeeps
    SealedOnce
    WritesSettle
    RegistryKeeps
    RemoteKeeps
    RuntimeKeeps
    LoggerKeeps
    SymbolsKeep
PROPERTY
    Paced
CHECK_DEADLOCK FALSE
