SPECIFICATION RunSpec
CONSTANTS
    Areas = {"release"}
    key1 = key1
    key2 = key2
    pre1 = pre1
    client1 = client1
    client2 = client2
    bytes1 = bytes1
    bytes2 = bytes2
    None = None
    Unavailable = Unavailable
    Broken = Broken
    Keys = {key1, key2}
    Preflights = {pre1}
    Bytes = {bytes1, bytes2}
    Clients = {client1, client2}
    MaxClock = 2
    Casts <- MCCasts
    Torn = Torn
    BuildCasts <- MixedBuilds
    Err = Err
    Undecodable = Undecodable
    MaxU64 = 99
    AnchorGas = 1
    GasDenominator = 10
    GasMaxChange = 2
    MinGas = 5
    MaxGas = 15
    MaxBlocks = 3
    MaxManifestOffset = 8
    Mainnet = "mainnet"
    AnchorMaxOffset = 2
    MainnetAnchorMaxOffset = 3
    TimestampMaxOffset = 3
    MainnetTimestampMaxOffset = 4
    AncestorWindowLimit = 2
    MaxU48 = 50
    InitialDelay = 2
    MaxDelay = 3
INVARIANT CheckedIsFresh
CHECK_DEADLOCK FALSE
