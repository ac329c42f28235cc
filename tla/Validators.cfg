SPECIFICATION FairSpec
CONSTANTS
    PolicyRefs = {pol, unregistered}
    AllocationIds = {alloc, unlisted}
    RequesterIds = {alice, mallory}
    Addresses = {dest, elsewhere}
    AssetIds = {ADA, token}
    UtxoRefs = {utxo}
    ADA = ADA
    ADA_LITERAL = "ADA"
    None = None
    Garbage = Garbage
    pol = pol
    alloc = alloc
    unregistered = unregistered
    unlisted = unlisted
    alice = alice
    mallory = mallory
    dest = dest
    elsewhere = elsewhere
    token = token
    utxo = utxo
    v1 = v1
    v2 = v2
    v3 = v3
    U64Max = 6
    THRESHOLD_HIGH_MICROUSD = 3
    THRESHOLD_MID_MICROUSD = 2
    BAND_HIGH_BPS = 4
    BAND_MID_BPS = 3
    BAND_LOW_BPS = 2
    BASIS_POINT_SCALE = 4
    Validators = {v1, v2, v3}
    Quorums <- Majorities
    ConfigFiles <- EveryFile
    Intents <- EveryIntent
    MaxNow = 1
    MaxBlocks = 1
CONSTRAINT IsExplored
CHECK_DEADLOCK FALSE
INVARIANTS
    TypeOK
    CommittedIsRight
    SameSnapshotSameReply
PROPERTIES
    EveryEntryIsServed
    UniformSetDecides
