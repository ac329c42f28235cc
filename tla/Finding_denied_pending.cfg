SPECIFICATION Spec
CONSTANTS
    PolicyRefs = {pol}
    AllocationIds = {alloc, allocNFT}
    RequesterIds = {alice, mallory}
    Addresses = {dest, elsewhere}
    AssetIds = {ADA, token}
    UtxoRefs = {utxo}
    TxHashes = {tx1, tx2}
    Requests = {r1}
    ADA = ADA
    None = None
    pol = pol
    alloc = alloc
    allocNFT = allocNFT
    alice = alice
    mallory = mallory
    dest = dest
    elsewhere = elsewhere
    token = token
    utxo = utxo
    tx1 = tx1
    tx2 = tx2
    r1 = r1
    r2 = r2
    U64Max = 6
    THRESHOLD_HIGH_MICROUSD = 3
    THRESHOLD_MID_MICROUSD = 2
    BAND_HIGH_BPS = 4
    BAND_MID_BPS = 3
    BAND_LOW_BPS = 2
    BASIS_POINT_SCALE = 4
    Configs <- FullAndHalved
    RequestedAsks <- OneAllocationAsks
    Prices = {1, 3}
    Validity = 2
    MaxNow = 3
    MaxAttempts = 2
CHECK_DEADLOCK FALSE
INVARIANTS
    DeniedClosesAsDenied
