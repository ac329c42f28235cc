SPECIFICATION Spec
CONSTANTS
    PolicyRefs = {pol}
    AllocationIds = {alloc}
    RequesterIds = {alice}
    Addresses = {dest, receiver}
    AssetIds = {ADA}
    UtxoRefs = {utxo}
    TxHashes = {tx1}
    ADA = ADA
    pol = pol
    alloc = alloc
    alice = alice
    dest = dest
    utxo = utxo
    U64Max = 65
    THRESHOLD_HIGH_MICROUSD = 3
    THRESHOLD_MID_MICROUSD = 2
    BAND_HIGH_BPS = 4
    BAND_MID_BPS = 3
    BAND_LOW_BPS = 2
    BASIS_POINT_SCALE = 4
    Template <- MCTemplate
    Snapshots <- MCSnapshots
    Prices = {0, 1, 2, 3}
    Validity = 2
    MaxNow = 3
    ONE_ADA = 2
    DEMO_BASIS = 20
    FIXTURE_AMOUNT = 14
    PLACEHOLDER_ID = placeholder
    RECEIVER = receiver
    PolicyDocuments <- MCPolicyDocuments
    ROTATED_CAP = 4
CHECK_DEADLOCK FALSE
INVARIANTS
    EffectIsPaidVerbatim
