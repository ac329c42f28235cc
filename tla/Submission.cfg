SPECIFICATION FairSpec
CONSTANTS
    PolicyRefs = {pol}
    AllocationIds = {alloc}
    RequesterIds = {alice}
    Addresses = {dest}
    AssetIds = {ADA}
    UtxoRefs = {utxo}
    TxHashes = {tx1, tx2}
    Requests = {r1, r2}
    ADA = ADA
    pol = pol
    alloc = alloc
    alice = alice
    dest = dest
    utxo = utxo
    r1 = r1
    r2 = r2
    U64Max = 6
    THRESHOLD_HIGH_MICROUSD = 3
    THRESHOLD_MID_MICROUSD = 2
    BAND_HIGH_BPS = 4
    BAND_MID_BPS = 3
    BAND_LOW_BPS = 2
    BASIS_POINT_SCALE = 4
    IntentOf <- MCIntentOf
    PathOf <- SharedPath
    Snapshot <- MCSnapshot
    CommitTimes = {1, 2}
    MaxSubmissions <- MCMaxSubmissions
CHECK_DEADLOCK FALSE
INVARIANTS
    TypeOK
    OutcomeIsCommitted
    OneTransactionPerId
    RecordsAreOfTheirRequests
    CleanWalkIsComplete
PROPERTIES
    SubmissionEnds
