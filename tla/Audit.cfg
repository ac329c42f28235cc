SPECIFICATION Spec
CONSTANTS
    PolicyRefs = {pol}
    AllocationIds = {alloc}
    RequesterIds = {alice}
    Addresses = {dest, elsewhere}
    AssetIds = {ADA, token}
    UtxoRefs = {utxo, otherUtxo}
    TxHashes = {tx1, tx2}
    ADA = ADA
    pol = pol
    alloc = alloc
    alice = alice
    dest = dest
    elsewhere = elsewhere
    token = token
    utxo = utxo
    otherUtxo = otherUtxo
    tx1 = tx1
    tx2 = tx2
    U64Max = 6
    THRESHOLD_HIGH_MICROUSD = 3
    THRESHOLD_MID_MICROUSD = 2
    BAND_HIGH_BPS = 4
    BAND_MID_BPS = 3
    BAND_LOW_BPS = 2
    BASIS_POINT_SCALE = 4
    Records <- AssembledRecords
    OtherIntents <- AlteredIntents
    OtherResults <- AlteredResults
    OtherOutcomes <- AlteredOutcomes
    MaxAlterations = 3
CHECK_DEADLOCK FALSE
INVARIANTS
    TypeOK
    CleanIffConsistent
    SingleAlterationIsCaught
    PayeeIsBound
