SPECIFICATION Spec
CONSTANTS
    PolicyRefs = {pol}
    AllocationIds = {alloc}
    RequesterIds = {alice}
    Addresses = {dest}
    AssetIds = {ADA}
    ADA = ADA
    UtxoRefs = {1, 2}
    U64Max = 6
    Documents <- DefiniteDocuments
    Prices = {0, 2}
    Validity = 1
    Timeout = 1
    MaxNow = 3
    MaxTransactions = 2
CHECK_DEADLOCK FALSE
INVARIANTS
    DefiniteArraysAreParsed
