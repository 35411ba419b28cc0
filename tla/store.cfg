CONSTANTS
    Clients = {manager, other}
    Downloads <- MCDownloads
    Resources <- MCResources
    StoredFailures <- MCStoredFailures
    Times = {1}
    OldDatabases <- MCOldDatabases
    MaxBytes = 2
    I64Max = 1
    MaxDownloads = 2
    MaxChanges = 2
SPECIFICATION Spec
INVARIANTS
    ReadsBackWhatWasReturned
    NoRecordLocksTheStore
    ListingIsOneMoment
SYMMETRY StoreSymmetry
