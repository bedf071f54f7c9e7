\* A zip that is downloaded.
SPECIFICATION Spec
CONSTANTS
    Runs = {run1, run2}
    Files <- MCFiles
    Row <- MCRow
    Rows <- MCRows
    Zipped <- MCZipped
    TxnKey <- MCTxnKey
    ParcelKeys = {p1, p2}
    ParcelOf <- MCParcelOf
    Storable <- MCStorable
    Configs <- MCConfigs
    Unnumbered = Unnumbered
    Rejected = Rejected
    NoParcel = NoParcel
    Remote = Remote
    NoChecksum = NoChecksum
    NoFile = NoFile
    NoRun = NoRun
    MaxRetries = 1
    ChunkSize = 2
    market = market
    again = again
    broken = broken
    blank = blank
    twice = twice
    ra = ra
    rb = rb
    rc = rc
    ru = ru
    rx = rx
    ry = ry
    k1 = k1
    k2 = k2
    p1 = p1
    p2 = p2
INVARIANT LockedHoldsItsFile
