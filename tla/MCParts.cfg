SPECIFICATION PartsSpec
CONSTANTS
    Clients = {c1, c2}
    Bits = {b1, b2}
    NumRegs = 4
    AddrSpace = 3
    RegBits = {b1}
    Volatile = {0}
    Threads = {t1, t2}
    MaxPins = 2
    Requests <- MCRequests
    BootWords = {1258}
    OffsetSpace = 16
    RegSize = 6
    Sizes = {1, 2, 4}
    Paths = {"a", "b", "c", "d", "nowhere"}
    Bundles = {"a", "b", "c", "d"}
    Files <- MCFiles
    Of <- MCOf
    Kind <- MCKind
    Good = {"a.plist", "b.plist", "b/x.plist"}
    Settings = {"a.conf", "etc.conf"}
    MaxLoads = 3
    None = None
SYMMETRY ThreadSymmetry
INVARIANTS AtomicUntilStale RegistersSound PinsSound DeviceSound BundleSound
CHECK_DEADLOCK FALSE
