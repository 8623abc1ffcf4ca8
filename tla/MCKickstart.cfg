SPECIFICATION FairSpec
CONSTANTS
    Targets = {1, 3}
    Images <- MCImages
    DtSizes = {0, 1, 2}
    MemPages = 12
    BOOTLOADER_BASE = 0
    KERNEL_LOAD_BASE = 1
    DEVICE_TREE_BASE = 9
    FBMEM_BASE = 10
    MAX_KERNEL_SIZE = 3
    MAX_DEVICETREE_SIZE = 1
INVARIANT BootSound
PROPERTY BootEnds
CHECK_DEADLOCK FALSE
