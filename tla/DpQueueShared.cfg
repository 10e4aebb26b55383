CONSTANTS
    x = x
    y = y
    MinAvailable = 2
    MinFreeSpace = 1
    DcacheAlign = 2
    Shared = TRUE
    Byte <- TwoBytes
    NoByte = NoByte
    Params <- OneParam
    Requests <- OneAndThree
SPECIFICATION Spec
INVARIANTS ExclusiveWindows CoherentWindow
PROPERTIES LentDataIsStable ImplementsFifo
SYMMETRY ByteSymmetry
