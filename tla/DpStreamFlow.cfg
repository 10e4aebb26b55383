SPECIFICATION Spec
CONSTANTS
    ChunkIn = 1
    Block = 3
    ChunkOut = 1
    SampleMod = 20
INVARIANTS Unbroken SyncSucceeds NoOverrun
PROPERTIES KeepsFlowing
