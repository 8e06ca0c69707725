CONSTANTS
    h1 = h1
    h2 = h2
    Paths <- MCPaths
    Handles <- MCHandles
    Bytes <- MCBytes
    Zero = "0"
    Chunks <- MCChunks
    ReadSizes = {1, 2}
    Offsets <- MCOffsets
    OpenFlags <- MCOpenFlags
    MaxLen = 2
    MaxPos = 1
    MaxId = 2
SPECIFICATION Spec
CONSTRAINT CallBound
SYMMETRY HandleSymmetry
INVARIANTS
    TypeOK
PROPERTIES
    ReadSeesStore
    WriteStoresOverwrite
