CONSTANTS
    MaxBufferSize = 6
    Offsets = {0, 1, 2, 3, 4, 5}
    Lengths = {1, 2, 3}
    HelloLen = 4
    TlsInfos = {T1, T2}
    NoInfo = NoInfo
SPECIFICATION Spec
INVARIANT TypeOK
INVARIANT ContiguousDataIsPrefix
INVARIANT BufferAccounting
INVARIANT FragmentsDisjoint
PROPERTY ImplementsCryptoStream
