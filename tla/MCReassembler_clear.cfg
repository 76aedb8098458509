CONSTANTS
    MaxBufferSize = 4
    Offsets = {0, 1, 2, 3}
    Lengths = {1, 2}
    HelloLen = 3
    TlsInfos = {T1, T2}
    NoInfo = NoInfo
SPECIFICATION Spec
INVARIANT ContiguousDataCorrect
