CONSTANTS
    L1 = L1  R1 = R1  R2 = R2  Q = Q  SL = SL  SR = SR
    NoConn = NoConn
    Endpoints <- MCEndpoints
    PrivateEps <- MCPrivate
    LoopbackEps <- MCLoopback
    QueueEp = Q
    Sockets <- MCSockets
    KernelStates = {"ESTABLISHED", "FIN_WAIT2"}
    SampleRows <- MCSampleRows
    Frames <- MCFramesSmall
    MaxPending = 1
    BatchLimit = 1
    Throttle = 1
    ActiveWindow = 1
    NetstatInstalled = TRUE
    FilterLocalhost = FALSE
SPECIFICATION Spec
INVARIANT NoPortZeroRows
