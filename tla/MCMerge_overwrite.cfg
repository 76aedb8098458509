CONSTANTS
    ParserTcpStates = {"Unknown"}
    DpiResults = {Http, Https, Dns, Ssh, Quic}
    None = None
    Pids = {P1, P2}
    MaxPackets = 3
SPECIFICATION Spec
INVARIANT ComputedTcpStateWins
