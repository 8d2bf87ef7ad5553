SPECIFICATION Spec
CONSTANTS
    r1 = r1
    r2 = r2
    p1 = p1
    p2 = p2
    Requests = {r1, r2}
    Peers = {p1, p2}
    Workers = {w1, w2}
    RemotePorts <- MCRemotePorts
    LocalBlocks <- MCPulledBlocks
    SignalRequests = {}
    TP_NUM_NEED_PULLS = 2
    ENABLE_KV_NZ = FALSE
    BLOCK_SIZE_SCALE = 1
    MAX_REQUESTS_PER_PEER_HANDLER = 1
    ABORT_REQUEST_TIMEOUT = 0
    NoTask = NoTask
    NoPeer = NoPeer
INVARIANT ReformatAfterAllPulls
