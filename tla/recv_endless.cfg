SPECIFICATION EndlessSpec
CONSTANTS
    r1 = r1
    r2 = r2
    r3 = r3
    p1 = p1
    p2 = p2
    Requests = {r1, r2, r3}
    Peers = {p1, p2}
    Workers = {w1}
    RemotePorts <- MCRemotePorts
    LocalBlocks <- MCLocalBlocks
    SignalRequests = {}
    TP_NUM_NEED_PULLS = 1
    ENABLE_KV_NZ = FALSE
    BLOCK_SIZE_SCALE = 1
    MAX_REQUESTS_PER_PEER_HANDLER = 1
    ABORT_REQUEST_TIMEOUT = 0
    NoTask = NoTask
    NoPeer = NoPeer
PROPERTIES
    EveryLoadReported
    DoneAlwaysSent
