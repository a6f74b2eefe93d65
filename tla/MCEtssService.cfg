\* One file system for all clients, with failing reads; c3 has no access rights.
SPECIFICATION Spec
CONSTANTS
    c1 = c1
    c2 = c2
    c3 = c3
    None = None
    Client <- MCClient
    Uid = {0, 1}
    Request <- MCRequest
    Calls <- MCCalls
    BufSize = 1
    MaxFile = 2
    Isolated = FALSE
    CtxClient <- MCClient
    AppInfo <- MCAppInfo
    Feature = {"security_storage"}
    Provisioned = {TRUE, FALSE}
    ReadMayFail = TRUE
    PowerMayFail = TRUE
INVARIANTS OwnAssetsOnly NoAccessUnprovisioned
PROPERTIES WaitsOnlyOutranked
CHECK_DEADLOCK FALSE
