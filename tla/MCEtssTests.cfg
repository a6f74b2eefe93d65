\* Both suites, with a file system per client; the invalid thread has none.
SPECIFICATION TestSpec
CONSTANTS
    c1 = c1
    c2 = c2
    c3 = c3
    c4 = c4
    None = None
    Client <- MCClient
    Uid = {0, 1, 2, 3, 4}
    Request <- MCRequest
    Calls <- MCCalls
    BufSize = 3
    MaxFile = 4
    Isolated = TRUE
    CtxClient <- MCCtx
    AppInfo <- MCCtx
    Feature = {"security_storage"}
    Provisioned = {TRUE}
    ReadMayFail = FALSE
    PowerMayFail = FALSE
    SecureTest = c3
    ThreadA = c1
    ThreadB = c2
    ThreadInvalid = c4
INVARIANTS SuitesPass StopsOnlyWhenPassed
PROPERTIES WriteOnceKept
CHECK_DEADLOCK FALSE
