\* The tests of both partitions, and clients that call at any time.
SPECIFICATION TestSpec
CONSTANTS
    c1 = c1
    Attest = Attest
    v1 = v1
    v2 = v2
    None = None
    Client <- MCClient
    Value <- MCValue
    Signer <- MCSigner
    SignerMax = 2
    VersionMax = 2
    SwTypeMax = 1
    NumSlots = 3
    BootImages <- MCBootImages
    Call <- MCCall
    HashMayFail = TRUE
    MaxExtends = 2
    Request <- MCRequest
    CryptoMayFail = TRUE
    Tester = c1
    TestSlot = 2
    TestSigner <- Id1
    WrongSigner <- Id2
    TestValue1 = v1
    TestValue2 = v2
INVARIANTS TokenBoundToKey KeyFromMeasurements MissedOnlyAfterShorter
    TestsPass OwnerOnly ReadsStayTrue BootMeasurementsFirst
PROPERTIES LockedIsFinal KeyCallEnds
CHECK_DEADLOCK FALSE
