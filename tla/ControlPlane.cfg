CONSTANTS
    Node = {n1, n2}
    Dur = 2
    MaxTime = 4
    MaxWrites = 3
    Handler = {"h1", "h2"}
    Namespace = {"a", "b"}
    Home = "a"
    Jobs <- UserJobs
    WantClass = "ours"
    OtherUsersGateways <- UserGateways
    OtherUsersNotes <- UserNotes
    MaxTurns = 3
    Object = {"sec", "gw"}
    KindOf <- KindOfObject
    GatewayApi = TRUE
    MaxVersion = 4
    MaxFails = 1
    Logins = 2
    Request = {"r1", "r2"}
    Password = {"p0", "p1"}
    Seeded = "p0"
    TTL = 1
    MaxTicks = 5
    MaxUpsets = 1
    Item = {"s"}
    Content = {"x", "y"}
    Cert = {"ca", "cab"}
    CertHost = {"a", "b"}
    HostsOf <- HostsOfCert
    MaxRows = 3
    MaxOther = 2
    MaxFaults = 1
SYMMETRY Symmetric
SPECIFICATION ControlSpec
INVARIANTS LeaderHoldsLease  SessionLasts BackupWhole 
PROPERTIES TakenOnlyExpired  RestoreUndoesNoEdit
CHECK_DEADLOCK FALSE
