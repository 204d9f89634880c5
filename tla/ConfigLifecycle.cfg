CONSTANTS
    Wildcards = {}
    InvalidIds = {}
    Req = {q1, q2, q3}
    Routes = {"none", "s1", "bad"}
    BadRoutes = {"bad"}
    NoRoutes = "none"
    Lists = {"l1"}
    CertId = {"c1", "c2", "c3"}
    Host = {"a", "b"}
    HostsOf <- MCHostsOf
    ValidPem = {"c1", "c2"}
    NoCert = "nocert"
    DbErrors = TRUE
    Ops = {"put", "reload", "create", "remove", "upload", "delete"}
    MaxInFlight = 2
    MaxCrashes = 2
SYMMETRY MCSymmetry
SPECIFICATION Spec
INVARIANTS RejectedNeverRuns  SerialRowsServed StartsAgain
CHECK_DEADLOCK FALSE
