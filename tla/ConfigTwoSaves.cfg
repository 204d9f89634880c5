CONSTANTS
    Wildcards = {}
    InvalidIds = {}
    Req = {q1, q2}
    Routes = {"none", "s1", "s2"}
    BadRoutes = {}
    NoRoutes = "none"
    Lists = {"l1"}
    CertId = {"c1"}
    Host = {"a", "b"}
    HostsOf <- MCHostsOf
    ValidPem = {"c1"}
    NoCert = "nocert"
    DbErrors = FALSE
    Ops = {"put"}
    MaxInFlight = 2
    MaxCrashes = 0
SYMMETRY MCSymmetry
SPECIFICATION Spec
INVARIANTS AckedIsActive
CHECK_DEADLOCK FALSE
