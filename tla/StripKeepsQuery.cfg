CONSTANTS
    Req = {q1, q2}
    Tables <- MixedTables
    MaxReloads = 2
    MaxTries = 1
    Key = {"k1", "k2", "k3"}
    MaxSize = 3
    ItemMax = 2
    Limits = {0, 2, 5}
    Ttls = {0, 2}
    MaxTime = 3
    Wildcards = {"*.a.io"}
    InvalidIds = {"io"}
    Entries <- TlsEntries
    MaxEntries = 3
    SiteConfigs <- OneOrTwoSites
    CertSets <- AnyCerts
    ReqHost <- AskedHosts
    ReqPath <- AskedPaths
    MaxPath = 3
    Prober = {"p", "q"}
    Upstream = {"u"}
    Port443 = {"u"}
    Life = 2
    ProbeTime = 1
    MaxProbeTime = 7
    MaxFlips = 2
SYMMETRY Symmetric
SPECIFICATION DataSpec
CHECK_DEADLOCK FALSE
INVARIANTS StripKeepsQuery
