CONSTANTS
    Sweep = {boot1, put1}
    Boot = {boot1}
    MaxEntry = 2
    Host <- MCHost
    Stars <- MCStars
    Wild <- MCWild
    HostsOf <- NoOrderHosts
    OrderOf <- NoOrderOrders
    MaxCert = 3
    MaxUploads = 1
    InitAcme = {1}
    Aging = {1}
    Errors = TRUE
SPECIFICATION Spec
INVARIANTS OneObtain 
PROPERTIES FreshKept
CHECK_DEADLOCK FALSE
