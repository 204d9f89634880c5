CONSTANTS
    Sweep = {boot1, boot2}
    Boot = {boot1, boot2}
    MaxEntry = 1
    Host <- MCHost
    Stars <- MCStars
    Wild <- MCWild
    HostsOf <- Single
    OrderOf <- Single
    MaxCert = 4
    MaxUploads = 0
    InitAcme = {1}
    Aging = {1, 2, 3, 4}
    Errors = FALSE
SPECIFICATION FairSpec
PROPERTIES Renewed
CHECK_DEADLOCK FALSE
