CONSTANTS
    Sweep = {boot1, boot2}
    Boot = {boot1, boot2}
    MaxEntry = 2
    Host <- NameAndStar
    Stars <- Star
    Wild <- StarAboveName
    HostsOf <- TwoEntries
    OrderOf <- OrderableNames
    MaxCert = 3
    MaxUploads = 0
    InitAcme = {1, 2}
    Aging = {1}
    Errors = TRUE
    Channel = {"logs"}
    QueueCap = 1
    MaxData = 1
    MaxAsks = 3
    MaxFails = 1
    Feed = {"logs", "management"}
    Moving = {"management"}
    Stream = {"s1", "s2", "s3"}
    MaxLive = 2
    MaxRef = 1
    MaxPages = 3
    MaxBreaks = 1
SPECIFICATION ServiceSpec
 
PROPERTIES OrdersReleased SocketConverges PagesConverge
CHECK_DEADLOCK FALSE
