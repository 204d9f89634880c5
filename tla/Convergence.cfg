CONSTANTS
    Ingress <- SomeIngresses
    Gateway <- OneGateway
    Route <- OneRoute
    Below <- HostsBelow
    SanHosts <- HostsOfSecret
    InitObjects <- StartObjects
    InitSecrets <- StartSecrets
    Contents <- SecretContents
    MaxTrouble = 1
    Alert = {"a1", "a2"}
    Updates <- SmtpUpdates
    MaxEdits = 3
    MaxLost = 1
    Order <- Orders
    Plan <- Plans
    Zone <- Zones
    ChallengeProvider = {"cloudflare", "digitalocean", "route53", "godaddy", "linode", "hetzner", "ovh", "gandi", "duckdns", "namecheap", "googleclouddns", "azure", "other"}
    Unrelated = {"MX"}
    MaxApiFaults = 1
    Service = {"s", "t"}
    Endpoint = {"e1", "e2"}
    Incomplete = {}
    MaxRegistry = 1
    MaxTables = 1
    MaxSilences = 1
    MaxPicks = 3
    Ip = {0, 1, 2}
    PublicIp = {1, 2}
    AsnDbs <- AsnTables
    CountryDbs <- CountryTables
    PagePolicies <- Policies
    Pages <- WebPages
    Window = 1
    MinLife = 1
    ChallengeLife = 1
    Day = 4
    MaxCount = 2
    MaxMoves = 1
    MaxSwaps = 1
SPECIFICATION ConvergenceSpec
INVARIANTS AlertsFollowSettings   
PROPERTIES  TableConverges EndpointsConverge  ChallengesEnd
CHECK_DEADLOCK FALSE
