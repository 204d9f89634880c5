---------------------------- MODULE MCControlPlane ----------------------------
(* Instances of the components of the control plane that are checked for      *)
(* safety: the election, the forms and the backup of cluster objects, the     *)
(* sessions of the admin API and the backup of the proxy's own configuration. *)
(* They share no state; in each behaviour one of them, the focus, runs.       *)
EXTENDS LeaderElection, ClusterSites, ClusterBackup, AdminSessions, ProxyBackup, TLC

VARIABLE focus

Symmetric == Permutations(Node)

(* ClusterBackup *)
KindOfObject == [o \in Object |-> IF o = "sec" THEN "secret" ELSE "gateway"]

(* ProxyBackup: a certificate for host a, another for both hosts. *)
HostsOfCert == [c \in Cert |-> IF c = "ca" THEN {"a"} ELSE {"a", "b"}]

(* ClusterSites *)
Listener(n, h) == [name |-> n, https |-> h, allowed |-> "all", tls |-> "none", host |-> "old"]
UserGateways ==
    {[class |-> "ours", listeners |-> <<Listener("http", FALSE), Listener("tls", TRUE)>>],
     [class |-> "other", listeners |-> <<Listener("http", FALSE)>>]}
UserNotes ==
    {[foreign |-> f, exempt |-> f = "y", policy |-> [NoPolicyNotes EXCEPT !.geoLists = {"TH"}]] :
        f \in {"x", "y"}}

FormPolicy(on, lists, challenge, id) ==
    [geo |-> [on |-> on, lists |-> lists], waf |-> [on |-> on, builtin |-> on],
     bot |-> [on |-> on, challenge |-> challenge, block |-> 0],
     captcha |-> [on |-> on, ttl |-> 0], listId |-> id]
FormPath(t, n) == [path |-> "/p", type |-> t, port |-> n]
FullBody ==
    [class |-> NoClass, gateway |-> "b", tls |-> "sec", tlsNs |-> "a", host |-> "new",
     paths |-> <<FormPath("Exact", "8080"), FormPath("ImplementationSpecific", "80")>>,
     policy |-> FormPolicy(TRUE, {"US"}, 90, "l1")]
BareBody ==
    [FullBody EXCEPT !.gateway = NoNs, !.class = "other", !.tls = "none",
                     !.paths = <<FormPath("Prefix", "80")>>,
                     !.policy = FormPolicy(FALSE, {}, 0, "none")]
HomeBody == [FullBody EXCEPT !.gateway = "a"]
NamedPort == [BareBody EXCEPT !.paths = <<FormPath("Prefix", "named")>>]
Job(w, k, b) == [what |-> w, kind |-> k, ns |-> "a", body |-> b]
UserJobs ==
    {Job("create", "route", HomeBody), Job("update", "route", FullBody), Job("update", "route", BareBody),
     Job("update", "route", NamedPort), Job("delete", "route", BareBody),
     Job("create", "ingress", NamedPort), Job("update", "ingress", FullBody), Job("delete", "ingress", FullBody),
     Job("create", "gateway", FullBody), Job("update", "gateway", FullBody),
     Job("update", "gateway", BareBody), Job("delete", "gateway", FullBody)}

SitesStart ==
    /\ objects["ingress"] = objects["route"] /\ objects["route"].ver = 1
    /\ ~objects["route"].notes.exempt
    /\ gateways["b"].ver = 1 /\ gateways["b"].class = "ours"
    /\ focus # "sites" => gateways["a"] = NoObject

\* Either two logins, or a login and two requests.
SessionsStart ==
    /\ login[1] = "new" /\ rq["r1"] = "idle"
    /\ (login[2] = "new") # (rq["r2"] = "idle")
    /\ focus # "sessions" => login[2] = "new" /\ signed

BackupStart == focus # "proxyBackup" => certRows = <<>> /\ dbConfig = NoConfig

InitControl ==
    /\ focus \in {"election", "sites", "clusterBackup", "sessions", "proxyBackup"}
    /\ Init
    /\ InitSites /\ SitesStart
    /\ InitCluster
    /\ InitSessions /\ SessionsStart
    /\ InitBackup /\ BackupStart

Still(f) ==
    /\ f # "election" => UNCHANGED vars
    /\ f # "sites" => UNCHANGED sitesVars
    /\ f # "clusterBackup" => UNCHANGED clusterVars
    /\ f # "sessions" => UNCHANGED sessionVars
    /\ f # "proxyBackup" => UNCHANGED backupVars

NextControl ==
    /\ UNCHANGED focus /\ Still(focus)
    /\ \/ focus = "election" /\ Next
       \/ focus = "sites" /\ NextSites
       \/ focus = "clusterBackup" /\ NextCluster
       \/ focus = "sessions" /\ NextSessions
       \/ focus = "proxyBackup" /\ NextBackup

ControlSpec ==
    InitControl /\ [][NextControl]_<<focus, vars, sitesVars, clusterVars, sessionVars, backupVars>>
=============================================================================
