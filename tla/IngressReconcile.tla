--------------------------- MODULE IngressReconcile ---------------------------
(***************************************************************************)
(* The Kubernetes controller (ingress/controller.rs): passes that list     *)
(* Ingresses, Gateways and HTTPRoutes, read TLS Secrets and replace the    *)
(* route table, the certificates and the configuration the admin API       *)
(* shows.  Two loops run passes, one woken by watches and one every 30     *)
(* seconds (ingress/mod.rs), and nothing keeps their passes apart.  Every  *)
(* call to the API server is a step of its own and may fail.  A save of    *)
(* access lists by the admin API (policies.rs, viewer mode) runs beside    *)
(* them over the same table and configuration.                             *)
(***************************************************************************)
EXTENDS Naturals, FiniteSets

CONSTANTS
    Ingress,    \* [ns, name, class, rules: set of [host, svc], tls: set of [secret, hosts]]
    Gateway,    \* [ns, name, class, listeners: set of [name, http, host, secret]]
    Route,      \* [ns, name, parents: set of [kind, ns, name, section], hosts, svc, svcNs]
    Below,      \* pairs <<host, wildcard>>: the host is under the wildcard
    SanHosts,   \* hosts named in the certificate of a Secret
    InitObjects,   \* sets of objects the process may find when it starts
    InitSecrets,   \* contents of the Secrets it may find
    Contents,      \* contents of a Secret; "absent", "partial" and "bad" are no valid pair
    MaxTrouble     \* bound on changes, failing calls and saves together

ASSUME ReconcileAssumption ==
    /\ InitObjects \subseteq SUBSET (Ingress \cup Gateway \cup Route)
    /\ InitSecrets \subseteq [DOMAIN SanHosts -> Contents]
    /\ MaxTrouble \in Nat

None == "none"
NoPair == <<None, None>>   \* no certificate
Secret == DOMAIN SanHosts
Host == ({"*"} \cup UNION {SanHosts[s] : s \in Secret}
               \cup UNION {{r.host : r \in i.rules} : i \in Ingress}
               \cup UNION {{l.host : l \in g.listeners} : g \in Gateway}
               \cup UNION {r.hosts : r \in Route}) \ {None}
Pass == {"watch", "timer"}

VARIABLES
    objects, secrets, status,   \* the cluster: objects, contents of Secrets, Gateway status
    event, permit, booted,      \* a watch event under way; the Notify; watches are running
    pc, ings, gws, rts, seen,   \* a pass: control state, what it has listed, statuses then
    refs, todo, prev, loaded,   \* ... hosts by Secret, Secrets left, previous hosts, new hosts
    lists,                      \* ... access lists it has read
    patched,                    \* Gateways whose status the last pass of a loop has written
    table, store, last, config, \* route table, certificates, last_ingress_tls_hosts, runtime_config
    save, draft, dbLists,       \* the admin request: control state and its copy; lists in the database
    trouble,                    \* changes, failing calls and saves so far
    clean, apart                \* history: the pass saw no change, fault or company; no one ever had company

cluster == <<objects, secrets, status>>
wake == <<event, permit, booted>>
listed == <<ings, gws, rts, seen>>
local == <<refs, todo, prev, loaded, lists, patched>>
plane == <<table, store, last, config>>
admin == <<save, draft, dbLists>>

history == <<clean, apart>>
reconcileVars == <<cluster, wake, pc, listed, local, plane, admin, trouble, history>>
-----------------------------------------------------------------------------
(* What a pass computes from what it has listed.                           *)

\* An Ingress without a class is taken, a Gateway without one is not.
Ours(is) == {i \in is : i.class \in {"ours", None}}
Managed(gs) == {g \in gs : g.class = "ours"}
Listeners(g) == {l \in g.listeners : l.http}

RuleHosts(i) == {r.host : r \in i.rules} \ {None}
Star(h) == IF h = None THEN "*" ELSE h

\* attached_gateways: explicit parents, or the Gateway of the same name.
Attached(r, gs) ==
    {g \in Managed(gs) :
        IF r.parents = {} THEN g.ns = r.ns /\ g.name = r.name
        ELSE \E p \in r.parents : /\ p.kind = "Gateway"
                                  /\ p.name = g.name
                                  /\ g.ns = (IF p.ns = None THEN r.ns ELSE p.ns)}

\* hostname_matches_listener
MatchesListener(h, l) == l.host = None \/ l.host = h \/ <<h, l.host>> \in Below

\* resolve_route_hostnames
RouteHosts(r, gs) ==
    LET named == {l.host : l \in UNION {Listeners(g) : g \in gs}} \ {None}
    IN IF r.hosts = {} THEN (IF named = {} THEN {"*"} ELSE named)
       ELSE IF named = {} THEN r.hosts
       ELSE {h \in r.hosts : \E g \in gs : \/ Listeners(g) = {}
                                           \/ \E l \in Listeners(g) : MatchesListener(h, l)}

\* Sites with the name of their backend (backend_name_for, gateway_backend_name);
\* the namespace of the Service is upstreams_from_backend's.
IngressSites(is) ==
    UNION {{[host |-> Star(r.host), owner |-> i.ns, backend |-> <<r.svc, i.name, "ingress">>, at |-> i.ns]
              : r \in i.rules} : i \in Ours(is)}
GatewaySites(gs, rs) ==
    UNION {{[host |-> h, owner |-> r.ns, backend |-> <<r.svc, r.name, "route">>,
             at |-> IF r.svcNs = None THEN r.ns ELSE r.svcNs]
              : h \in RouteHosts(r, Attached(r, gs))} : r \in {q \in rs : q.svc # None /\ Attached(q, gs) # {}}}

\* A backend is made once per name, from the first site in the order of the list,
\* which is by namespace; all sites of the name share it (config_to_route_table).
Resolved(sites) ==
    {[host |-> s.host, owner |-> s.owner, svc |-> s.backend[1],
      at |-> CHOOSE n \in {t.at : t \in {u \in sites : u.backend = s.backend}} :
                 \A u \in sites : u.backend = s.backend => n <= u.at] : s \in sites}
Sites(is, gs, rs) == Resolved(IngressSites(is) \cup GatewaySites(gs, rs))

\* apply_config refuses the whole configuration for one backend without a Service.
Applies(sites) == \A s \in sites : s.svc # None

\* Hosts asked of every Secret that is referenced.
SecretHosts(is, gs, rs) ==
    [s \in Secret |->
        UNION {LET t == {u \in i.tls : u.secret = s}
               IN UNION {u.hosts : u \in t} \cup (IF t = {} THEN {} ELSE RuleHosts(i)) : i \in Ours(is)}
        \cup {Star(l.host) : l \in {k \in UNION {Listeners(g) : g \in Managed(gs)} : k.secret = s}}
        \cup UNION {IF \E g \in Attached(r, gs) : \E l \in Listeners(g) : l.secret = s
                    THEN RouteHosts(r, Attached(r, gs)) ELSE {} : r \in rs}]

\* count_attached_routes, and what a listener's status says.
Counted(r, g, l) ==
    \E p \in r.parents : /\ p.kind = "Gateway" /\ p.name = g.name
                         /\ p.ns \in {None, g.ns}
                         /\ p.section \in {None, l.name}
Ready(content) == content \notin {"absent", "partial"}
Programmed(g, l, rs) ==
    /\ l.secret # None => Ready(secrets[l.secret])
    /\ \E r \in rs : Counted(r, g, l)
NewStatus(g, rs) == {<<l.name, Programmed(g, l, rs)>> : l \in Listeners(g)}
AllProgrammed(st) == \A x \in st : x[2]

\* gateway_status_up_to_date: every listener agrees with the Gateway as a whole.
UpToDate(st, new) == st # {} /\ \A x \in st : x[2] = AllProgrammed(new)
-----------------------------------------------------------------------------
InitReconcile ==
    /\ objects \in InitObjects
    /\ secrets \in InitSecrets
    /\ status = [g \in Gateway |-> {}]
    /\ event = FALSE /\ permit = FALSE /\ booted = FALSE
    /\ pc = [p \in Pass |-> "idle"]
    /\ ings = [p \in Pass |-> {}] /\ gws = [p \in Pass |-> {}] /\ rts = [p \in Pass |-> {}]
    /\ seen = [p \in Pass |-> status]
    /\ refs = [p \in Pass |-> [s \in Secret |-> {}]]
    /\ todo = [p \in Pass |-> {}]
    /\ prev = [p \in Pass |-> {}]
    /\ loaded = [p \in Pass |-> {}]
    /\ lists = [p \in Pass |-> 0]
    /\ patched = [p \in Pass |-> {}]
    /\ table = {}
    /\ store = [h \in Host |-> NoPair]
    /\ last = {}
    /\ config = [sites |-> {}, lists |-> 0]
    /\ save = "idle" /\ draft = config /\ dbLists = 0
    /\ trouble = 0
    /\ clean = [p \in Pass |-> TRUE] /\ apart = TRUE

Trouble == trouble < MaxTrouble /\ trouble' = trouble + 1
Running(p) == pc[p] # "idle"
Busy == save # "idle" \/ \E p \in Pass : Running(p)
Goto(p, from, to) == pc[p] = from /\ pc' = [pc EXCEPT ![p] = to]
Fault(p) == /\ Trouble
            /\ clean' = [clean EXCEPT ![p] = FALSE]
            /\ UNCHANGED apart
NoFault == UNCHANGED <<trouble, history>>
EndsPass(p) == Running(p) /\ pc'[p] = "idle"

\* Locals are gone when a pass ends.
Forget(p) ==
    /\ ings' = [ings EXCEPT ![p] = {}]
    /\ gws' = [gws EXCEPT ![p] = {}]
    /\ rts' = [rts EXCEPT ![p] = {}]
    /\ seen' = [seen EXCEPT ![p] = [g \in Gateway |-> {}]]
    /\ refs' = [refs EXCEPT ![p] = [s \in Secret |-> {}]]
    /\ prev' = [prev EXCEPT ![p] = {}]
    /\ loaded' = [loaded EXCEPT ![p] = {}]
    /\ lists' = [lists EXCEPT ![p] = 0]
    /\ clean' = [clean EXCEPT ![p] = TRUE]

\* Someone joins others at work: their passes have company.
Joins(p) ==
    /\ clean' = [q \in Pass |-> IF q = p THEN ~Busy ELSE clean[q] /\ ~Running(q)]
    /\ apart' = (apart /\ ~Busy)
-----------------------------------------------------------------------------
(* The cluster and its watches.                                            *)

ChangeCluster ==
    /\ Trouble
    /\ clean' = [p \in Pass |-> ~Running(p)]
    /\ event' = booted
    /\ UNCHANGED <<permit, booted, pc, listed, local, plane, admin, apart>>

CreateObject ==
    /\ \E o \in Ingress \cup Gateway \cup Route : o \notin objects /\ objects' = objects \cup {o}
    /\ UNCHANGED <<secrets, status>>
    /\ ChangeCluster

DeleteObject ==
    /\ \E o \in objects : /\ objects' = objects \ {o}
                          /\ status' = [g \in Gateway |-> IF g = o THEN {} ELSE status[g]]
    /\ UNCHANGED secrets
    /\ ChangeCluster

ChangeSecret ==
    /\ \E s \in Secret, c \in Contents : c # secrets[s] /\ secrets' = [secrets EXCEPT ![s] = c]
    /\ UNCHANGED <<objects, status>>
    /\ ChangeCluster

\* notify_one; a deletion that falls into a gap of the watch is not reported.
WatchEvent ==
    /\ event
    /\ event' = FALSE
    /\ \/ permit' = TRUE /\ UNCHANGED trouble
       \/ Trouble /\ UNCHANGED permit
    /\ UNCHANGED <<cluster, booted, pc, listed, local, plane, admin, history>>
-----------------------------------------------------------------------------
(* A pass.                                                                 *)

\* Passes run only when a watch reports something: the 30 s loop is missing.
ListWhenWoken(p) ==
    /\ IF booted THEN p = "watch" /\ permit ELSE p = "timer"
    /\ pc[p] = "idle"
    /\ permit' = FALSE
    /\ \/ /\ pc' = [pc EXCEPT ![p] = "gateways"]
          /\ ings' = [ings EXCEPT ![p] = objects \cap Ingress]
          /\ Joins(p)
          /\ UNCHANGED <<trouble, event, booted>>
       \/ /\ Trouble
          /\ booted' = TRUE
          /\ event' = (event \/ ~booted)
          /\ UNCHANGED <<pc, ings, history>>
    /\ patched' = [patched EXCEPT ![p] = {}]
    /\ UNCHANGED <<cluster, gws, rts, seen, refs, todo, prev, loaded, lists, plane, admin>>

\* The first pass runs before the watches do; later the watch loop is woken by its
\* permit and the timer comes round.  A pass that cannot list Ingresses ends at once.
ListIngresses(p) ==
    /\ IF booted THEN p = "watch" => permit ELSE p = "timer"
    /\ pc[p] = "idle"
    /\ permit' = (permit /\ p # "watch")
    /\ \/ /\ pc' = [pc EXCEPT ![p] = "gateways"]
          /\ ings' = [ings EXCEPT ![p] = objects \cap Ingress]
          /\ Joins(p)
          /\ UNCHANGED <<trouble, event, booted>>
       \/ /\ Trouble
          /\ booted' = TRUE
          /\ event' = (event \/ ~booted)
          /\ UNCHANGED <<pc, ings, history>>
    /\ patched' = [patched EXCEPT ![p] = {}]
    /\ UNCHANGED <<cluster, gws, rts, seen, refs, todo, prev, loaded, lists, plane, admin>>

\* Without a Gateway of ours, or when they cannot be listed, the pass goes on without.
ListGateways(p) ==
    /\ LET found == objects \cap Gateway
       IN \/ /\ Goto(p, "gateways", IF Managed(found) = {} THEN "collect" ELSE "routes")
             /\ gws' = [gws EXCEPT ![p] = found]
             /\ NoFault
          \/ /\ Goto(p, "gateways", "collect")
             /\ Fault(p)
             /\ UNCHANGED gws
    /\ seen' = [seen EXCEPT ![p] = status]
    /\ UNCHANGED <<cluster, wake, ings, rts, local, plane, admin>>

\* When the routes cannot be listed the statuses are written as if there were none.
ListRoutes(p) ==
    /\ Goto(p, "routes", "status")
    /\ \/ rts' = [rts EXCEPT ![p] = objects \cap Route] /\ NoFault
       \/ Fault(p) /\ UNCHANGED rts
    /\ todo' = [todo EXCEPT ![p] = Managed(gws[p])]
    /\ UNCHANGED <<cluster, wake, ings, gws, seen, refs, prev, loaded, lists, patched, plane, admin>>

\* reconcile_gateway_statuses, one Gateway: read its Secrets, patch when it is not
\* up to date.  A patch that fails ends the loop; one that succeeds is a watch event.
WriteStatus(p, g) ==
    LET new == NewStatus(g, rts[p])
    IN /\ pc[p] = "status"
       /\ g \in todo[p]
       /\ \/ /\ new = {} \/ UpToDate(seen[p][g], new)
             /\ todo' = [todo EXCEPT ![p] = @ \ {g}]
             /\ NoFault /\ UNCHANGED <<status, event, patched>>
          \/ /\ new # {} /\ ~UpToDate(seen[p][g], new)
             /\ g \in objects
             /\ todo' = [todo EXCEPT ![p] = @ \ {g}]
             /\ status' = [status EXCEPT ![g] = new]
             /\ event' = booted
             /\ patched' = [patched EXCEPT ![p] = @ \cup {g}]
             /\ NoFault
          \/ /\ new # {} /\ ~UpToDate(seen[p][g], new)
             /\ \/ g \notin objects /\ NoFault
                \/ g \in objects /\ Fault(p)
             /\ todo' = [todo EXCEPT ![p] = {}]
             /\ UNCHANGED <<status, event, patched>>
       /\ UNCHANGED <<objects, secrets, permit, booted, pc, listed, refs, prev, loaded, lists, plane, admin>>

\* The hosts of every Secret, and the hosts the last pass has loaded.
Collect(p) ==
    /\ \/ Goto(p, "collect", "secrets")
       \/ todo[p] = {} /\ Goto(p, "status", "secrets")
    /\ refs' = [refs EXCEPT ![p] = SecretHosts(ings[p], gws[p], rts[p])]
    /\ todo' = [todo EXCEPT ![p] = {s \in Secret : refs'[p][s] # {}}]
    /\ prev' = [prev EXCEPT ![p] = last]
    /\ loaded' = [loaded EXCEPT ![p] = {}]
    /\ seen' = [seen EXCEPT ![p] = [g \in Gateway |-> {}]]
    /\ UNCHANGED <<cluster, wake, ings, gws, rts, lists, patched, plane, admin, trouble, history>>

\* Read one Secret: a valid pair is stored for the hosts asked for and those in the
\* certificate; one that is missing, incomplete, invalid or cannot be read is passed over.
LoadSecret(p, s) ==
    LET hosts == refs[p][s] \cup SanHosts[s]
    IN /\ pc[p] = "secrets"
       /\ s \in todo[p]
       /\ todo' = [todo EXCEPT ![p] = @ \ {s}]
       /\ \/ /\ Ready(secrets[s])
             /\ IF secrets[s] = "bad" THEN UNCHANGED <<store, loaded>>
                ELSE /\ store' = [h \in Host |-> IF h \in hosts THEN <<s, secrets[s]>> ELSE store[h]]
                     /\ loaded' = [loaded EXCEPT ![p] = @ \cup hosts]
             /\ NoFault
          \/ ~Ready(secrets[s]) /\ NoFault /\ UNCHANGED <<store, loaded>>
          \/ Fault(p) /\ UNCHANGED <<store, loaded>>
       /\ UNCHANGED <<cluster, wake, pc, listed, refs, prev, lists, patched, table, last, config, admin>>

DropHosts(p, gone, kept) ==
    /\ todo[p] = {}
    /\ Goto(p, "secrets", "apply")
    /\ IF loaded[p] = {} THEN UNCHANGED <<store, last>>
       ELSE /\ store' = [h \in Host |-> IF h \in gone THEN NoPair ELSE store[h]]
            /\ last' = kept
    /\ refs' = [refs EXCEPT ![p] = [s \in Secret |-> {}]]
    /\ prev' = [prev EXCEPT ![p] = {}]
    /\ loaded' = [loaded EXCEPT ![p] = {}]
    /\ UNCHANGED <<cluster, wake, listed, todo, lists, patched, table, config, admin, trouble, history>>

\* Everything of the pass before goes; what is loaded is not recorded.
DropPrevious(p) == DropHosts(p, prev[p], loaded[p])

\* Certificates of hosts that are no longer asked for go, unless nothing was loaded.
DropObsolete(p) == DropHosts(p, prev[p] \ loaded[p], loaded[p])

\* The first pass is over, or another: watches run and report what there is.
Return ==
    /\ booted' = TRUE
    /\ event' = (event \/ ~booted)
    /\ UNCHANGED permit

\* Access lists are taken over from the running configuration and the table is
\* replaced, if the new configuration can be applied ...
ApplyPass(p) ==
    LET sites == Sites(ings[p], gws[p], rts[p])
    IN /\ \/ /\ Goto(p, "apply", "write")
             /\ Applies(sites)
             /\ table' = sites
             /\ lists' = [lists EXCEPT ![p] = config.lists]
             /\ UNCHANGED <<wake, listed, refs, prev, loaded, clean>>
          \/ /\ Goto(p, "apply", "idle")
             /\ ~Applies(sites)
             /\ Forget(p) /\ Return
             /\ UNCHANGED table
       /\ UNCHANGED <<cluster, todo, patched, store, last, config, admin, trouble, apart>>

\* ... and the running configuration is written when its lock is free.
WriteConfig(p) ==
    /\ Goto(p, "write", "idle")
    /\ config' = [sites |-> Sites(ings[p], gws[p], rts[p]), lists |-> lists[p]]
    /\ Forget(p) /\ Return
    /\ UNCHANGED <<cluster, todo, patched, table, store, last, admin, trouble, apart>>
-----------------------------------------------------------------------------
(* access_lists_create and the other policy handlers in viewer mode.       *)

SaveLoad ==
    /\ booted /\ save = "idle" /\ Trouble
    /\ save' = "db"
    /\ draft' = [config EXCEPT !.lists = dbLists + 1]
    /\ Joins(None)
    /\ UNCHANGED <<cluster, wake, pc, listed, local, plane, dbLists>>

SaveStore ==
    /\ save = "db"
    /\ \/ save' = "apply" /\ dbLists' = draft.lists
       \/ save' = "idle" /\ UNCHANGED dbLists
    /\ UNCHANGED <<cluster, wake, pc, listed, local, plane, draft, trouble, history>>

SaveApply ==
    /\ save = "apply"
    /\ save' = "write"
    /\ table' = draft.sites
    /\ UNCHANGED <<cluster, wake, pc, listed, local, store, last, config, draft, dbLists, trouble, history>>

SaveWrite ==
    /\ save = "write"
    /\ save' = "idle"
    /\ config' = draft
    /\ UNCHANGED <<cluster, wake, pc, listed, local, table, store, last, draft, dbLists, trouble, history>>
-----------------------------------------------------------------------------
PassStep(p) ==
    \/ ListGateways(p) \/ ListRoutes(p)
    \/ \E g \in Gateway : WriteStatus(p, g)
    \/ Collect(p)
    \/ \E s \in Secret : LoadSecret(p, s)
    \/ DropObsolete(p) \/ ApplyPass(p) \/ WriteConfig(p)

SaveStep == SaveStore \/ SaveApply \/ SaveWrite

NextReconcile ==
    \/ CreateObject \/ DeleteObject \/ ChangeSecret \/ WatchEvent
    \/ \E p \in Pass : ListIngresses(p) \/ PassStep(p)
    \/ SaveLoad \/ SaveStep

\* Tasks of the runtime run on, the timer comes round, watches deliver.
FairReconcile ==
    /\ \A p \in Pass : WF_reconcileVars(ListIngresses(p)) /\ WF_reconcileVars(PassStep(p))
    /\ WF_reconcileVars(WatchEvent) /\ WF_reconcileVars(SaveStep)

ReconcileSpec == InitReconcile /\ [][NextReconcile]_reconcileVars /\ FairReconcile
-----------------------------------------------------------------------------
(* Properties.                                                             *)

Wanted == Sites(objects \cap Ingress, objects \cap Gateway, objects \cap Route)

\* A pass that had no company, no failing call and no change under way leaves the
\* table and the shown configuration as the cluster asks, and every host of a valid
\* Secret served with a valid one that names it (reconcile).  If there never was
\* company, the access lists in force are the saved ones, and the controller will find
\* every certificate again whose host is no longer asked for (last_ingress_tls_hosts).
Served ==
    LET asked == SecretHosts(objects \cap Ingress, objects \cap Gateway, objects \cap Route)
        valid == {s \in Secret : asked[s] # {} /\ secrets[s] \notin {"absent", "partial", "bad"}}
    IN /\ table = Wanted /\ config.sites = Wanted
       /\ \A s \in valid : \A h \in asked[s] \cup SanHosts[s] :
             \E t \in valid : store[h] = <<t, secrets[t]>> /\ h \in asked[t] \cup SanHosts[t]
       /\ apart => config.lists = dbLists /\ {h \in Host : store[h] # NoPair} \subseteq last
CleanPassServes ==
    [][\A p \in Pass : EndsPass(p) /\ clean[p] /\ Applies(Wanted) => Served']_reconcileVars

Agrees(g) == \A l, k \in Listeners(g) : Programmed(g, l, objects \cap Route) <=> Programmed(g, k, objects \cap Route)

\* When the cluster settles and calls succeed again, the table and the configuration
\* come to be what the cluster asks for and stay so (run_watches and the 30 s loop).
\* The controller comes to rest as well: a Gateway whose listeners agree gets its
\* status written finitely often, for the patch wakes the watch, and
\* gateway_status_up_to_date ends the round.
TableConverges ==
    /\ <>[](LET wanted == Wanted IN Applies(wanted) => table = wanted /\ config.sites = wanted)
    /\ \A g \in Gateway : <>[]((\E p \in Pass : g \in patched[p]) => ~Agrees(g))
=============================================================================
