----------------------------- MODULE ClusterSites -----------------------------
(***************************************************************************)
(* The forms of the admin UI in ingress mode (api/kubernetes.rs): an        *)
(* Ingress, an HTTPRoute ("gateway site") and the Gateways it can hang on   *)
(* are created, updated and deleted, while the cluster's other users edit   *)
(* the same objects.  A handler is a series of calls to the API server, and *)
(* anything may happen between two of them.                                *)
(*                                                                         *)
(* The Ingress and the HTTPRoute live in the namespace Home and bear the    *)
(* name of the Gateways (all are named after the host by default).         *)
(***************************************************************************)
EXTENDS Integers, Sequences, SequencesExt

CONSTANTS
    Handler,         \* concurrent requests of the admin API
    Namespace, Home, \* namespaces with a Gateway; that of the site
    Jobs,            \* requests: [what, kind, ns, body], see Valid
    WantClass,       \* the controller's Gateway class, or NoClass
    OtherUsersGateways, OtherUsersNotes,  \* what the others may write
    MaxTurns         \* bound on requests and foreign edits

NoClass == "noclass"
NoNs == "none"
NoObject == [ver |-> 0]
Resting == [at |-> "rest"]

ASSUME SitesAssumption == Home \in Namespace /\ NoNs \notin Namespace /\ MaxTurns \in Nat

VARIABLES
    gateways,   \* [Namespace -> NoObject or [ver, class, listeners]]
    objects,    \* [{"ingress", "route"} -> NoObject or [ver, parent, paths, notes]]
    lastSave,   \* last revision of each object a handler wrote, and from what
    doing,      \* [Handler -> Resting or the state of its request]
    turns, revision

sitesVars == <<gateways, objects, lastSave, doing, turns, revision>>
-----------------------------------------------------------------------------
(* Annotations: those of the forms, and "foreign", standing for any other. *)

DefaultChallenge == 40
DefaultBlock == 80
OrDefault(n, d) == IF n = 0 THEN d ELSE n

\* BotPolicy::normalized
NormalBot(bot) ==
    LET c == OrDefault(bot.challenge, DefaultChallenge)
        b == OrDefault(bot.block, DefaultBlock)
    IN [bot EXCEPT !.challenge = c, !.block = IF b < c THEN c ELSE b]

NoBot == [on |-> FALSE, challenge |-> 0, block |-> 0]

NoPolicyNotes ==
    [geoOn |-> FALSE, geoLists |-> {}, wafOn |-> FALSE, builtin |-> FALSE,
     bot |-> NoBot, captchaTtl |-> 0, listId |-> "none"]

\* The keys a policy is written to; an absent key reads as the default.
PolicyNotes(p) ==
    [geoOn |-> p.geo.on, geoLists |-> p.geo.lists,
     wafOn |-> p.waf.on, builtin |-> p.waf.on /\ p.waf.builtin,
     bot |-> IF p.bot.on THEN NormalBot(p.bot) ELSE NoBot,
     captchaTtl |-> IF p.captcha.on THEN OrDefault(p.captcha.ttl, 86400) ELSE 0,
     listId |-> p.listId]

\* Mutant of MergeNotes: the keys of the old policy are not removed first.
MergeNotesOver(notes, p) ==
    LET new == PolicyNotes(p) IN
    [notes EXCEPT !.policy = [new EXCEPT !.geoLists = IF @ = {} THEN notes.policy.geoLists ELSE @]]

\* merge_security_annotations: all keys of the forms are replaced.
MergeNotes(notes, p) == [notes EXCEPT !.policy = PolicyNotes(p)]

\* policy_from_annotations, of GeoIP: any list turns it on.
ReadGeo(notes) ==
    IF notes.exempt THEN [on |-> FALSE, lists |-> {}]
    ELSE [on |-> notes.policy.geoOn \/ notes.policy.geoLists # {}, lists |-> notes.policy.geoLists]

\* Of WAF, bot score and captcha: an enabled WAF has the built-in rules.
ReadSecurity(notes) ==
    LET n == IF notes.exempt THEN NoPolicyNotes ELSE notes.policy IN
    [waf |-> [on |-> n.wafOn, builtin |-> n.wafOn \/ n.builtin],
     bot |-> NormalBot(n.bot),
     captcha |-> [on |-> n.captchaTtl # 0, ttl |-> OrDefault(n.captchaTtl, 86400)]]
-----------------------------------------------------------------------------
(* Specs written from a form, and forms read from a spec.                  *)

\* httproute_rules_from_body; an Ingress keeps the path type as it is.
WrittenType(kind, type) ==
    IF kind = "ingress" THEN type ELSE IF type = "Exact" THEN "Exact" ELSE "PathPrefix"

WrittenPaths(kind, paths) ==
    [i \in 1..Len(paths) |-> [paths[i] EXCEPT !.type = WrittenType(kind, @)]]

\* ingress_form_routes_from_httproute
FormPaths(paths) ==
    IF paths = <<>> THEN <<[path |-> "/", type |-> "Prefix", port |-> "none"]>>
    ELSE [i \in 1..Len(paths) |->
            [paths[i] EXCEPT !.type = IF @ = "PathPrefix" THEN "Prefix" ELSE @]]

HttpsListener(body) ==
    [name |-> "https", https |-> TRUE, allowed |-> "same", tls |-> body.tls, host |-> body.host]

IsHttps(l) == l.name = "https" \/ l.https

\* apply_gateway_form_to_spec: the first HTTPS listener takes the form's host
\* and secret; the others stay.
ApplyForm(listeners, body) ==
    LET i == SelectInSeq(listeners, IsHttps) IN
    IF i = 0 THEN Append(listeners, HttpsListener(body))
    ELSE [listeners EXCEPT ![i].host = body.host, ![i].tls = body.tls,
                           ![i].allowed = IF @ = "none" THEN "same" ELSE @]

ClassOf(body, old) ==
    CASE body.class # NoClass -> body.class
      [] body.class = NoClass /\ WantClass # NoClass -> WantClass
      [] OTHER -> old

\* gateway_managed_by_app
Managed(gw) == gw # NoObject /\ (IF WantClass = NoClass THEN gw.class # NoClass ELSE gw.class = WantClass)

ManagedIn(namespaces) == {ns \in namespaces : Managed(gateways[ns])}

ParentOf(route) == IF route.parent = NoNs THEN Home ELSE route.parent

\* httproute_attached_to_managed
Attached(route, managed) == ParentOf(route) \in managed

\* kubernetes_httproutes: a namespace's list looks for its Gateways there too.
RouteListed(namespaces) ==
    /\ Home \in namespaces /\ objects["route"] # NoObject
    /\ Attached(objects["route"], ManagedIn(namespaces))

\* What the form of an Ingress, or of a gateway site, is opened with.
IngressForm(o) ==
    [paths |-> FormPaths(o.paths), geo |-> ReadGeo(o.notes), security |-> ReadSecurity(o.notes),
     listId |-> o.notes.policy.listId]

SiteForm(o) ==
    [paths |-> FormPaths(o.paths), geo |-> ReadGeo(o.notes), security |-> ReadSecurity(o.notes),
     listId |-> o.notes.policy.listId,
     gateway |-> ParentOf(o),
     class |-> IF gateways[ParentOf(o)] = NoObject THEN NoClass ELSE gateways[ParentOf(o)].class]
-----------------------------------------------------------------------------
(* The handlers.  Several calls to the API server, each of which may fail. *)

InitSites ==
    /\ gateways \in [Namespace -> {NoObject} \cup
                        {[ver |-> 1, class |-> g.class, listeners |-> g.listeners] : g \in OtherUsersGateways}]
    /\ objects \in [{"ingress", "route"} -> {NoObject} \cup
                        {[ver |-> 1, parent |-> Home, paths |-> <<>>, notes |-> n] : n \in OtherUsersNotes}]
    /\ lastSave = [k \in {"ingress", "route"} |-> NoObject]
    /\ doing = [h \in Handler |-> Resting]
    /\ turns = 0 /\ revision = 1

\* Early returns on the body: the TLS secret's namespace, a named port in an
\* HTTPRoute, a gateway site without a Gateway.  A site is created in the
\* namespace of its Gateway: one created elsewhere is not the modelled route.
Valid(job) ==
    /\ job.kind # "route" => \/ job.body.tls = "none" \/ job.what = "delete"
                             \/ job.body.tlsNs = (IF job.kind = "gateway" THEN job.ns ELSE Home)
    /\ job.kind = "route" /\ job.what # "delete" =>
        \A i \in 1..Len(job.body.paths) : job.body.paths[i].port # "named"
    /\ job.kind = "route" /\ job.what = "create" => job.body.gateway = Home

\* Which call comes first.
FirstCallOf(job) ==
    CASE job.kind = "route" /\ job.what = "create" -> "gateway"
      [] job.kind = "ingress" /\ job.what # "update" -> "write"
      [] job.kind = "gateway" /\ job.what = "create" -> "write"
      [] OTHER -> "get"

BeginJob(h, job) ==
    /\ doing[h] = Resting /\ turns < MaxTurns /\ Valid(job)
    /\ turns' = turns + 1
    /\ doing' = [doing EXCEPT ![h] = [at |-> FirstCallOf(job), job |-> job, got |-> NoObject]]
    /\ UNCHANGED <<gateways, objects, lastSave, revision>>

Go(h, at, got) == doing' = [doing EXCEPT ![h] = [@ EXCEPT !.at = at, !.got = got]]
Refuse(h) == doing' = [doing EXCEPT ![h] = Resting]

Target(job) == IF job.kind = "gateway" THEN gateways[job.ns] ELSE objects[job.kind]

\* The object is read; a Gateway must be managed by this controller.
GetObject(h) ==
    /\ doing[h].at = "get"
    /\ LET job == doing[h].job IN
        IF Target(job) = NoObject \/ (job.kind = "gateway" /\ ~Managed(Target(job))) THEN Refuse(h)
        ELSE Go(h, IF job.kind = "route" THEN "list" ELSE "write", Target(job))
    /\ UNCHANGED <<gateways, objects, lastSave, turns, revision>>

\* ensure_httproute_managed lists all Gateways.
ListForRoute(h) ==
    /\ doing[h].at = "list"
    /\ IF ~Attached(doing[h].got, ManagedIn(Namespace)) THEN Refuse(h)
       ELSE Go(h, IF doing[h].job.what = "delete" THEN "write" ELSE "gateway", doing[h].got)
    /\ UNCHANGED <<gateways, objects, lastSave, turns, revision>>

\* Namespace of the Gateway a route is hung on: the form's, or the route's own.
GatewayNs(h) ==
    LET d == doing[h] IN
    CASE d.job.body.gateway # NoNs -> d.job.body.gateway
      [] d.got # NoObject -> ParentOf(d.got)
      [] OTHER -> NoNs

GetGateway(h) ==
    /\ doing[h].at = "gateway"
    /\ IF GatewayNs(h) = NoNs \/ ~Managed(gateways[GatewayNs(h)]) THEN Refuse(h)
       ELSE Go(h, "write", doing[h].got)
    /\ UNCHANGED <<gateways, objects, lastSave, turns, revision>>

\* The object a request writes.
NewGateway(job, got) ==
    [ver |-> revision + 1,
     class |-> ClassOf(job.body, IF got = NoObject THEN NoClass ELSE got.class),
     listeners |-> IF got = NoObject THEN <<HttpsListener(job.body)>> ELSE ApplyForm(got.listeners, job.body)]

NewObject(h) ==
    LET job == doing[h].job
        old == IF doing[h].got = NoObject
               THEN [foreign |-> "none", exempt |-> FALSE, policy |-> NoPolicyNotes]
               ELSE doing[h].got.notes
    IN [ver |-> revision + 1,
        parent |-> IF job.kind = "route" THEN GatewayNs(h) ELSE NoNs,
        paths |-> WrittenPaths(job.kind, job.body.paths),
        notes |-> MergeNotes(old, job.body.policy)]

\* Mutant of MayWrite: the update of an Ingress or a route does not say which
\* revision it replaces.
MayWriteAny(what, got, now) ==
    IF what = "create" THEN now = NoObject
    ELSE now # NoObject /\ ("notes" \in DOMAIN now \/ now.ver = got.ver)

\* The API server: create needs the name to be free, replace the revision that
\* was read.
MayWrite(what, got, now) == IF what = "create" THEN now = NoObject ELSE now # NoObject /\ now.ver = got.ver

\* A refused or failed write is answered with an error; a delete of what is
\* gone is answered as done.
WriteObject(h) ==
    /\ doing[h].at = "write"
    /\ Refuse(h)
    /\ LET job == doing[h].job
           writes == job.what # "delete" /\ MayWrite(job.what, doing[h].got, Target(job))
           deletes == job.what = "delete" /\ Target(job) # NoObject
       IN /\ revision' = IF writes THEN revision + 1 ELSE revision
          /\ IF job.kind = "gateway"
             THEN /\ gateways' = CASE writes -> [gateways EXCEPT ![job.ns] = NewGateway(job, doing[h].got)]
                                   [] deletes -> [gateways EXCEPT ![job.ns] = NoObject]
                                   [] OTHER -> gateways
                  /\ UNCHANGED <<objects, lastSave>>
             ELSE /\ objects' = CASE writes -> [objects EXCEPT ![job.kind] = NewObject(h)]
                                  [] deletes -> [objects EXCEPT ![job.kind] = NoObject]
                                  [] OTHER -> objects
                  /\ lastSave' = IF writes THEN [lastSave EXCEPT ![job.kind] = [ver |-> revision + 1, body |-> job.body]]
                              ELSE lastSave
                  /\ UNCHANGED gateways
    /\ UNCHANGED turns

\* A call to the API server fails.
CallFails(h) ==
    /\ doing[h] # Resting /\ Refuse(h)
    /\ UNCHANGED <<gateways, objects, lastSave, turns, revision>>

\* Another user of the cluster writes or deletes an object.
OtherUser ==
    /\ turns < MaxTurns /\ turns' = turns + 1 /\ revision' = revision + 1
    /\ \/ /\ \E ns \in Namespace, g \in OtherUsersGateways :
                gateways' = [gateways EXCEPT ![ns] =
                                [ver |-> revision + 1, class |-> g.class, listeners |-> g.listeners]]
          /\ UNCHANGED objects
       \/ /\ \E ns \in Namespace : gateways' = [gateways EXCEPT ![ns] = NoObject]
          /\ UNCHANGED objects
       \/ /\ \E k \in {"ingress", "route"}, n \in OtherUsersNotes, p \in Namespace \cup {NoNs} :
                objects' = [objects EXCEPT ![k] =
                                [ver |-> revision + 1, parent |-> p, paths |-> <<>>, notes |-> n]]
          /\ UNCHANGED gateways
    /\ UNCHANGED <<lastSave, doing>>

HandlerStep(h) ==
    GetObject(h) \/ ListForRoute(h) \/ GetGateway(h) \/ WriteObject(h) \/ CallFails(h)

NextSites ==
    \/ \E h \in Handler, job \in Jobs : BeginJob(h, job)
    \/ \E h \in Handler : HandlerStep(h)
    \/ OtherUser
-----------------------------------------------------------------------------
(* Properties.                                                             *)

\* A save never undoes what another user did between the handler's read and
\* its write: the annotations that are not the form's, and every listener of a
\* Gateway but the one the form edits, are those of the revision it replaces.
\* An update only ever replaces a Gateway this controller manages, even if its
\* class changes during the request, and a form that names no class leaves it
\* managed.
OthersKept ==
    [][\A h \in Handler :
        doing[h] # Resting /\ doing[h].at = "write" /\ WriteObject(h) /\ doing[h].job.what = "update" =>
            /\ \A k \in {"ingress", "route"} :
                objects'[k] # objects[k] =>
                    /\ objects'[k].notes.foreign = objects[k].notes.foreign
                    /\ objects'[k].notes.exempt = objects[k].notes.exempt
            /\ \A ns \in Namespace :
                gateways'[ns] # gateways[ns] =>
                    /\ Managed(gateways[ns])
                    /\ doing[h].job.body.class = NoClass => Managed(gateways'[ns])
                    /\ \A i \in 1..Len(gateways[ns].listeners) :
                        LET l == gateways[ns].listeners[i] IN
                        \/ gateways'[ns].listeners[i] = l
                        \/ IsHttps(l) /\ l.allowed \in {"none", gateways'[ns].listeners[i].allowed}]_sitesVars

\* A form opened on what it saved shows what was entered, zeros of the bot
\* score and of the captcha replaced by the defaults, where the form's switches
\* are on for what it has entered; path types of an HTTPRoute are exact or
\* prefixes, and its Gateway is the one chosen.  A new save of other values
\* leaves nothing of the old ones.  A gateway site that was saved is listed as
\* long as its Gateway is managed: in the list of the whole cluster, and in that
\* of its namespace if the Gateway is there too.
SavedReadsBack ==
    \A k \in {"ingress", "route"} :
        LET o == objects[k]
            b == lastSave[k].body
            p == b.policy
        IN o # NoObject /\ lastSave[k].ver = o.ver /\ ~o.notes.exempt =>
            LET form == IF k = "route" THEN SiteForm(o) ELSE IngressForm(o)
                security == form.security
            IN
            /\ p.geo.on \/ p.geo.lists = {} => form.geo = p.geo
            /\ security.waf.on = p.waf.on
            /\ p.waf.on /\ p.waf.builtin => security.waf.builtin
            /\ p.bot.on => /\ security.bot.on
                           /\ security.bot.block >= security.bot.challenge
                           /\ p.bot.challenge # 0 => security.bot.challenge = p.bot.challenge
            /\ security.captcha.on = p.captcha.on
            /\ form.listId = p.listId
            /\ k = "route" /\ b.gateway # NoNs => form.gateway = b.gateway
            /\ \A i \in 1..Len(b.paths) :
                LET shown == form.paths[i] IN
                /\ shown.path = b.paths[i].path /\ shown.port = b.paths[i].port
                /\ (shown.type = "Exact") = (b.paths[i].type = "Exact")
                /\ k = "ingress" => shown.type = b.paths[i].type
            /\ k = "route" /\ Managed(gateways[o.parent]) =>
                /\ RouteListed(Namespace)
                /\ o.parent = Home => RouteListed({Home})
=============================================================================
