----------------------------- MODULE MCDataPlane -----------------------------
(* Instances of the components that serve requests: the phases of a request,  *)
(* the response cache, the TLS configuration, the route table and the guess   *)
(* of an upstream's scheme.  They share no state here; in each behaviour one  *)
(* of them, the focus, runs.                                                  *)
EXTENDS GatewayRequest, EdgeCache, TlsNormalize, Routing, TlsProbe, TLC

VARIABLE focus

Symmetric == Permutations(Req)

(* GatewayRequest: tables of several kinds. *)
Table(f, m, a, l, c, s) ==
    [found |-> f, mw |-> m, auth |-> a, limit |-> l, cache |-> c, store |-> s]

PlainTable == Table(TRUE, FALSE, FALSE, 1, TRUE, TRUE)

MixedTables ==
    {PlainTable, Table(TRUE, TRUE, FALSE, 1, TRUE, TRUE),
     Table(TRUE, TRUE, TRUE, 0, TRUE, TRUE), Table(TRUE, FALSE, FALSE, 0, FALSE, TRUE),
     Table(FALSE, FALSE, FALSE, 0, TRUE, FALSE)}

(* TlsNormalize: two files, one ACME account, a Kubernetes entry, two hosts,  *)
(* a wildcard and an identifier no CA accepts.                                *)
File(n) == [kind |-> "file", id |-> n]
Acme(n) == [kind |-> "acme", id |-> n]
K8s == [kind |-> "k8s", id |-> "-"]
HostLists ==
    {<<"a.io">>, <<"b.io">>, <<"a.io", "b.io">>, <<"*.a.io", "b.io">>, <<"*.a.io">>, <<"io">>}
TlsEntries ==
    [hosts : HostLists, src : {File("f1"), Acme("m1")}]
        \cup {[hosts |-> <<"a.io">>, src |-> File("f2")], [hosts |-> <<"b.io">>, src |-> K8s]}

(* Routing: one site, or two that may share their host. *)
Route(p, t, w, u, g) == [path |-> p, type |-> t, rewrite |-> w, upstream |-> u, tag |-> g]
Root == <<"/">>
PathA == <<"/", "a">>
PathASlash == <<"/", "a", "/">>
PathAB == <<"/", "a", "b">>
RouteLists ==
    {<<>>,
     <<Route(Root, "Prefix", "none", "none", "r1"), Route(PathA, "Prefix", "/", "u1", "r2")>>,
     <<Route(PathA, "Exact", "none", "none", "r1"), Route(PathA, "Prefix", "/", "none", "r2")>>,
     <<Route(PathASlash, "Prefix", "/", "none", "r1"),
       Route(PathA, "ImplementationSpecific", "url", "none", "r2")>>,
     <<Route(PathA, "Prefix", "none", "bad", "r1")>>,
     <<Route(Root, "Exact", "none", "none", "r1"), Route(PathAB, "Prefix", "none", "none", "r2")>>}
SiteHosts == {<<"*">>, <<"*", "x">>, <<"a", "x">>, <<"*", "b", "x">>}
SitesNamed(n) ==
    {[name |-> n, host |-> h, routes |-> l, upstream |-> u] :
        h \in SiteHosts \cup {<<>>}, l \in RouteLists, u \in {"ok", "bad"}}
OneOrTwoSites ==
    {<<s>> : s \in SitesNamed(1)}
        \cup {<<s, t>> : s \in {q \in SitesNamed(1) : q.upstream = "ok"},
                         t \in {q \in SitesNamed(2) : q.upstream = "ok" /\ q.routes # <<>>}}
AnyCerts == SUBSET SiteHosts
AskedHosts == {<<"x">>, <<"a", "x">>, <<"b", "x">>, <<"a", "b", "x">>, <<"a", "y">>}
AskedPaths ==
    {Root, PathA, PathASlash, PathAB, <<"/", "a", "/", "b">>, <<"/", "a", "b", "/">>, <<"/", "c">>}
PlainSite(host) == sites = <<[name |-> 1, host |-> host, routes |-> <<>>, upstream |-> "ok"]>>

\* Certificates are loaded before any site; a table is replaced only if it has
\* one plain site, so that the pairs of tables stay few.
RoutingStep ==
    /\ certHosts = {} /\ (tableChanges = 0 \/ PlainSite(<<"a", "x">>))
    /\ NextRouting
    /\ certHosts' # {} => sites = <<>>

InitData ==
    /\ focus \in {"request", "cache", "tls", "routing", "probe"}
    /\ Init /\ (focus # "request" => table = PlainTable /\ \A q \in Req : get[q])
    /\ InitCache
    /\ InitNormalize /\ (focus # "tls" => put = <<>>)
    /\ InitRouting
    /\ InitProbe /\ (focus # "probe" => \A u \in Upstream : speaks[u] = "tls")

Still(f) ==
    /\ f # "request" => UNCHANGED vars
    /\ f # "cache" => UNCHANGED cacheVars
    /\ f # "tls" => UNCHANGED normalizeVars
    /\ f # "routing" => UNCHANGED routingVars
    /\ f # "probe" => UNCHANGED probeVars

NextData ==
    /\ UNCHANGED focus /\ Still(focus)
    /\ \/ focus = "request" /\ Next
       \/ focus = "cache" /\ NextCache
       \/ focus = "tls" /\ NextNormalize
       \/ focus = "routing" /\ RoutingStep
       \/ focus = "probe" /\ NextProbe

DataSpec ==
    InitData /\ [][NextData]_<<focus, vars, cacheVars, normalizeVars, routingVars, probeVars>>
=============================================================================
