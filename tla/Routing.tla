------------------------------- MODULE Routing -------------------------------
(***************************************************************************)
(* How a request finds its site: config_to_route_table (proxy/apply.rs)    *)
(* builds the table, RouteTable (router.rs) answers from it,               *)
(* resolve_forward (proxy/forward.rs) turns the route into a plan, and the *)
(* certificate store (tls/store.rs) picks the certificate for the same     *)
(* host at the handshake.  A host is a sequence of labels, <<"*">> the     *)
(* catch-all; a path is a sequence of characters of which only the slash   *)
(* matters.  Targets and edge policies are tags of the route they are      *)
(* configured on.                                                          *)
(***************************************************************************)
EXTENDS Naturals, Sequences, SequencesExt, FiniteSets

CONSTANTS
    SiteConfigs,   \* configurations: sequences of sites
    CertSets,      \* sets of host patterns certificates are stored for
    ReqHost,       \* hosts that are asked for
    ReqPath,       \* paths that are asked for
    MaxPath        \* longest path of a route (bound)

VARIABLES
    sites,         \* the configuration the table was built from
    routeTable,    \* RouteTable: routes by host, edge policies by host and path
    certHosts,     \* CertStore: hosts with a certificate
    tableChanges   \* replacements of the table so far, at most two (bound)

routingVars == <<sites, routeTable, certHosts, tableChanges>>

NoRoute == [tag |-> "none"]
NoKey == <<>>
-----------------------------------------------------------------------------
(* Building the table.                                                     *)

\* site_route: rewriting to "/" is the only rewrite there is, and strips the
\* path of the route without its trailing slashes.
StripOf(r) == IF r.rewrite = "/" /\ r.path # <<"/">>
              THEN IF Last(r.path) = "/" THEN Front(r.path) ELSE r.path
              ELSE <<>>

\* resolve_route_target: the upstream of the route, else a rewrite that looks
\* like a URL, else the first upstream of the site's backend.
TargetOf(s, r) == IF r.upstream # "none" THEN r.upstream
                  ELSE IF r.rewrite = "url" THEN "rewritten" ELSE s.upstream

WholeSite == [path |-> <<"/">>, type |-> "Prefix", rewrite |-> "none", upstream |-> "none", tag |-> "site"]
RoutesOf(s) == IF s.routes = <<>> THEN <<WholeSite>> ELSE s.routes

SiteRoutes(s) == [i \in DOMAIN RoutesOf(s) |->
    LET r == RoutesOf(s)[i]
    IN [path |-> r.path, type |-> r.type, strip |-> StripOf(r), target |-> TargetOf(s, r),
        tag |-> <<s.name, r.tag>>]]

\* The table is refused when a backend, or a per-route upstream, is unusable.
Usable(conf) == \A i \in DOMAIN conf :
    conf[i].host # <<>> =>
        /\ conf[i].upstream # "bad"
        /\ \A j \in DOMAIN conf[i].routes : TargetOf(conf[i], conf[i].routes[j]) # "bad"

TableHosts(conf) == {conf[i].host : i \in DOMAIN conf} \ {<<>>}

\* The routes of all sites with this host, in the order of the configuration.
Gathered(conf, host) ==
    FlattenSeq([i \in DOMAIN conf |-> IF conf[i].host = host THEN SiteRoutes(conf[i]) ELSE <<>>])

\* Mutant of ByLength: shortest path first.
ByLengthRising(routes) ==
    FlattenSeq([n \in 1..MaxPath |-> SelectSeq(routes, LAMBDA r : Len(r.path) = n)])

\* from_routes: the stable sort by length of the path, longest first.
ByLength(routes) ==
    FlattenSeq([n \in 1..MaxPath |-> SelectSeq(routes, LAMBDA r : Len(r.path) = MaxPath + 1 - n)])

\* insert_edge: one policy per host and path; a later route takes the place of
\* an earlier one.
EdgeAt(conf, host, path) ==
    LET all == SelectSeq(Gathered(conf, host), LAMBDA r : r.path = path)
    IN Last(all).tag

ConfigToRouteTable(conf) ==
    [routes |-> [h \in TableHosts(conf) |-> ByLength(Gathered(conf, h))],
     edge |-> [h \in TableHosts(conf) |->
                 [p \in {r.path : r \in ToSet(Gathered(conf, h))} |-> EdgeAt(conf, h, p)]]]
-----------------------------------------------------------------------------
(* Looking a request up.                                                   *)

\* wildcard_covers_host: one label in the place of the star.
WildcardCovers(key, host) ==
    /\ Len(key) > 1 /\ Head(key) = "*"
    /\ Len(host) = Len(key) /\ Tail(host) = Tail(key)

\* routes_for_host, and matched_host_key for the edge policies: the host
\* itself, else the wildcard with the longest suffix, else the catch-all.
HostKey(table, host) ==
    LET keys == DOMAIN table.routes
        wild == {k \in keys : WildcardCovers(k, host)}
    IN IF host \in keys THEN host
       ELSE IF wild # {} THEN CHOOSE k \in wild : \A j \in wild : Len(j) <= Len(k)
       ELSE IF <<"*">> \in keys THEN <<"*">> ELSE NoKey

PathMatches(type, rule, path) ==
    CASE type = "Exact" -> path = rule
      [] type = "Prefix" -> \/ path = rule
                            \/ Last(rule) = "/" /\ IsPrefix(rule, path)
                            \/ Last(rule) # "/" /\ IsPrefix(rule \o <<"/">>, path)
      [] type = "ImplementationSpecific" -> IsPrefix(rule, path)

\* find_route: the first that matches.
FindRoute(routes, path) ==
    LET hits == SelectSeq(routes, LAMBDA r : PathMatches(r.type, r.path, path))
    IN IF hits = <<>> THEN NoRoute ELSE Head(hits)

MatchRoute(table, host, path) ==
    LET key == HostKey(table, host)
    IN IF key = NoKey THEN NoRoute ELSE FindRoute(table.routes[key], path)

\* Mutant of EdgeFor: one policy for the host.
EdgeForHost(table, host, routePath) ==
    LET key == HostKey(table, host) IN table.edge[key][Head(table.routes[key]).path]

EdgeFor(table, host, routePath) == table.edge[HostKey(table, host)][routePath]

\* strip_path_prefix, used for HTTP/3: path and query, apart.
StripForH3(path, query, prefix) ==
    LET rest == IF IsPrefix(prefix, path) THEN SubSeq(path, Len(prefix) + 1, Len(path)) ELSE path
    IN [path |-> IF rest = <<>> THEN <<"/">> ELSE rest, query |-> query]

\* upstream_request_filter, used for HTTP/1 and HTTP/2: the URI is rebuilt from
\* the stripped path alone.
StripForH1(path, query, prefix) ==
    IF prefix = <<>> \/ ~IsPrefix(prefix, path) THEN [path |-> path, query |-> query]
    ELSE [path |-> StripForH3(path, "", prefix).path, query |-> ""]

\* resolve_forward: 404 without a route.
Plan(table, host, path) ==
    LET r == MatchRoute(table, host, path)
    IN IF r = NoRoute THEN NoRoute
       ELSE [tag |-> r.tag, target |-> r.target, strip |-> r.strip, type |-> r.type, path |-> r.path,
             edge |-> EdgeFor(table, host, r.path)]
-----------------------------------------------------------------------------
(* The certificate of the handshake.                                       *)

\* lookup_sni: the host itself, else the wildcard with the longest suffix the
\* host ends with, however many labels stand before it.
LookupSni(certs, host) ==
    LET wild == {k \in certs : /\ Len(k) > 1 /\ Head(k) = "*"
                               /\ Len(host) >= Len(k) /\ IsSuffix(Tail(k), host)}
    IN IF host \in certs THEN host
       ELSE IF wild = {} THEN NoKey ELSE CHOOSE k \in wild : \A j \in wild : Len(j) <= Len(k)
-----------------------------------------------------------------------------
\* The router starts empty.
InitRouting ==
    /\ sites = <<>> /\ routeTable = ConfigToRouteTable(<<>>)
    /\ certHosts = {}
    /\ tableChanges = 0

\* apply_config: the new table takes the place of the old one, or nothing
\* changes.
ApplyRoutes(conf) ==
    /\ tableChanges < 2 /\ tableChanges' = tableChanges + 1
    /\ IF Usable(conf) THEN routeTable' = ConfigToRouteTable(conf) /\ sites' = conf
       ELSE UNCHANGED <<routeTable, sites>>
    /\ UNCHANGED certHosts

\* reload_from_configs
LoadCerts(certs) ==
    /\ certHosts = {} /\ certHosts' = certs
    /\ UNCHANGED <<sites, routeTable, tableChanges>>

NextRouting == (\E conf \in SiteConfigs : ApplyRoutes(conf)) \/ (\E certs \in CertSets : LoadCerts(certs))
-----------------------------------------------------------------------------
(* Properties.                                                             *)

\* What a host is served by, read off the configuration: the sites named so,
\* else those with the wildcard one label up, else the catch-all sites.
SitesFor(host) ==
    LET Named(h) == {i \in DOMAIN sites : sites[i].host = h}
        up == <<"*">> \o Tail(host)
    IN IF Named(host) # {} THEN Named(host)
       ELSE IF Len(host) > 1 /\ Named(up) # {} THEN Named(up) ELSE Named(<<"*">>)

\* A route matches path segments, not characters, unless it says so.
Segmentwise(r, path) ==
    LET bare == IF Last(r.path) = "/" THEN Front(r.path) ELSE r.path
    IN CASE r.type = "Exact" -> path = r.path
         [] r.type = "ImplementationSpecific" -> IsPrefix(r.path, path)
         [] OTHER -> \/ path = r.path
                     \/ IsPrefix(bare, path) /\ Len(path) > Len(bare) /\ path[Len(bare) + 1] = "/"

\* A handshake for a host is given a certificate that is good for it (its own
\* or the wildcard one label up) whenever the store has one.
SniPicksGood ==
    \A host \in ReqHost :
        (\E c \in certHosts : c = host \/ WildcardCovers(c, host)) =>
            LET c == LookupSni(certHosts, host) IN c = host \/ WildcardCovers(c, host)

\* Once a configuration was applied, every request is answered from the route
\* of its host with the longest path that matches, and of two such routes the
\* one configured first; a request with a matching route is never turned away.
\* So it is with certificates: SniPicksGood.
MostSpecificRoute ==
  /\ SniPicksGood
  /\ tableChanges > 0 => \A host \in ReqHost, path \in ReqPath :
        LET cands == {<<i, j>> \in SitesFor(host) \X (1..4) :
                         j \in DOMAIN RoutesOf(sites[i]) /\ Segmentwise(RoutesOf(sites[i])[j], path)}
            At(c) == RoutesOf(sites[c[1]])[c[2]]
            found == MatchRoute(routeTable, host, path)
        IN IF cands = {} THEN found = NoRoute
           ELSE LET best == CHOOSE c \in cands : \A d \in cands :
                       \/ Len(At(d).path) < Len(At(c).path)
                       \/ /\ Len(At(d).path) = Len(At(c).path)
                          /\ c[1] < d[1] \/ (c[1] = d[1] /\ c[2] <= d[2])
                IN found.tag = <<sites[best[1]].name, At(best).tag>>

\* The plan of a request follows its route.  The edge policy (authentication,
\* limits, cache) is the one configured on the route, unless another route of the
\* host has the very same path.  Stripping gives both protocols the same path, one
\* that begins with a slash, on every route but those that match in the middle of
\* a segment.
PlanFollowsRoute ==
    tableChanges > 0 => \A host \in ReqHost, path \in ReqPath :
        LET plan == Plan(routeTable, host, path)
            h1 == StripForH1(path, "q", plan.strip).path
        IN plan # NoRoute =>
             /\ \/ plan.edge = plan.tag
                \/ \E i \in SitesFor(host) : \E j \in DOMAIN RoutesOf(sites[i]) :
                     /\ <<sites[i].name, RoutesOf(sites[i])[j].tag>> # plan.tag
                     /\ RoutesOf(sites[i])[j].path = plan.path
             /\ plan.type # "ImplementationSpecific" =>
                  /\ h1 = StripForH3(path, "q", plan.strip).path
                  /\ Head(h1) = "/"
                  /\ plan.strip # <<>> => h1 = <<"/">> \/ plan.strip \o h1 = path

\* The query reaches the upstream whatever protocol the request came by.
StripKeepsQuery ==
    \A host \in ReqHost, path \in ReqPath :
        LET plan == Plan(routeTable, host, path)
        IN plan # NoRoute => StripForH1(path, "q", plan.strip).query = StripForH3(path, "q", plan.strip).query
=============================================================================
