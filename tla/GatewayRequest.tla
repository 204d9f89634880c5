---------------------------- MODULE GatewayRequest ----------------------------
(***************************************************************************)
(* The life of HTTP/1 and HTTP/2 requests in Gateway (proxy/mod.rs):       *)
(* Pingora calls the filters of one request in order, requests interleave, *)
(* and the route table may be replaced between any two of them.  What one  *)
(* filter leaves for a later one is in the request's context; what they    *)
(* share is the active-connection gauge, the response cache and the        *)
(* window of 4xx answers.                                                  *)
(*                                                                         *)
(* The model follows one client, one host and one cache key.  A route      *)
(* table is what resolve_forward finds in it for that host: a record with  *)
(*   found   a route matches                                               *)
(*   mw      its middlewares strip a prefix or set headers                 *)
(*   auth    it requires authentication                                    *)
(*   limit   its x4xx_limit_rps                                            *)
(*   cache   its cache policy is not Some(false)                           *)
(*   store   the global cache size is not zero                             *)
(* Filters that only answer or let pass (rate limit, files, GeoIP,         *)
(* captcha, WAF, gRPC checks) are one nondeterministic answer.             *)
(***************************************************************************)
EXTENDS Integers, FiniteSets

CONSTANTS
    Req,        \* requests
    Tables,     \* route tables
    MaxReloads, \* bound on route-table replacements
    MaxTries    \* bound on Pingora's attempts to reach an upstream

ASSUME TableAssumption ==
    Tables \subseteq [found : BOOLEAN, mw : BOOLEAN, auth : BOOLEAN, limit : Nat,
                      cache : BOOLEAN, store : BOOLEAN]

ASSUME GatewayAssumption ==
    /\ IsFiniteSet(Req)
    /\ MaxReloads \in Nat
    /\ MaxTries \in Nat

VARIABLES
    table,   \* the router's current table
    reloads, \* replacements so far
    phase,   \* the filter each request is about to run
    get,     \* a GET that is neither gRPC nor a stream
    plan,    \* RequestCtx: what was copied from the route
    counted, \* RequestCtx.metrics_counted
    rate,    \* RequestCtx.rate_client and rate_host are set
    collect, \* RequestCtx.cache_collect
    tries,   \* attempts to reach an upstream
    gauge,   \* ProxyMetrics.active_connections
    cached,  \* an unexpired response is in the cache
    errs,    \* count of the 4xx window of this second
    seen,    \* 4xx answers this second to requests that went through the filters
    sticky,  \* admitted by the filters with a context that has middlewares
    fit      \* "unfiltered": not admitted by the filters (or not yet);
             \* "filtered": admitted; "missed": admitted and looked up in vain in
             \* the cache; "fits": and its answer may be kept

ctx == <<plan, counted, rate, collect>>
shared == <<table, reloads, gauge, cached, errs, seen>>
vars == <<shared, phase, get, ctx, tries, sticky, fit>>

Phases == {"new", "filter", "auth", "peer", "upstream", "body", "logging", "done"}

\* RequestCtx::default(): no policy, and the cache follows the global switch.
NoPlan ==
    [found |-> FALSE, mw |-> FALSE, auth |-> FALSE, limit |-> 0, cache |-> TRUE, store |-> FALSE]

Plans == Tables \cup {NoPlan}

Init ==
    /\ table \in Tables
    /\ reloads = 0
    /\ phase = [r \in Req |-> "new"]
    /\ get \in [Req -> BOOLEAN]
    /\ plan = [r \in Req |-> NoPlan]
    /\ counted = [r \in Req |-> FALSE]
    /\ rate = [r \in Req |-> FALSE]
    /\ collect = [r \in Req |-> FALSE]
    /\ tries = [r \in Req |-> 0]
    /\ gauge = 0
    /\ cached = FALSE
    /\ errs = 0
    /\ seen = 0
    /\ sticky = [r \in Req |-> FALSE]
    /\ fit = [r \in Req |-> "unfiltered"]

Move(r, from, to) == phase[r] = from /\ phase' = [phase EXCEPT ![r] = to]

\* From<MiddlewareAction>: a new context, in which nothing is counted or
\* collected; the client is known only if the filter goes on to say so.
ReplaceCtx(r, client) ==
    /\ plan' = [plan EXCEPT ![r] = table]
    /\ counted' = [counted EXCEPT ![r] = FALSE]
    /\ collect' = [collect EXCEPT ![r] = FALSE]
    /\ rate' = [rate EXCEPT ![r] = client]

\* Without a route the default context stays.
KeepCtx(r, client) ==
    /\ rate' = [rate EXCEPT ![r] = client]
    /\ UNCHANGED <<plan, counted, collect>>

\* The flag is set and the gauge forgotten.
EarlyWithoutInc(r) ==
    /\ Move(r, "new", "filter")
    /\ counted' = [counted EXCEPT ![r] = TRUE]
    /\ UNCHANGED <<shared, get, plan, rate, collect, tries, sticky, fit>>

EarlyRequestFilter(r) ==
    /\ Move(r, "new", "filter")
    /\ counted' = [counted EXCEPT ![r] = TRUE]
    /\ gauge' = gauge + 1
    /\ UNCHANGED <<table, reloads, cached, errs, seen, get, plan, rate, collect, tries, sticky, fit>>

\* Health probe, ACME challenge, installer host, unknown host, redirect to
\* HTTPS: answered before the route is looked at.
FilterAnswers(r) ==
    /\ Move(r, "filter", "logging")
    /\ UNCHANGED <<shared, get, ctx, tries, sticky, fit>>

\* Plain HTTP for a host without a certificate goes on as it is.
FilterSkips(r) ==
    /\ Move(r, "filter", "peer")
    /\ UNCHANGED <<shared, get, ctx, tries, sticky, fit>>

Resolve(r, client) == IF table.found THEN ReplaceCtx(r, client) ELSE KeepCtx(r, client)

OverLimit == table.found /\ table.limit > 0 /\ errs >= table.limit

\* The limit is off by one.
LimitsOffByOne(r) ==
    /\ \/ /\ OverLimit /\ errs > table.limit
          /\ Move(r, "filter", "logging")
          /\ Resolve(r, FALSE)
       \/ /\ ~(OverLimit /\ errs > table.limit)
          /\ Move(r, "filter", "auth")
          /\ Resolve(r, TRUE)
    /\ UNCHANGED <<shared, get, tries, sticky, fit>>

\* The route is resolved and the context replaced; then the 4xx limit, which
\* the default context does not have.
FilterLimits(r) ==
    /\ \/ /\ OverLimit
          /\ Move(r, "filter", "logging")
          /\ Resolve(r, FALSE)
       \/ /\ ~OverLimit
          /\ Move(r, "filter", "auth")
          /\ Resolve(r, TRUE)
    /\ UNCHANGED <<shared, get, tries, sticky, fit>>

\* cache_enabled and the other conditions of the cache lookup.
CacheEligible(r) == get[r] /\ ~plan[r].auth /\ table.store /\ plan[r].cache

\* The request limit, authentication (which may wait for a service), the file
\* server, the cache, GeoIP, captcha, the WAF or the gRPC checks answer, or the
\* request goes on to the upstream.
FilterRest(r) ==
    /\ \/ /\ Move(r, "auth", "logging")
          /\ UNCHANGED <<collect, sticky, fit>>
       \/ /\ ~(CacheEligible(r) /\ cached)
          /\ Move(r, "auth", "peer")
          /\ collect' = [collect EXCEPT ![r] = CacheEligible(r)]
          /\ sticky' = [sticky EXCEPT ![r] = plan[r].mw]
          /\ fit' = [fit EXCEPT ![r] = IF CacheEligible(r) THEN "missed" ELSE "filtered"]
    /\ UNCHANGED <<shared, get, plan, counted, rate, tries>>

\* The context is replaced whatever it holds.
PeerAlwaysReplaces(r) ==
    /\ \/ /\ ~table.found
          /\ Move(r, "peer", "logging")
          /\ UNCHANGED ctx
       \/ /\ table.found
          /\ Move(r, "peer", "upstream")
          /\ ReplaceCtx(r, FALSE)
    /\ UNCHANGED <<shared, get, tries, sticky, fit>>

\* The route is resolved again.  Unless the context has a prefix to strip or
\* headers to set it is replaced once more.
UpstreamPeer(r) ==
    /\ \/ /\ ~table.found
          /\ Move(r, "peer", "logging")
          /\ UNCHANGED ctx
       \/ /\ table.found
          /\ Move(r, "peer", "upstream")
          /\ IF plan[r].mw THEN UNCHANGED ctx ELSE ReplaceCtx(r, FALSE)
    /\ UNCHANGED <<shared, get, tries, sticky, fit>>

\* Pingora tries again on a reused connection the upstream had closed.
Retry(r) ==
    /\ tries[r] < MaxTries
    /\ Move(r, "upstream", "peer")
    /\ tries' = [tries EXCEPT ![r] = @ + 1]
    /\ UNCHANGED <<shared, get, ctx, sticky, fit>>

\* fail_to_proxy answers with an error page.
UpstreamFails(r) ==
    /\ Move(r, "upstream", "logging")
    /\ UNCHANGED <<shared, get, ctx, tries, sticky, fit>>

\* What response_filter does with the context and the window; fits is whether
\* the answer may be kept.
Respond(r, status, fits) ==
    /\ Move(r, "upstream", "body")
    /\ collect' = [collect EXCEPT ![r] = @ /\ fits]
    /\ errs' = IF status = 404 /\ rate[r] THEN errs + 1 ELSE errs
    /\ seen' = IF status = 404 /\ fit[r] # "unfiltered" THEN seen + 1 ELSE seen
    /\ fit' = [fit EXCEPT ![r] = IF @ = "missed" /\ fits THEN "fits" ELSE @]
    /\ UNCHANGED <<table, reloads, gauge, cached, get, plan, counted, rate, tries, sticky>>

\* status 404 stands for every 4xx, 500 for every other status that is not 2xx;
\* noStore for a Cache-Control with no-store or private.
ResponseFilter(r) == \E status \in {200, 404, 500}, noStore \in BOOLEAN :
    Respond(r, status, status = 200 /\ ~noStore)

\* The body ends within the size limits.
BodyEnds(r) ==
    /\ Move(r, "body", "logging")
    /\ cached' = (cached \/ (collect[r] /\ table.store))
    /\ UNCHANGED <<table, reloads, gauge, errs, seen, get, ctx, tries, sticky, fit>>

\* The body is too large to keep, or one side goes away before its end.
BodyDropped(r) ==
    /\ Move(r, "body", "logging")
    /\ UNCHANGED <<shared, get, ctx, tries, sticky, fit>>

Logging(r) ==
    /\ Move(r, "logging", "done")
    /\ gauge' = IF counted[r] THEN gauge - 1 ELSE gauge
    /\ counted' = [counted EXCEPT ![r] = FALSE]
    /\ UNCHANGED <<table, reloads, cached, errs, seen, get, plan, rate, collect, tries, sticky, fit>>

\* Router::replace_all, from the admin API or the ingress controller.
ReplaceTable ==
    /\ reloads < MaxReloads
    /\ reloads' = reloads + 1
    /\ table' \in Tables \ {table}
    /\ UNCHANGED <<gauge, cached, errs, seen, phase, get, ctx, tries, sticky, fit>>

\* The next second: the window starts again.
NextSecond ==
    /\ errs > 0 \/ seen > 0
    /\ errs' = 0 /\ seen' = 0
    /\ UNCHANGED <<table, reloads, phase, get, ctx, tries, gauge, cached, sticky, fit>>

\* The entry expires or is evicted.
Expire ==
    /\ cached
    /\ cached' = FALSE
    /\ UNCHANGED <<table, reloads, phase, get, ctx, tries, gauge, errs, seen, sticky, fit>>

Filters(r) ==
    \/ EarlyRequestFilter(r) \/ FilterAnswers(r) \/ FilterSkips(r) \/ FilterLimits(r)
    \/ FilterRest(r) \/ UpstreamPeer(r) \/ Retry(r) \/ UpstreamFails(r) \/ ResponseFilter(r)
    \/ BodyEnds(r) \/ BodyDropped(r) \/ Logging(r)

Next == (\E r \in Req : Filters(r)) \/ ReplaceTable \/ NextSecond \/ Expire

Spec == Init /\ [][Next]_vars
-----------------------------------------------------------------------------
(* Properties.                                                             *)

\* Every variable has its type; in particular the unsigned gauge has not
\* wrapped around below zero.
TypeOK ==
    /\ table \in Tables
    /\ reloads \in 0..MaxReloads
    /\ phase \in [Req -> Phases]
    /\ get \in [Req -> BOOLEAN]
    /\ plan \in [Req -> Plans]
    /\ counted \in [Req -> BOOLEAN] /\ rate \in [Req -> BOOLEAN] /\ collect \in [Req -> BOOLEAN]
    /\ tries \in [Req -> 0..MaxTries]
    /\ gauge \in Nat
    /\ cached \in BOOLEAN
    /\ errs \in Nat /\ seen \in Nat
    /\ sticky \in [Req -> BOOLEAN]
    /\ fit \in [Req -> {"unfiltered", "filtered", "missed", "fits"}]

Counted == {r \in Req : counted[r]}

\* The gauge never falls below the number of requests that will still subtract
\* from it in logging, so the unsigned counter never wraps.
GaugeCoversCounted == gauge >= Cardinality(Counted)

\* A response is stored only if its request looked in the cache first (a GET on
\* a route that may be cached and needs no authentication) and the upstream
\* answered 2xx without no-store or private, however the table changed between.
\* On a route with middlewares, whose context upstream_peer keeps, such an answer
\* is in the cache when its body has ended.
FitIsStored ==
    [][/\ cached' /\ ~cached => \E r \in Req : fit[r] = "fits" /\ BodyEnds(r)
       /\ \A r \in Req :
            BodyEnds(r) /\ fit[r] = "fits" /\ sticky[r] /\ table.store => cached']_vars

\* Request r is let through only while fewer 4xx answers than the limit were
\* given in this second.
BelowLimit(r) ==
    (phase[r] = "filter" /\ phase'[r] = "auth" /\ table.found /\ table.limit > 0)
        => seen < table.limit

\* "Further requests are rejected after this many 4xx responses per second."
LimitHolds == [][\A r \in Req : BelowLimit(r)]_vars

\* So it is while all requests admitted were for routes with middlewares, whose
\* context upstream_peer keeps, whatever tables replace each other.
MiddlewareLimitHolds ==
    [][(\A q \in Req : fit[q] # "unfiltered" => sticky[q]) => \A r \in Req : BelowLimit(r)]_vars
=============================================================================
