----------------------------- MODULE SecurityGate -----------------------------
(***************************************************************************)
(* What stands between a visitor and a site: the order of the filters in   *)
(* the three front ends (proxy/mod.rs, h3/quinn_server.rs, h3/server.rs),  *)
(* GeoIP (geoip.rs), and WAF, bot score and captcha (security/).  One      *)
(* visitor asks for pages over any front end, solves the challenges it is  *)
(* shown and keeps the pass cookie, while time passes, its address and the *)
(* site's policy change, and the proxy restarts.                           *)
(*                                                                         *)
(* Times are ages, so that nothing grows: of the cookie, of the challenge  *)
(* and of the per-address counting window.                                 *)
(***************************************************************************)
EXTENDS Integers, Sequences, SequencesExt

CONSTANTS
    Ip,              \* addresses, as numbers
    PublicIp,        \* the publicly routable ones
    AsnDbs,          \* ASN tables: sequences of [start, end, asn], or NoDb
    CountryDbs,      \* country databases: [Ip -> Country or Unset], or NoDb
    PagePolicies,    \* policies a site may have
    Pages,           \* requests: [ua, accept, lang, hits, stops], see BaseScore,
                     \* RuleMatches and Filters
    Window,          \* length of the counting window (60 s)
    MinLife,         \* shortest life of a pass the server accepts (60 s)
    ChallengeLife,   \* life of a challenge (600 s)
    Day,             \* life of a pass where the captcha is off (86400 s)
    MaxCount,        \* bound of the count in a window
    MaxMoves, MaxSwaps   \* bounds on changes of address, and of policy or process

ASSUME GateAssumption ==
    /\ PublicIp \subseteq Ip /\ Ip \subseteq Nat
    /\ {Window, MinLife, ChallengeLife, Day, MaxCount, MaxMoves, MaxSwaps} \subseteq Nat

Unset == "none"
NoDb == <<>>

VARIABLES
    asnDb, countryDb,    \* GeoIpEngine
    policy,              \* the site's policy
    address,             \* the visitor's address
    secretStable, secret,  \* is the captcha secret configured, and its generation
    bucket,              \* rate_map(): [age, count] of each address
    cookie, challenge,   \* what the visitor holds: [age, ttl, ip, secret], [age, secret]
    answer,              \* answer to the visitor's last request
    moves, swaps

siteVars == <<asnDb, countryDb, policy, secretStable, secret>>
gateVars == <<siteVars, address, bucket, cookie, challenge, answer, moves, swaps>>
-----------------------------------------------------------------------------
(* The order of the filters.  The first in the order that has an answer to  *)
(* a request gives it.                                                     *)

\* A request over TLS, or with auto_https off; the other branch, for plain
\* HTTP, is part of GatewayRequest.
Pingora ==
    <<"health", "acme", "installer", "deny", "x4xx", "rate", "auth", "file", "cache",
      "geoip", "captcha", "security", "grpc", "route">>

Quinn ==
    <<"health", "stream", "deny", "route", "x4xx", "rate", "auth", "file", "geoip",
      "captcha", "security">>

Quiche == <<"health", "deny", "stream", "route", "geoip", "security">>

Fronts == {"pingora", "quinn", "quiche"}

FilterOrder(front) ==
    CASE front = "pingora" -> Pingora [] front = "quinn" -> Quinn [] front = "quiche" -> Quiche

AnsweredBy(front, filters) ==
    LET order == FilterOrder(front)
        i == SelectInSeq(order, LAMBDA f : f \in filters)
    IN IF i = 0 THEN "upstream" ELSE order[i]
-----------------------------------------------------------------------------
(* GeoIP.                                                                  *)

\* partition_point on the ranges, which load() sorts by their start.
LastStarting(db, ip) == SelectLastInSeq(db, LAMBDA r : r.start <= ip)

AsnOf(ip) ==
    LET i == LastStarting(asnDb, ip) IN
    IF i = 0 \/ ip > asnDb[i].end THEN Unset ELSE asnDb[i].asn

CountryOf(ip) == IF countryDb = NoDb THEN Unset ELSE countryDb[ip]

GeoActive(g) ==
    g.enabled /\ (g.allowCountries \cup g.denyCountries \cup g.allowAsns \cup g.denyAsns) # {}

\* An allow list refuses the unknown only if there is a database to know by.
Refused(allow, deny, value, loaded) ==
    \/ value # Unset /\ value \in deny
    \/ allow # {} /\ (IF value = Unset THEN loaded ELSE value \notin allow)

EvaluateGeo(g, ip) ==
    CASE ~GeoActive(g) \/ ip \notin PublicIp -> "allow"
      [] Refused(g.allowCountries, g.denyCountries, CountryOf(ip), countryDb # NoDb) -> "country"
      [] Refused(g.allowAsns, g.denyAsns, AsnOf(ip), asnDb # NoDb) -> "asn"
      [] OTHER -> "allow"
-----------------------------------------------------------------------------
(* WAF, bot score and captcha.                                             *)

WafActive(w) == w.enabled /\ (w.builtin \/ \E i \in 1..Len(w.rules) : w.rules[i].enabled)

SecurityActive(p) == WafActive(p.waf) \/ p.bot.enabled \/ p.captcha.enabled

\* A rule matches the requests that name it; built-in rules block.
RuleMatches(rule, page) == rule.enabled /\ rule.id \in page.hits

EvaluateWaf(w, page) ==
    LET i == SelectInSeq(w.rules, LAMBDA r : RuleMatches(r, page)) IN
    CASE ~WafActive(w) -> Unset
      [] i # 0 -> w.rules[i].action
      [] i = 0 /\ w.builtin /\ "builtin" \in page.hits -> "block"
      [] OTHER -> Unset

BaseScore(page) ==
    (CASE page.ua = "missing" -> 45 [] page.ua = "automation" -> 30 [] page.ua = "short" -> 15
       [] page.ua = "browser" -> 0)
    + (IF page.accept THEN 0 ELSE 15) + (IF page.lang THEN 0 ELSE 10)

\* record_rate: a window that is over starts again.
Recorded(b) ==
    IF b.age >= Window THEN [age |-> 0, count |-> 1]
    ELSE [b EXCEPT !.count = IF @ < MaxCount THEN @ + 1 ELSE @]

RateScore(b, limit) ==
    LET over == b.count - limit IN
    IF over <= 0 THEN 0 ELSE 25 + (IF over \div 10 < 40 THEN over \div 10 ELSE 40)

Verdict(bot, page, b) ==
    LET score == BaseScore(page) + RateScore(b, bot.limit) IN
    IF score >= bot.block THEN "block" ELSE IF score >= bot.challenge THEN "challenge" ELSE Unset

NoCookie == [age |-> 0, ttl |-> 0, ip |-> 0, secret |-> -1]
NoChallenge == [age |-> 0, secret |-> -1]

Longer(ttl) == IF ttl < MinLife THEN MinLife ELSE ttl

\* Mutant of HasValidPass: a pass lives as long as a challenge.
HasValidPassShort == cookie.secret = secret /\ cookie.ip = address /\ cookie.age <= ChallengeLife

\* The browser sends the cookie until its Max-Age; the server accepts it, for
\* the address it was given to, for at least a minute.
HasValidPass ==
    /\ cookie.age < cookie.ttl
    /\ cookie.secret = secret /\ cookie.ip = address /\ cookie.age <= Longer(cookie.ttl)

ResolveChallenge(p) ==
    IF ~p.captcha.enabled THEN "block" ELSE IF HasValidPass THEN "forward" ELSE "challenge"

\* evaluate: the WAF first; a rule that only logs leaves it to the bot score.
Decide(p, page, b) ==
    LET hit == EvaluateWaf(p.waf, page)
        verdict == IF hit \in {"block", "challenge"} THEN hit
                   ELSE IF p.bot.enabled THEN Verdict(p.bot, page, b) ELSE Unset
    IN CASE verdict = "block" -> "block"
         [] verdict = "challenge" -> ResolveChallenge(p)
         [] OTHER -> "forward"
-----------------------------------------------------------------------------
(* The visitor.                                                            *)

InitGate ==
    /\ asnDb \in AsnDbs /\ countryDb \in CountryDbs
    /\ policy \in PagePolicies
    /\ address \in Ip
    /\ secretStable \in BOOLEAN /\ secret = 0
    /\ bucket = [ip \in Ip |-> [age |-> 0, count |-> 0]]
    /\ cookie = NoCookie /\ challenge = NoChallenge
    /\ answer = "idle"
    /\ moves = 0 /\ swaps = 0

Shown(a) == IF a = "challenge" THEN [age |-> 0, secret |-> secret] ELSE challenge

\* Filters that answer a page, before the bot score: those it stops at by
\* itself, and GeoIP, which a host without a route has no policy for.
Filters(page) ==
    page.stops \cup
    (IF "route" \notin page.stops /\ EvaluateGeo(policy.geo, address) # "allow" THEN {"geoip"} ELSE {})

\* A page is asked for.  If no filter before it answers, security::evaluate
\* does, and counts the request if it comes to the bot score.  Quiche shows no
\* challenge and refuses.
Visit(front, page) ==
    \E filters \in {Filters(page)} :
    \E by \in {AnsweredBy(front, filters)} :
    LET judged == by = "upstream" /\ SecurityActive(policy)
        scored == judged /\ policy.bot.enabled /\ EvaluateWaf(policy.waf, page) \in {Unset, "log"}
        b == IF scored THEN Recorded(bucket[address]) ELSE bucket[address]
        decision == CASE judged -> Decide(policy, page, b)
                      [] ~judged /\ by = "upstream" -> "forward"
                      [] by = "geoip" -> "geoip"
                      [] OTHER -> "local"
    IN /\ bucket' = [bucket EXCEPT ![address] = b]
       /\ answer' = IF front = "quiche" /\ decision = "challenge" THEN "block" ELSE decision
       /\ challenge' = Shown(answer')
       /\ UNCHANGED <<siteVars, address, cookie, moves, swaps>>

\* Mutant of PassTtl: a ttl of zero in the policy is taken as it is.
PassTtlZero == 0

\* ttl of the pass: that of the site, or a day when its captcha is off.
PassTtl == IF policy.captcha.enabled THEN policy.captcha.ttl ELSE Day

\* verify_and_pass_cookie: a right answer to a challenge that is not too old
\* and carries the current secret is redirected with a pass.
Solve ==
    /\ answer = "challenge" /\ EvaluateGeo(policy.geo, address) = "allow"
    /\ challenge.age <= ChallengeLife /\ challenge.secret = secret
    /\ cookie' = [age |-> 0, ttl |-> PassTtl, ip |-> address, secret |-> secret]
    /\ challenge' = NoChallenge
    /\ answer' = "redirect"
    /\ UNCHANGED <<siteVars, address, bucket, moves, swaps>>

\* A wrong or a late answer brings a new challenge; GeoIP is asked before.
RetryChallenge ==
    /\ answer = "challenge"
    /\ answer' = IF EvaluateGeo(policy.geo, address) = "allow" THEN "challenge" ELSE "geoip"
    /\ challenge' = Shown(answer')
    /\ UNCHANGED <<siteVars, address, bucket, cookie, moves, swaps>>

Aged(r, cap) == [r EXCEPT !.age = IF @ < cap THEN @ + 1 ELSE @]

\* Time passes, but a browser follows a redirect at once.
Wait ==
    /\ answer # "redirect"
    /\ bucket' = [ip \in Ip |-> Aged(bucket[ip], Window)]
    /\ cookie' = IF cookie.age + 1 >= cookie.ttl THEN NoCookie ELSE Aged(cookie, cookie.ttl)
    /\ challenge' = IF challenge = NoChallenge THEN NoChallenge ELSE Aged(challenge, ChallengeLife + 1)
    /\ UNCHANGED <<siteVars, address, answer, moves, swaps>>

\* The visitor's address changes, as on a mobile network.
MoveAddress ==
    /\ moves < MaxMoves /\ moves' = moves + 1
    /\ address' \in Ip \ {address} /\ answer' = "idle"
    /\ UNCHANGED <<siteVars, bucket, cookie, challenge, swaps>>

SwapPolicy ==
    /\ swaps < MaxSwaps /\ swaps' = swaps + 1
    /\ policy' \in PagePolicies \ {policy}
    /\ UNCHANGED <<asnDb, countryDb, secretStable, secret, address, bucket, cookie, challenge, answer, moves>>

\* A secret that is not configured is drawn anew.
RestartGate ==
    /\ swaps < MaxSwaps /\ swaps' = swaps + 1
    /\ secret' = IF secretStable THEN secret ELSE secret + 1
    /\ bucket' = [ip \in Ip |-> [age |-> 0, count |-> 0]]
    /\ UNCHANGED <<asnDb, countryDb, policy, secretStable, address, cookie, challenge, answer, moves>>

Follow == \E page \in Pages : Visit("pingora", page)

NextGate ==
    \/ \E front \in Fronts, page \in Pages : Visit(front, page)
    \/ Solve \/ RetryChallenge \/ Wait \/ MoveAddress \/ SwapPolicy \/ RestartGate
-----------------------------------------------------------------------------
(* Properties.                                                             *)

\* A visitor who solved a challenge is not shown another while the pass lives,
\* whatever page and policy, unless its address or the secret has changed.
SolvedStays ==
    [][/\ cookie # NoCookie /\ cookie.age < cookie.ttl
       /\ cookie.ip = address /\ cookie.secret = secret
       /\ answer' = "challenge"
       => \A front \in Fronts, page \in Pages : ~Visit(front, page)]_gateVars

\* A visitor who keeps solving challenges is let in or finally refused, and not
\* only challenged again.
ChallengesEnd == []<>(answer = "challenge") => []<>(answer \in {"forward", "block", "geoip", "local"})
=============================================================================
