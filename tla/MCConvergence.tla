---------------------------- MODULE MCConvergence ----------------------------
(* Instances of the components that deal with the outside: the ingress         *)
(* controller, the alerts, the ACME challenges, the Consul poller and the gate *)
(* before a site.  They share no state; in each behaviour one of them, the     *)
(* focus, runs, and fairness is asked of it alone.  The others rest in a state *)
(* where there is nothing to do.                                               *)
EXTENDS IngressReconcile, AuthAlerts, AcmeChallenge, ConsulPoller, SecurityGate

VARIABLE focus

(* IngressReconcile: two Ingresses with the same name in two namespaces, one   *)
(* whose backend no table can be built from, a Gateway and a route.            *)
IngressRule(h, s) == [host |-> h, svc |-> s]
SomeIngresses ==
    {[ns |-> 1, name |-> "web", class |-> "ours", rules |-> {IngressRule("a.x", "s")},
      tls |-> {[secret |-> "k1", hosts |-> {}]}],
     [ns |-> 2, name |-> "web", class |-> "none", rules |-> {IngressRule("none", "s")},
      tls |-> {[secret |-> "k2", hosts |-> {"b.x"}]}],
     [ns |-> 1, name |-> "res", class |-> "ours", rules |-> {IngressRule("a.x", "none")}, tls |-> {}]}
OneGateway ==
    {[ns |-> 1, name |-> "gw", class |-> "ours",
      listeners |-> {[name |-> "l", http |-> TRUE, host |-> "*.x", secret |-> "k1"]}]}
OneRoute ==
    {[ns |-> 1, name |-> "r",
      parents |-> {[kind |-> "Gateway", ns |-> "none", name |-> "gw", section |-> "none"]},
      hosts |-> {"b.x"}, svc |-> "t", svcNs |-> "none"]}
HostsBelow == {<<"a.x", "*.x">>, <<"b.x", "*.x">>}
HostsOfSecret == [k1 |-> {"a.x"}, k2 |-> {"b.x"}]
StartObjects ==
    {{}, {i \in SomeIngresses : i.ns = 1 /\ i.name = "web"} \cup OneGateway \cup OneRoute}
StartSecrets == {[k1 |-> "v1", k2 |-> "v1"]}
SecretContents == {"v1", "v2", "bad", "absent"}

(* AuthAlerts *)
SmtpUpdates ==
    {[enabled |-> TRUE, flags |-> Kind, complete |-> TRUE, user |-> TRUE, secret |-> s] :
        s \in {"keep", "clear", "set"}}
    \cup {[enabled |-> e, flags |-> {"login"}, complete |-> c, user |-> FALSE, secret |-> "keep"] :
            e, c \in BOOLEAN}

(* AcmeChallenge: a name under two zones, one that repeats its zone, and an    *)
(* order over HTTP.                                                            *)
Orders == {"o1", "o2", "o3"}
Ex == <<"ex", "org">>
App == <<"app", "ex", "org">>
Twice == <<"ex", "org", "ex", "org">>
ChallengeZone == <<"_acme-challenge">> \o App
Plans ==
    [o1 |-> [dns |-> TRUE, names |-> <<App>>],
     o2 |-> [dns |-> TRUE, names |-> <<App, Twice>>],
     o3 |-> [dns |-> FALSE, names |-> <<Ex, App>>]]
Zones == {Ex, App, ChallengeZone}

\* o1 and one of the others are placed; a zone for the challenge alone only
\* with providers that pick zones differently.
ChallengeStart ==
    IF focus = "acme"
    THEN /\ at["o1"] = "challenge" /\ (at["o2"] = "challenge") # (at["o3"] = "challenge")
         /\ ChallengeZone \in held => solver \in {"digitalocean", "hetzner"}
    ELSE /\ at = [o \in Orders |-> "unused"] /\ solver = "hetzner" /\ credentialed
         /\ held = {} /\ configured = NoZone

(* ConsulPoller *)
ConsulStart ==
    /\ passing["s"] = {"e1"}
    /\ IF focus = "consul" THEN named = Service /\ passing["t"] \in {{}, {"e2"}}
       ELSE named = {} /\ passing["t"] = {} /\ ~consulSet

(* SecurityGate *)
NoGeo == [enabled |-> FALSE, allowCountries |-> {}, denyCountries |-> {}, allowAsns |-> {}, denyAsns |-> {}]
OnlyThailand == [NoGeo EXCEPT !.enabled = TRUE, !.allowCountries = {"TH"}]
NotAs7 == [NoGeo EXCEPT !.enabled = TRUE, !.denyAsns = {"AS7"}]
WafRule(i, a) == [id |-> i, enabled |-> TRUE, action |-> a]
Waf(on, rules) == [enabled |-> on, builtin |-> on, rules |-> rules]
BotRule(on) == [enabled |-> on, challenge |-> 25, block |-> 80, limit |-> 1]
Captcha(on) == [enabled |-> on, ttl |-> IF on THEN 3 ELSE 4]
Policies ==
    {[geo |-> NoGeo, waf |-> Waf(FALSE, <<>>), bot |-> BotRule(TRUE), captcha |-> Captcha(TRUE)],
     [geo |-> OnlyThailand, waf |-> Waf(TRUE, <<WafRule("r1", "log"), WafRule("r2", "challenge")>>),
      bot |-> BotRule(TRUE), captcha |-> Captcha(TRUE)],
     [geo |-> NotAs7, waf |-> Waf(TRUE, <<WafRule("r2", "challenge")>>),
      bot |-> BotRule(FALSE), captcha |-> Captcha(FALSE)]}
AsnTables == {NoDb, <<[start |-> 0, end |-> 1, asn |-> "AS7"], [start |-> 2, end |-> 2, asn |-> "AS8"]>>}
CountryTables == {NoDb, [ip \in {0, 1, 2} |-> IF ip = 1 THEN "TH" ELSE IF ip = 2 THEN "US" ELSE Unset]}
WebPage(ua, hits, stops) == [ua |-> ua, accept |-> TRUE, lang |-> TRUE, hits |-> hits, stops |-> stops]
WebPages ==
    {WebPage("browser", {}, {}), WebPage("automation", {"r1"}, {}),
     WebPage("browser", {"r2", "builtin"}, {}), WebPage("browser", {}, {"rate", "auth"}),
     WebPage("browser", {}, {"route", "deny"})}
GateStart ==
    /\ address = 1 /\ (asnDb = NoDb) = (countryDb = NoDb) /\ secretStable = (asnDb = NoDb)
    /\ focus # "gate" => asnDb = NoDb /\ policy.geo = NoGeo

InitConvergence ==
    /\ focus \in {"ingress", "alerts", "acme", "consul", "gate"}
    /\ InitReconcile /\ (objects = {}) = (focus # "ingress")
    /\ InitAlerts
    /\ InitChallenge /\ ChallengeStart
    /\ InitConsul /\ ConsulStart
    /\ InitGate /\ GateStart

Still(f) ==
    /\ f # "ingress" => UNCHANGED reconcileVars
    /\ f # "alerts" => UNCHANGED alertVars
    /\ f # "acme" => UNCHANGED challengeVars
    /\ f # "consul" => UNCHANGED consulVars
    /\ f # "gate" => UNCHANGED gateVars

NextConvergence ==
    /\ UNCHANGED focus /\ Still(focus)
    /\ \/ focus = "ingress" /\ NextReconcile
       \/ focus = "alerts" /\ NextAlerts
       \/ focus = "acme" /\ NextChallenge
       \/ focus = "consul" /\ NextConsul
       \/ focus = "gate" /\ NextGate

\* Tasks of the runtime run on, timers come round, watches deliver, and the
\* services that are called answer or fail; a visitor who is challenged again
\* and again answers in time now and then.
Fair ==
    /\ \A p \in Pass : /\ WF_reconcileVars(focus = "ingress" /\ ListIngresses(p))
                       /\ WF_reconcileVars(focus = "ingress" /\ PassStep(p))
    /\ WF_reconcileVars(focus = "ingress" /\ WatchEvent)
    /\ WF_reconcileVars(focus = "ingress" /\ SaveStep)
    /\ WF_consulVars(focus = "consul" /\ BeginRound)
    /\ \A s \in Service : WF_consulVars(focus = "consul" /\ (AskConsul(s) \/ ConsulSilent(s)))
    /\ SF_gateVars(focus = "gate" /\ Solve)
    /\ WF_gateVars(focus = "gate" /\ Follow)

ConvergenceSpec ==
    /\ InitConvergence
    /\ [][NextConvergence]_<<focus, reconcileVars, alertVars, challengeVars, consulVars, gateVars>>
    /\ Fair
=============================================================================
