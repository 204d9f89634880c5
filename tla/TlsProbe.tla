------------------------------- MODULE TlsProbe -------------------------------
(***************************************************************************)
(* Upstreams with the "auto:" scheme (edge/mod.rs): a request takes the    *)
(* remembered answer while it is younger than five minutes and otherwise   *)
(* asks the upstream itself.  Cache and upstream are looked at in separate *)
(* steps, so several requests may ask at once and store in any order.      *)
(***************************************************************************)
EXTENDS Integers

CONSTANTS
    Prober,          \* requests
    Upstream, Port443,   \* "auto:" upstreams, those on port 443
    Life,            \* time an answer is used for (300 s)
    ProbeTime,       \* longest probe: connect, write and read timeouts
    MaxProbeTime,         \* bound of the clock
    MaxFlips         \* bound on changes of an upstream

ASSUME ProbeAssumption ==
    /\ Port443 \subseteq Upstream /\ Upstream # {}
    /\ {Life, ProbeTime, MaxProbeTime, MaxFlips} \subseteq Nat /\ Life > 0

VARIABLES
    now,
    speaks,          \* upstream: "tls", "plain", or "down"
    since,           \* history: when it last changed
    known,           \* probes(): remembered answer [tls, at]
    probe,           \* request: [pc, up, began, tls]
    flips

probeVars == <<now, speaks, since, known, probe, flips>>

Unknown == [tls |-> FALSE, at |-> -1]

Unasked == [pc |-> "new", up |-> CHOOSE u \in Upstream : TRUE, began |-> 0, tls |-> FALSE]

InitProbe ==
    /\ now = 0 /\ flips = 0
    /\ speaks \in [Upstream -> {"tls", "plain", "down"}]
    /\ since = [u \in Upstream |-> 0]
    /\ known = [u \in Upstream |-> Unknown]
    /\ probe = [p \in Prober |-> Unasked]

Young(u) == known[u] # Unknown /\ now - known[u].at < Life

\* Mutant of TakeKnown: a hit makes the answer young again.
TakeKnownAgain(p, u) ==
    /\ probe[p].pc = "new" /\ Young(u)
    /\ probe' = [probe EXCEPT ![p] = [pc |-> "use", up |-> u, began |-> now, tls |-> known[u].tls]]
    /\ known' = [known EXCEPT ![u].at = now]
    /\ UNCHANGED <<now, speaks, since, flips>>

\* probe_upstream_tls, first lock: a young answer is taken.
TakeKnown(p, u) ==
    /\ probe[p].pc = "new" /\ Young(u)
    /\ probe' = [probe EXCEPT ![p] = [pc |-> "use", up |-> u, began |-> now, tls |-> known[u].tls]]
    /\ UNCHANGED <<now, speaks, since, known, flips>>

Miss(p, u) ==
    /\ probe[p].pc = "new" /\ ~Young(u)
    /\ probe' = [probe EXCEPT ![p] = [pc |-> "ask", up |-> u, began |-> now, tls |-> FALSE]]
    /\ UNCHANGED <<now, speaks, since, known, flips>>

\* tcp_looks_like_tls: the first byte of the answer tells; an upstream that
\* cannot be reached is judged by its port, one that says nothing is plain.
LooksLikeTls(u) ==
    CASE speaks[u] = "tls" -> {TRUE}
      [] speaks[u] = "plain" -> {FALSE}
      [] speaks[u] = "down" -> {(u \in Port443), FALSE}

Moved(p, to, t) ==
    [probe EXCEPT ![p] = [pc |-> to, up |-> probe[p].up, began |-> probe[p].began, tls |-> t]]

AskUpstream(p) ==
    /\ probe[p].pc = "ask"
    /\ \E t \in LooksLikeTls(probe[p].up) : probe' = Moved(p, "store", t)
    /\ UNCHANGED <<now, speaks, since, known, flips>>

\* Second lock: the answer is stored with the time of storing.
StoreAnswer(p) ==
    /\ probe[p].pc = "store"
    /\ known' = [known EXCEPT ![probe[p].up] = [tls |-> probe[p].tls, at |-> now]]
    /\ probe' = Moved(p, "use", probe[p].tls)
    /\ UNCHANGED <<now, speaks, since, flips>>

\* The request is sent with the scheme; another may follow.
Send(p) ==
    /\ probe[p].pc = "use"
    /\ probe' = [probe EXCEPT ![p] = Unasked]
    /\ UNCHANGED <<now, speaks, since, known, flips>>

\* The timeouts bound how long a request is under way.
PassProbeTime ==
    /\ now < MaxProbeTime
    /\ \A p \in Prober : probe[p].pc # "new" => now - probe[p].began < ProbeTime
    /\ now' = now + 1
    /\ UNCHANGED <<speaks, since, known, probe, flips>>

\* The upstream is reconfigured, stopped or started.
Flip(u) ==
    /\ flips < MaxFlips /\ flips' = flips + 1
    /\ speaks' \in {[speaks EXCEPT ![u] = k] : k \in {"tls", "plain", "down"} \ {speaks[u]}}
    /\ since' = [since EXCEPT ![u] = now]
    /\ UNCHANGED <<now, known, probe>>

NextProbe ==
    \/ \E p \in Prober : AskUpstream(p) \/ StoreAnswer(p) \/ Send(p)
    \/ \E p \in Prober, u \in Upstream : TakeKnown(p, u) \/ Miss(p, u)
    \/ \E u \in Upstream : Flip(u)
    \/ PassProbeTime

ProbeSpec == InitProbe /\ [][NextProbe]_probeVars
-----------------------------------------------------------------------------
(* Properties.                                                             *)

\* A request never speaks the wrong protocol to an upstream that has kept its
\* protocol for longer than an answer lives and two probes take: however many
\* requests ask and store at once, an outdated answer cannot outlive that.
SchemeSettles ==
    \A p \in Prober :
        LET u == probe[p].up IN
        /\ probe[p].pc = "use" /\ speaks[u] # "down"
        /\ now - since[u] > Life + 2 * ProbeTime
        => probe[p].tls = (speaks[u] = "tls")
=============================================================================
