---------------------------- MODULE TlsProbe_proofs ----------------------------
(***************************************************************************)
(* Proof that an outdated answer about an upstream's protocol is used for  *)
(* no longer than an answer lives and two probes take, for any number of   *)
(* requests and upstreams and any timeouts.                                *)
(***************************************************************************)
EXTENDS TlsProbe, TLAPS

ProbeShape ==
    /\ now \in Nat
    /\ speaks \in [Upstream -> {"tls", "plain", "down"}]
    /\ since \in [Upstream -> Nat]
    /\ known \in [Upstream -> [tls : BOOLEAN, at : Int]]
    /\ probe \in [Prober -> [pc : {"new", "ask", "store", "use"}, up : Upstream,
                             began : Nat, tls : BOOLEAN]]

\* t is not what the upstream speaks now.
Wrong(u, t) == speaks[u] # "down" /\ ~(t <=> speaks[u] = "tls")

\* A wrong answer was asked for before the upstream changed.  So it was stored at
\* most one probe later, found at most a life after that, and a request that found
\* it is sent at most one probe later again.
Dated ==
    /\ \A u \in Upstream :
          /\ since[u] <= now /\ known[u].at <= now
          /\ Wrong(u, known[u].tls) => known[u].at <= since[u] + ProbeTime
    /\ \A p \in Prober : probe[p].pc # "new" =>
          /\ probe[p].began <= now /\ now <= probe[p].began + ProbeTime
          /\ probe[p].pc = "store" /\ Wrong(probe[p].up, probe[p].tls)
                => probe[p].began <= since[probe[p].up]
          /\ probe[p].pc = "use" /\ Wrong(probe[p].up, probe[p].tls)
                => probe[p].began <= since[probe[p].up] + Life + ProbeTime

ProbeInv == ProbeShape /\ Dated

\* Bounds and lives are natural numbers.
LEMMA ProbeNat == Life \in Nat /\ ProbeTime \in Nat /\ MaxProbeTime \in Nat
  BY ProbeAssumption

\* What a request looks like after it was told the answer t.
LEMMA MovedIs ==
    ASSUME ProbeShape, NEW p \in Prober, NEW t \in BOOLEAN, NEW to \in {"store", "use"},
           probe' = Moved(p, to, t)
    PROVE  /\ probe' \in [Prober -> [pc : {"new", "ask", "store", "use"}, up : Upstream,
                                     began : Nat, tls : BOOLEAN]]
           /\ \A q \in Prober : q # p => probe'[q] = probe[q]
           /\ probe'[p].pc = to /\ probe'[p].up = probe[p].up
           /\ probe'[p].began = probe[p].began /\ (probe'[p].tls <=> t)
  BY DEF ProbeShape, Moved

\* The upstream's answer is right when it is given.
LEMMA AnswerRight ==
    ASSUME ProbeShape, NEW u \in Upstream, NEW t \in LooksLikeTls(u)
    PROVE  t \in BOOLEAN /\ ~Wrong(u, t)
<1>1. speaks[u] \in {"tls", "plain", "down"}
  BY DEF ProbeShape
<1>2. CASE speaks[u] = "tls"
  <2>1. t = TRUE
    BY <1>2 DEF LooksLikeTls
  <2> QED
    BY <2>1, <1>2 DEF Wrong
<1>3. CASE speaks[u] = "plain"
  <2>1. t = FALSE
    BY <1>3 DEF LooksLikeTls
  <2> QED
    BY <2>1, <1>3 DEF Wrong
<1>4. CASE speaks[u] = "down"
  <2>1. LooksLikeTls(u) = {(u \in Port443), FALSE}
    BY <1>4 DEF LooksLikeTls
  <2>2. (u \in Port443) \in BOOLEAN
    OBVIOUS
  <2>3. t \in BOOLEAN
    <3>1. t = FALSE \/ t = (u \in Port443)
      BY <2>1, Zenon
    <3> QED
      BY <3>1, <2>2, Zenon
  <2> QED
    BY <2>3, <1>4 DEF Wrong
<1> QED
  BY <1>1, <1>2, <1>3, <1>4

\* Asking gives an answer that is right at that time.
LEMMA AskStep ==
    ASSUME ProbeInv, NEW p \in Prober, AskUpstream(p)
    PROVE  ProbeInv'
<1> USE DEF ProbeInv
<1>1. PICK t \in LooksLikeTls(probe[p].up) : probe' = Moved(p, "store", t)
  BY DEF AskUpstream
<1>2. probe[p].up \in Upstream /\ probe[p].pc = "ask"
  BY DEF AskUpstream, ProbeShape
<1>3. t \in BOOLEAN /\ ~Wrong(probe[p].up, t)
  BY <1>2, AnswerRight
<1>4. /\ probe' \in [Prober -> [pc : {"new", "ask", "store", "use"}, up : Upstream,
                                began : Nat, tls : BOOLEAN]]
      /\ \A q \in Prober : q # p => probe'[q] = probe[q]
      /\ probe'[p].pc = "store" /\ probe'[p].up = probe[p].up
      /\ probe'[p].began = probe[p].began /\ (probe'[p].tls <=> t)
  BY <1>1, <1>3, MovedIs
<1>5. UNCHANGED <<now, speaks, since, known>>
  BY DEF AskUpstream
<1>6. ProbeShape'
  BY <1>4, <1>5 DEF ProbeShape
<1>7. ~Wrong(probe'[p].up, probe'[p].tls)
  BY <1>3, <1>4 DEF Wrong
<1>8. Dated'
  BY <1>2, <1>4, <1>5, <1>7 DEF Dated, Wrong
<1> QED
  BY <1>6, <1>8

\* Storing an answer dates it at most one probe after it was asked for.
LEMMA StoreStep ==
    ASSUME ProbeInv, NEW p \in Prober, StoreAnswer(p)
    PROVE  ProbeInv'
<1> USE DEF ProbeInv
<1> DEFINE u == probe[p].up
<1>1. u \in Upstream /\ probe[p].pc = "store" /\ probe[p].tls \in BOOLEAN
  BY DEF StoreAnswer, ProbeShape
<1>2. probe' = Moved(p, "use", probe[p].tls)
  BY DEF StoreAnswer
<1>3. /\ probe' \in [Prober -> [pc : {"new", "ask", "store", "use"}, up : Upstream,
                                began : Nat, tls : BOOLEAN]]
      /\ \A q \in Prober : q # p => probe'[q] = probe[q]
      /\ probe'[p].pc = "use" /\ probe'[p].up = u
      /\ probe'[p].began = probe[p].began /\ (probe'[p].tls <=> probe[p].tls)
  BY <1>1, <1>2, MovedIs
<1>4. UNCHANGED <<now, speaks, since>>
  BY DEF StoreAnswer
<1>5. /\ known' \in [Upstream -> [tls : BOOLEAN, at : Int]]
      /\ \A v \in Upstream : v # u => known'[v] = known[v]
      /\ known'[u].at = now /\ (known'[u].tls <=> probe[p].tls)
  BY <1>1 DEF StoreAnswer, ProbeShape
<1> HIDE DEF u
<1>6. ProbeShape'
  BY <1>3, <1>4, <1>5 DEF ProbeShape
<1>7. Wrong(u, probe[p].tls) => now <= since[u] + ProbeTime
  BY <1>1, ProbeNat DEF Dated, ProbeShape, u
<1>8. Wrong(u, probe[p].tls) => probe[p].began <= since[u] + Life + ProbeTime
  <2>1. Wrong(u, probe[p].tls) => probe[p].began <= since[u]
    BY <1>1 DEF Dated, u
  <2>2. probe[p].began \in Nat /\ since[u] \in Nat
    BY <1>1 DEF ProbeShape
  <2> QED
    BY <2>1, <2>2, ProbeNat
<1>9. \A v \in Upstream :
          /\ since'[v] <= now' /\ known'[v].at <= now'
          /\ Wrong(v, known[v].tls)' => known'[v].at <= since'[v] + ProbeTime
  BY <1>4, <1>5, <1>7, ProbeNat DEF Dated, ProbeShape, Wrong
<1>10. \A q \in Prober : probe'[q].pc # "new" =>
          /\ probe'[q].began <= now' /\ now' <= probe'[q].began + ProbeTime
          /\ probe'[q].pc = "store" /\ Wrong(probe[q].up, probe[q].tls)'
                => probe'[q].began <= since'[probe'[q].up]
          /\ probe'[q].pc = "use" /\ Wrong(probe[q].up, probe[q].tls)'
                => probe'[q].began <= since'[probe'[q].up] + Life + ProbeTime
  <2> SUFFICES ASSUME NEW q \in Prober, probe'[q].pc # "new"
               PROVE  /\ probe'[q].began <= now' /\ now' <= probe'[q].began + ProbeTime
                      /\ probe'[q].pc = "store" /\ Wrong(probe[q].up, probe[q].tls)'
                            => probe'[q].began <= since'[probe'[q].up]
                      /\ probe'[q].pc = "use" /\ Wrong(probe[q].up, probe[q].tls)'
                            => probe'[q].began <= since'[probe'[q].up] + Life + ProbeTime
    OBVIOUS
  <2>1. CASE q # p
    BY <2>1, <1>3, <1>4 DEF Dated, Wrong
  <2>2. CASE q = p
    BY <2>2, <1>1, <1>3, <1>4, <1>8 DEF Dated, Wrong
  <2> QED
    BY <2>1, <2>2
<1> QED
  BY <1>6, <1>9, <1>10 DEF Dated

\* A young answer is at most a life old.
LEMMA TakeStep ==
    ASSUME ProbeInv, NEW p \in Prober, NEW u \in Upstream, TakeKnown(p, u) \/ Miss(p, u)
    PROVE  ProbeInv'
<1> USE DEF ProbeInv
<1>1. UNCHANGED <<now, speaks, since, known>>
  BY DEF TakeKnown, Miss
<1>2. /\ probe' \in [Prober -> [pc : {"new", "ask", "store", "use"}, up : Upstream,
                                began : Nat, tls : BOOLEAN]]
      /\ \A q \in Prober : q # p => probe'[q] = probe[q]
      /\ probe'[p].up = u /\ probe'[p].began = now
  <2>1. known[u].tls \in BOOLEAN /\ now \in Nat
    BY DEF ProbeShape
  <2>2. PICK c \in {"use", "ask"}, b \in BOOLEAN :
           probe' = [probe EXCEPT ![p] = [pc |-> c, up |-> u, began |-> now, tls |-> b]]
    BY <2>1, Zenon DEF TakeKnown, Miss
  <2> QED
    BY <2>1, <2>2 DEF ProbeShape
<1>3. \/ probe'[p].pc = "ask"
      \/ probe'[p].pc = "use" /\ (probe'[p].tls <=> known[u].tls) /\ now - known[u].at < Life
  BY DEF TakeKnown, Miss, ProbeShape, Young
<1>4. ProbeShape'
  BY <1>1, <1>2 DEF ProbeShape
<1>5. probe'[p].pc = "use" /\ Wrong(u, probe'[p].tls) => now <= since[u] + Life + ProbeTime
  BY <1>3, ProbeNat DEF Dated, Wrong, ProbeShape
<1>6. Dated'
  <2>1. \A v \in Upstream :
          /\ since'[v] <= now' /\ known'[v].at <= now'
          /\ Wrong(v, known[v].tls)' => known'[v].at <= since'[v] + ProbeTime
    BY <1>1 DEF Dated, Wrong
  <2>2. \A q \in Prober : q # p /\ probe'[q].pc # "new" =>
          /\ probe'[q].began <= now' /\ now' <= probe'[q].began + ProbeTime
          /\ probe'[q].pc = "store" /\ Wrong(probe[q].up, probe[q].tls)'
                => probe'[q].began <= since'[probe'[q].up]
          /\ probe'[q].pc = "use" /\ Wrong(probe[q].up, probe[q].tls)'
                => probe'[q].began <= since'[probe'[q].up] + Life + ProbeTime
    BY <1>1, <1>2 DEF Dated, Wrong
  <2>3. /\ probe'[p].began <= now' /\ now' <= probe'[p].began + ProbeTime
        /\ probe'[p].pc # "store"
        /\ probe'[p].pc = "use" /\ Wrong(probe[p].up, probe[p].tls)'
                => probe'[p].began <= since'[probe'[p].up] + Life + ProbeTime
    BY <1>1, <1>2, <1>3, <1>5, ProbeNat DEF Wrong, ProbeShape
  <2> QED
    BY <2>1, <2>2, <2>3 DEF Dated
<1> QED
  BY <1>4, <1>6

\* When an upstream changes, no answer can have been asked for later.
LEMMA FlipStep ==
    ASSUME ProbeInv, NEW u \in Upstream, Flip(u)
    PROVE  ProbeInv'
<1> USE DEF ProbeInv
<1>1. UNCHANGED <<now, known, probe>>
  BY DEF Flip
<1>2. /\ speaks' \in [Upstream -> {"tls", "plain", "down"}]
      /\ \A v \in Upstream : v # u => speaks'[v] = speaks[v]
  BY DEF Flip, ProbeShape
<1>3. /\ since' \in [Upstream -> Nat]
      /\ \A v \in Upstream : v # u => since'[v] = since[v]
      /\ since'[u] = now
  BY DEF Flip, ProbeShape
<1>4. ProbeShape'
  BY <1>1, <1>2, <1>3 DEF ProbeShape
<1>5. \A v \in Upstream :
          /\ since'[v] <= now' /\ known'[v].at <= now'
          /\ Wrong(v, known[v].tls)' => known'[v].at <= since'[v] + ProbeTime
  <2> SUFFICES ASSUME NEW v \in Upstream
               PROVE  /\ since'[v] <= now' /\ known'[v].at <= now'
                      /\ Wrong(v, known[v].tls)' => known'[v].at <= since'[v] + ProbeTime
    OBVIOUS
  <2>1. CASE v = u
    BY <2>1, <1>1, <1>3, ProbeNat DEF Dated, ProbeShape
  <2>2. CASE v # u
    BY <2>2, <1>1, <1>2, <1>3, ProbeNat DEF Dated, ProbeShape, Wrong
  <2> QED
    BY <2>1, <2>2
<1>6. \A q \in Prober : probe'[q].pc # "new" =>
          /\ probe'[q].began <= now' /\ now' <= probe'[q].began + ProbeTime
          /\ probe'[q].pc = "store" /\ Wrong(probe[q].up, probe[q].tls)'
                => probe'[q].began <= since'[probe'[q].up]
          /\ probe'[q].pc = "use" /\ Wrong(probe[q].up, probe[q].tls)'
                => probe'[q].began <= since'[probe'[q].up] + Life + ProbeTime
  <2> SUFFICES ASSUME NEW q \in Prober, probe[q].pc # "new"
               PROVE  /\ probe[q].began <= now /\ now <= probe[q].began + ProbeTime
                      /\ probe[q].pc = "store" /\ Wrong(probe[q].up, probe[q].tls)'
                            => probe[q].began <= since'[probe[q].up]
                      /\ probe[q].pc = "use" /\ Wrong(probe[q].up, probe[q].tls)'
                            => probe[q].began <= since'[probe[q].up] + Life + ProbeTime
    BY <1>1
  <2>1. /\ probe[q].began <= now /\ now <= probe[q].began + ProbeTime
        /\ probe[q].up \in Upstream /\ probe[q].began \in Nat
    BY DEF Dated, ProbeShape
  <2>2. CASE probe[q].up = u
    BY <2>1, <2>2, <1>3, ProbeNat DEF ProbeShape
  <2>3. CASE probe[q].up # u
    BY <2>1, <2>3, <1>1, <1>2, <1>3 DEF Dated, Wrong
  <2> QED
    BY <2>1, <2>2, <2>3
<1>7. Dated'
  BY <1>5, <1>6 DEF Dated
<1> QED
  BY <1>4, <1>7

\* A request never speaks the wrong protocol to an upstream that has kept its
\* protocol for longer than an answer lives and two probes take.
THEOREM SchemeIsSettled == ProbeSpec => []SchemeSettles
<1>1. InitProbe => ProbeInv
  BY ProbeNat, ProbeAssumption
     DEF InitProbe, ProbeInv, ProbeShape, Dated, Unasked, Unknown, Wrong
<1>2. ProbeInv /\ [NextProbe]_probeVars => ProbeInv'
  <2> SUFFICES ASSUME ProbeInv, [NextProbe]_probeVars PROVE ProbeInv'
    OBVIOUS
  <2>1. ASSUME NEW p \in Prober, AskUpstream(p) PROVE ProbeInv'
    BY <2>1, AskStep
  <2>2. ASSUME NEW p \in Prober, StoreAnswer(p) PROVE ProbeInv'
    BY <2>2, StoreStep
  <2>3. ASSUME NEW p \in Prober, Send(p) PROVE ProbeInv'
    BY <2>3, ProbeAssumption DEF Send, Unasked, ProbeInv, ProbeShape, Dated, Wrong
  <2>4. ASSUME NEW p \in Prober, NEW u \in Upstream, TakeKnown(p, u) \/ Miss(p, u)
        PROVE  ProbeInv'
    BY <2>4, TakeStep
  <2>5. ASSUME NEW u \in Upstream, Flip(u) PROVE ProbeInv'
    BY <2>5, FlipStep
  <2>6. CASE PassProbeTime
    BY <2>6, ProbeNat DEF PassProbeTime, ProbeInv, ProbeShape, Dated, Wrong
  <2>7. CASE UNCHANGED probeVars
    BY <2>7 DEF probeVars, ProbeInv, ProbeShape, Dated, Wrong
  <2> QED
    BY <2>1, <2>2, <2>3, <2>4, <2>5, <2>6, <2>7 DEF NextProbe
<1>3. ProbeInv => SchemeSettles
  BY ProbeNat DEF ProbeInv, ProbeShape, Dated, Wrong, SchemeSettles
<1> QED
  BY <1>1, <1>2, <1>3, PTL DEF ProbeSpec
=============================================================================
