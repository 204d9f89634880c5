-------------------------- MODULE ConsulPoller_proofs --------------------------
(***************************************************************************)
(* Proof that requests are only sent to endpoints Consul has reported, for *)
(* any number of services, endpoints, rounds and replacements of the table. *)
(***************************************************************************)
EXTENDS ConsulPoller, FiniteSetTheorems, TLAPS

\* The shape of the state PicksReported speaks about.
ConsulShape ==
    /\ passing \in [Service -> SUBSET Endpoint]
    /\ endpoints \in [Service -> Seq(Endpoint)]
    /\ reported \in [Service -> SUBSET Endpoint]
    /\ named \subseteq Service /\ round \subseteq Service
    /\ rr \in Nat

\* PicksReported is about the last pick; the list the next one is taken from has
\* to be covered as well.
ListsReported ==
    /\ \A s \in Service : \A i \in 1..Len(endpoints[s]) : endpoints[s][i] \in reported[s]
    /\ \A s \in Service : reported[s] # {} => endpoints[s] # <<>>
    /\ picked # NoPick => picked[1] \in Service /\ picked[2] \in reported[picked[1]]

ConsulInv == ConsulShape /\ ListsReported

\* An answer lists the endpoints it is made from, and is empty only if there are
\* none (consul_refresh).
LEMMA AnswerLists ==
    ASSUME NEW S \in SUBSET Endpoint, NEW a \in SetToSeqs(S)
    PROVE  /\ a \in Seq(Endpoint)
           /\ \A i \in 1..Len(a) : a[i] \in S
           /\ S # {} => a # <<>>
<1> DEFINE n == Cardinality(S)
<1>1. IsFiniteSet(S) /\ n \in Nat
  BY ConsulAssumption, FS_Subset, FS_CardinalityType
<1>2. a \in [1..n -> S]
  BY DEF SetToSeqs
<1>3. a \in Seq(Endpoint) /\ Len(a) = n
  BY <1>1, <1>2
<1>4. S # {} => n # 0
  BY <1>1, FS_EmptySet
<1> HIDE DEF n
<1> QED
  BY <1>1, <1>2, <1>3, <1>4

\* A round-robin index lies within the list, whatever the shared counter is
\* (consul_pick).
LEMMA IndexInList ==
    ASSUME NEW k \in Nat, NEW n \in Nat, n # 0
    PROVE  (k % n) + 1 \in 1..n
  OBVIOUS

\* Polling a service replaces its list by one of reported endpoints or keeps it.
LEMMA AskStep ==
    ASSUME ConsulInv, NEW s \in Service, AskConsul(s)
    PROVE  ConsulInv'
<1> USE DEF ConsulInv, ConsulShape, ListsReported
<1>1. PICK a \in SetToSeqs(Complete(s)) :
        endpoints' = [endpoints EXCEPT ![s] = Taken(endpoints[s], a)]
  BY DEF AskConsul
<1> DEFINE new == Complete(s)
<1>2. new \in SUBSET Endpoint
  BY DEF Complete
<1>3. /\ a \in Seq(Endpoint)
      /\ \A i \in 1..Len(a) : a[i] \in new
      /\ new # {} => a # <<>>
  BY <1>2, AnswerLists
<1>4. reported' = [reported EXCEPT ![s] = @ \cup new]
  BY DEF AskConsul
<1>5. UNCHANGED <<passing, named, rr, picked>> /\ round' \subseteq Service
  BY DEF AskConsul
<1> HIDE DEF new
<1>6. ConsulShape'
  BY <1>1, <1>2, <1>3, <1>4, <1>5 DEF Taken
<1>7. ASSUME NEW t \in Service, NEW i \in 1..Len(endpoints'[t])
      PROVE  endpoints'[t][i] \in reported'[t]
  <2>1. CASE t # s
    BY <2>1, <1>1, <1>4, <1>7
  <2>2. CASE t = s /\ a = <<>>
    BY <2>2, <1>1, <1>4, <1>7 DEF Taken
  <2>3. CASE t = s /\ a # <<>>
    BY <2>3, <1>1, <1>3, <1>4, <1>7 DEF Taken
  <2> QED
    BY <2>1, <2>2, <2>3
<1>8. ASSUME NEW t \in Service, reported'[t] # {}
      PROVE  endpoints'[t] # <<>>
  BY <1>1, <1>3, <1>4, <1>8 DEF Taken
<1>9. picked' # NoPick => picked'[1] \in Service /\ picked'[2] \in reported'[picked'[1]]
  BY <1>4, <1>5
<1> QED
  BY <1>6, <1>7, <1>8, <1>9

\* A pick takes an element of the service's list.
LEMMA PickStep ==
    ASSUME ConsulInv, NEW s \in Service, ConsulPick(s)
    PROVE  ConsulInv'
<1> USE DEF ConsulInv, ConsulShape, ListsReported
<1> DEFINE n == Len(endpoints[s])
           k == (rr % n) + 1
<1>1. n \in Nat /\ n # 0
  BY DEF ConsulPick
<1>2. k \in 1..n
  BY <1>1, IndexInList
<1>3. picked' = <<s, endpoints[s][k]>> /\ rr' = rr + 1
  BY DEF ConsulPick
<1>4. UNCHANGED <<passing, named, endpoints, round, reported>>
  BY DEF ConsulPick
<1>5. endpoints[s][k] \in reported[s]
  BY <1>2
<1> HIDE DEF n, k
<1> QED
  BY <1>3, <1>4, <1>5

\* A request is only ever sent to an endpoint Consul reported for its service, and
\* a service that had an endpoint keeps one.
THEOREM PicksAreReported == ConsulSpec => []PicksReported
<1>1. InitConsul => ConsulInv
  BY DEF InitConsul, ConsulInv, ConsulShape, ListsReported
<1>2. ConsulInv /\ [NextConsul]_consulVars => ConsulInv'
  <2> SUFFICES ASSUME ConsulInv, [NextConsul]_consulVars PROVE ConsulInv'
    OBVIOUS
  <2>1. CASE BeginRound
    BY <2>1 DEF BeginRound, ConsulInv, ConsulShape, ListsReported
  <2>2. ASSUME NEW s \in Service, AskConsul(s) PROVE ConsulInv'
    BY <2>2, AskStep
  <2>3. ASSUME NEW s \in Service, ConsulSilent(s) PROVE ConsulInv'
    BY <2>3 DEF ConsulSilent, ConsulInv, ConsulShape, ListsReported
  <2>4. ASSUME NEW s \in Service, ConsulPick(s) PROVE ConsulInv'
    BY <2>4, PickStep
  <2>5. ASSUME NEW s \in Service, Register(s) PROVE ConsulInv'
    BY <2>5 DEF Register, ConsulInv, ConsulShape, ListsReported
  <2>6. CASE ReplaceServices
    BY <2>6 DEF ReplaceServices, ConsulInv, ConsulShape, ListsReported
  <2>7. CASE UNCHANGED consulVars
    BY <2>7 DEF consulVars, ConsulInv, ConsulShape, ListsReported
  <2> QED
    BY <2>1, <2>2, <2>3, <2>4, <2>5, <2>6, <2>7 DEF NextConsul, PollerStep
<1>3. ConsulInv => PicksReported
  BY DEF ConsulInv, ListsReported, PicksReported
<1> QED
  BY <1>1, <1>2, <1>3, PTL DEF ConsulSpec
=============================================================================
