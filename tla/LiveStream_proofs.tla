--------------------------- MODULE LiveStream_proofs ---------------------------
(***************************************************************************)
(* Proof that the count of live connections is exact and that its limit    *)
(* holds, for any number of streams and any limit, whatever the pages ask  *)
(* for and however often the transport breaks.                             *)
(***************************************************************************)
EXTENDS LiveStream, FiniteSetTheorems, TLAPS

States == {"free", "asked", "streaming", "gone", "over", "refused"}

StreamShape ==
    /\ stream \in [Stream -> States]
    /\ es \in Stream \cup {NoStream}

\* The requests that hold a unit of the count, and those that run a task.
Counted == {c \in Stream : stream[c] \in Tasks \cup {"over"}}
Running == {c \in Stream : stream[c] \in Tasks}

StreamInv ==
    /\ StreamShape
    /\ live = Cardinality(Counted)
    /\ Cardinality(Running) <= MaxLive

\* Both sets are finite, and a task is counted.
LEMMA CountsNat ==
    /\ IsFiniteSet(Counted) /\ IsFiniteSet(Running)
    /\ Cardinality(Counted) \in Nat /\ Cardinality(Running) \in Nat
    /\ Cardinality(Running) <= Cardinality(Counted)
<1>1. IsFiniteSet(Stream) /\ Counted \subseteq Stream /\ Running \subseteq Counted
  BY StreamAssumption DEF Counted, Running
<1>2. IsFiniteSet(Counted) /\ IsFiniteSet(Running)
  BY <1>1, FS_Subset
<1> QED
  BY <1>1, <1>2, FS_CardinalityType, FS_Subset

\* A stream that is closed keeps its unit: the task does not know yet.
LEMMA AbandonedKeeps ==
    ASSUME StreamShape
    PROVE  /\ Abandoned(es) \in [Stream -> States]
           /\ \A c \in Stream : /\ Abandoned(es)[c] \in Tasks <=> stream[c] \in Tasks
                                /\ Abandoned(es)[c] = "over" <=> stream[c] = "over"
                                /\ stream[c] = "free" => Abandoned(es)[c] = "free"
  BY DEF StreamShape, Abandoned, Tasks, States

\* Opening a stream closes another and asks with a free one: nothing is counted yet.
LEMMA OpenKeeps ==
    ASSUME StreamInv, NEW chs, NEW f, Open(chs, f), live' = live
    PROVE  StreamInv'
<1> USE DEF StreamInv
<1>1. Fresh \in Stream /\ stream[Fresh] = "free"
  BY DEF Open, Free, Fresh
<1>2. stream' = [Abandoned(es) EXCEPT ![Fresh] = "asked"] /\ es' = Fresh
  BY DEF Open
<1> HIDE DEF Fresh
<1>3. StreamShape'
  BY <1>1, <1>2, AbandonedKeeps DEF StreamShape, States
<1>4. \A c \in Stream : /\ stream'[c] \in Tasks <=> stream[c] \in Tasks
                        /\ stream'[c] = "over" <=> stream[c] = "over"
  BY <1>1, <1>2, AbandonedKeeps DEF Tasks
<1>5. Counted' = Counted /\ Running' = Running
  BY <1>4 DEF Counted, Running
<1> QED
  BY <1>3, <1>5

\* Closing counts nothing and gives nothing back.
LEMMA CloseKeeps ==
    ASSUME StreamInv, Close, live' = live
    PROVE  StreamInv'
<1> USE DEF StreamInv
<1>1. stream' = Abandoned(es) /\ es' = NoStream
  BY DEF Close
<1>2. StreamShape'
  BY <1>1, AbandonedKeeps DEF StreamShape
<1>3. Counted' = Counted /\ Running' = Running
  BY <1>1, AbandonedKeeps DEF Counted, Running
<1> QED
  BY <1>2, <1>3

\* syncConnection leaves the count alone.
LEMMA SyncKeeps ==
    ASSUME StreamInv, NEW force, NEW rs, NEW f, Sync(force, rs, f), live' = live
    PROVE  StreamInv'
<1>1. \/ Close
      \/ Open(WantedBy(rs), f)
      \/ UNCHANGED <<es, stream>>
  BY DEF Sync
<1>2. CASE UNCHANGED <<es, stream>>
  BY <1>2 DEF StreamInv, StreamShape, Counted, Running
<1> QED
  BY <1>1, <1>2, OpenKeeps, CloseKeeps

\* A stream moves between two states in which it holds no unit.
LEMMA Uncounted ==
    ASSUME StreamInv, NEW c \in Stream, NEW v \in {"free", "asked", "refused"},
           stream[c] \in {"free", "asked", "refused"},
           stream' = [stream EXCEPT ![c] = v],
           es' \in Stream \cup {NoStream}, live' = live
    PROVE  StreamInv'
<1> USE DEF StreamInv
<1>1. StreamShape'
  BY DEF StreamShape, States
<1>2. Counted' = Counted /\ Running' = Running
  BY DEF Counted, Running, Tasks, StreamShape
<1> QED
  BY <1>1, <1>2

\* The count goes up first; a task starts only when it was below the limit.
LEMMA AcquireKeeps ==
    ASSUME StreamInv, NEW c \in Stream, Acquire(c)
    PROVE  StreamInv'
<1> USE DEF StreamInv
<1>1. PICK v \in Tasks \cup {"over"} :
          stream' = [stream EXCEPT ![c] = v] /\ (v \in Tasks => ~(live >= MaxLive))
  <2>1. CASE live >= MaxLive \/ feeds[c] = {}
    <3>1. stream' = [stream EXCEPT ![c] = "over"]
      BY <2>1 DEF Acquire
    <3> QED
      BY <3>1 DEF Tasks
  <2>2. CASE ~(live >= MaxLive \/ feeds[c] = {})
    <3>1. \E v \in Tasks : stream' = [stream EXCEPT ![c] = v]
      BY <2>2 DEF Acquire, Tasks
    <3> QED
      BY <2>2, <3>1
  <2> QED
    BY <2>1, <2>2
<1>2. stream[c] = "asked" /\ live' = live + 1 /\ es' = es
  BY DEF Acquire, client
<1>3. StreamShape'
  BY <1>1, <1>2 DEF StreamShape, Tasks, States
<1>4. Counted' = Counted \cup {c} /\ c \notin Counted
  BY <1>1, <1>2 DEF StreamShape, Counted, Tasks
<1>5. live' = Cardinality(Counted')
  BY <1>2, <1>4, CountsNat, FS_AddElement
<1>6. CASE v \in Tasks
  <2>1. Running' = Running \cup {c} /\ c \notin Running
    BY <1>1, <1>2, <1>6 DEF StreamShape, Running, Tasks
  <2>2. Cardinality(Running') = Cardinality(Running) + 1
    BY <2>1, CountsNat, FS_AddElement
  <2>3. Cardinality(Running) < MaxLive
    BY <1>1, <1>6, CountsNat, StreamAssumption
  <2> QED
    BY <1>3, <1>5, <2>2, <2>3, CountsNat, StreamAssumption
<1>7. CASE v \notin Tasks
  <2>1. Running' = Running
    BY <1>1, <1>2, <1>7 DEF StreamShape, Running, Tasks
  <2> QED
    BY <1>3, <1>5, <2>1
<1> QED
  BY <1>6, <1>7

\* A counted stream gives its unit back, and with it its task if it had one.
LEMMA GiveBack ==
    ASSUME StreamInv, NEW c \in Counted, NEW v \in {"free", "refused"},
           stream' = [stream EXCEPT ![c] = v], live' = live - 1, es' = es
    PROVE  StreamInv'
<1> USE DEF StreamInv
<1>1. StreamShape'
  BY DEF StreamShape, States, Counted
<1>2. Counted' = Counted \ {c} /\ Running' \subseteq Running
  BY DEF StreamShape, Counted, Running, Tasks
<1>3. Cardinality(Counted') = Cardinality(Counted) - 1
  BY <1>2, CountsNat, FS_RemoveElement
<1>4. Cardinality(Running') <= Cardinality(Running) /\ Cardinality(Running') \in Nat
  BY <1>2, CountsNat, FS_Subset, FS_CardinalityType
<1> QED
  BY <1>1, <1>3, <1>4, CountsNat, StreamAssumption

\* The count of live connections is the number of requests being refused and of
\* tasks that run, and more than MaxLive tasks never run.
THEOREM SlotsAreExact == StreamSpec => []SlotsExact
<1>1. InitStream => StreamInv
  <2> SUFFICES ASSUME InitStream PROVE StreamInv
    OBVIOUS
  <2>1. StreamShape
    BY DEF InitStream, StreamShape, States
  <2>2. Counted = {} /\ Running = {}
    BY DEF InitStream, Counted, Running, Tasks
  <2> QED
    BY <2>1, <2>2, FS_EmptySet, StreamAssumption DEF StreamInv, InitStream
<1>2. StreamInv /\ [NextStream]_streamVars => StreamInv'
  <2> SUFFICES ASSUME StreamInv, [NextStream]_streamVars PROVE StreamInv'
    OBVIOUS
  <2>1. ASSUME NEW ch \in Feed, SubscribePage(ch) PROVE StreamInv'
    BY <2>1, SyncKeeps DEF SubscribePage
  <2>2. ASSUME NEW ch \in Feed, UnsubscribePage(ch) PROVE StreamInv'
    BY <2>2, SyncKeeps DEF UnsubscribePage
  <2>3. ASSUME NEW ch \in Feed, ChangeShown(ch) PROVE StreamInv'
    BY <2>3 DEF ChangeShown, server, client, StreamInv, StreamShape, Counted, Running
  <2>4. CASE SetLogsFilter
    <3>1. CASE Sync(TRUE, pageRefs, uiFilter')
      BY <2>4, <3>1, SyncKeeps DEF SetLogsFilter
    <3>2. CASE UNCHANGED <<es, stream>>
      BY <2>4, <3>2 DEF SetLogsFilter, StreamInv, StreamShape, Counted, Running
    <3> QED
      BY <2>4, <3>1, <3>2 DEF SetLogsFilter
  <2>5. CASE OnError
    <3>1. es \in Stream /\ stream[es] = "refused" /\ live' = live /\ es' = NoStream
      BY <2>5 DEF OnError, StreamInv, StreamShape
    <3> QED
      BY <2>5, <3>1, Uncounted DEF OnError
  <2>6. CASE Reconnect
    BY <2>6, SyncKeeps DEF Reconnect
  <2>7. CASE Break
    BY <2>7, OpenKeeps DEF Break
  <2>8. CASE BareRequest
    <3>1. PICK c \in Free : stream' = [stream EXCEPT ![c] = "asked"]
      BY <2>8 DEF BareRequest
    <3>2. c \in Stream /\ stream[c] = "free" /\ live' = live /\ es' = es
      BY <2>8 DEF BareRequest, Free, client
    <3> QED
      BY <3>1, <3>2, Uncounted DEF StreamInv, StreamShape
  <2>9. ASSUME NEW c \in Stream, Acquire(c) PROVE StreamInv'
    BY <2>9, AcquireKeeps
  <2>10. ASSUME NEW c \in Stream, Refuse(c) PROVE StreamInv'
    <3>1. c \in Counted /\ live' = live - 1 /\ es' = es
      BY <2>10 DEF Refuse, Counted, client
    <3>2. PICK v \in {"free", "refused"} : stream' = [stream EXCEPT ![c] = v]
      BY <2>10 DEF Refuse
    <3> QED
      BY <3>1, <3>2, GiveBack
  <2>11. ASSUME NEW c \in Stream, NEW ch \in Feed, Push(c, ch) PROVE StreamInv'
    <3>1. c \in Counted /\ es' = es
      BY <2>11 DEF Push, PushIf, Counted, client
    <3>2. \/ stream' = [stream EXCEPT ![c] = "free"] /\ live' = live - 1
          \/ UNCHANGED <<stream, live>>
      BY <2>11 DEF Push, PushIf
    <3>3. CASE UNCHANGED <<stream, live>>
      BY <3>1, <3>3 DEF StreamInv, StreamShape, Counted, Running
    <3> QED
      BY <3>1, <3>2, <3>3, GiveBack
  <2>12. CASE UNCHANGED streamVars
    BY <2>12 DEF streamVars, server, client, StreamInv, StreamShape, Counted, Running
  <2> QED
    BY <2>1, <2>2, <2>3, <2>4, <2>5, <2>6, <2>7, <2>8, <2>9, <2>10, <2>11, <2>12
       DEF NextStream, ServerStep
<1>3. StreamInv => SlotsExact
  BY DEF StreamInv, SlotsExact, Counted, Running
<1> QED
  BY <1>1, <1>2, <1>3, PTL DEF StreamSpec
=============================================================================
