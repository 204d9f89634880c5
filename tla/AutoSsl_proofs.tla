----------------------------- MODULE AutoSsl_proofs -----------------------------
(***************************************************************************)
(* For any number of sweeps, entries and certificates, and whatever fails: *)
(* no order is being obtained by two tasks at once, and no sweep deletes a *)
(* certificate that has more than 30 days left.                            *)
(***************************************************************************)
EXTENDS AutoSsl, WellFoundedInduction, TLAPS

Phases == {"idle", "obtain", "save", "insert", "release", "done"}

\* The types of what the sweeps work from.
Shape ==
    /\ task \in [Task -> Phases]
    /\ conf \in [Sweep -> SUBSET Entry]
    /\ todo \in [Sweep -> SUBSET Entry]
    /\ cur \in [Sweep -> Entry]
    /\ rows \in SUBSET CertId
    /\ list \in [Sweep -> SUBSET CertId]
    /\ acme \in SUBSET Entry
    /\ age \in [CertId -> Nat]

\* A running task has its order in ACME_INFLIGHT, and has it for itself.
Held ==
    /\ \A t \in Task : Running(t) => OrderOf[t[2]] \in inflight
    /\ OneObtain

\* The first of a set of numbers is one of them.
LEMMA FirstIn == ASSUME NEW S \in SUBSET Nat, S # {} PROVE First(S) \in S
<1>1. PICK n \in S : \A m \in S : <<m, n>> \notin OpToRel(<, Nat)
  BY WFMin, NatLessThanWellFounded, Zenon
<1>2. \A m \in S : n <= m
  <2> SUFFICES ASSUME NEW m \in S, m < n PROVE FALSE
    OBVIOUS
  <2>1. <<m, n>> \in Nat \X Nat
    OBVIOUS
  <2>2. <<m, n>>[1] < <<m, n>>[2]
    BY Zenon
  <2>3. <<m, n>> \in OpToRel(<, Nat)
    BY <2>1, <2>2, Zenon DEF OpToRel
  <2> QED
    BY <1>1, <2>3, Zenon
<1> QED
  BY <1>2 DEF First

\* The initial states have the types.
LEMMA ShapeInit == Init => Shape
<1> SUFFICES ASSUME Init PROVE Shape
  OBVIOUS
<1> USE AutoSslAssumption DEF Init, Entry, CertId
<1>1. PICK a \in Ages : age = [c \in CertId |-> IF c \in rows THEN a ELSE 0]
  OBVIOUS
<1>2. rows \in SUBSET CertId
  OBVIOUS
<1> QED
  BY <1>1, <1>2 DEF Shape, Phases, Ages

\* A deletion takes at most the one row.
LEMMA DeleteKeeps ==
    ASSUME NEW c, Delete(c)
    PROVE  rows' \subseteq rows /\ rows \ rows' \subseteq {c}
BY DEF Delete

\* An insertion keeps the types of the table.
LEMMA AddKeeps ==
    ASSUME Shape, NEW c, NEW k, NEW hs, Add(c, k, hs)
    PROVE  rows' \in SUBSET CertId /\ age' \in [CertId -> Nat]
BY DEF Shape, Add

\* Every action keeps the types.
LEMMA ShapeStep == Shape /\ [Next]_vars => Shape'
<1> SUFFICES ASSUME Shape, [Next]_vars PROVE Shape'
  OBVIOUS
<1> USE DEF Shape, Phases, sweeps, db
<1>1. ASSUME NEW s \in Sweep, SweepStep(s) PROVE Shape'
  <2>1. CASE ListRows(s)
    BY <2>1 DEF ListRows, Listed
  <2>2. CASE Renew(s)
    BY <2>2, DeleteKeeps DEF Renew
  <2>3. CASE RenewDone(s)
    BY <2>3 DEF RenewDone, Listed
  <2>4. CASE NextEntry(s)
    <3>1. todo[s] \in SUBSET Nat
      BY AutoSslAssumption DEF Entry
    <3>2. First(todo[s]) \in Entry
      BY <2>4, <3>1, FirstIn DEF NextEntry
    <3>3. rows' \subseteq rows
      BY <2>4, DeleteKeeps DEF NextEntry
    <3> QED
      BY <2>4, <3>2, <3>3 DEF NextEntry
  <2>5. CASE Check(s)
    BY <2>5 DEF Check
  <2>6. CASE Reload(s)
    BY <2>6 DEF Reload
  <2>7. CASE DropStale(s)
    BY <2>7, DeleteKeeps DEF DropStale
  <2>8. CASE Relist(s)
    BY <2>8 DEF Relist
  <2>9. CASE Lock(s)
    BY <2>9 DEF Lock, Task
  <2>10. CASE LoadRead(s)
    BY <2>10 DEF LoadRead, Listed
  <2>11. CASE LoadMap(s)
    BY <2>11 DEF LoadMap
  <2> QED
    BY <1>1, <2>1, <2>2, <2>3, <2>4, <2>5, <2>6, <2>7, <2>8, <2>9, <2>10, <2>11 DEF SweepStep
<1>2. ASSUME NEW t \in Task, TaskStep(t) PROVE Shape'
  <2>1. CASE Save(t)
    <3>1. rows' \in SUBSET CertId /\ age' \in [CertId -> Nat]
      BY <2>1, AddKeeps DEF Save
    <3>2. task' \in [Task -> Phases]
      BY <2>1 DEF Save, At
    <3> QED
      BY <2>1, <3>1, <3>2 DEF Save
  <2> QED
    BY <1>2, <2>1 DEF TaskStep, Obtain, Insert, Release, At
<1>3. ASSUME NEW s \in Sweep, Activate(s) PROVE Shape'
  BY <1>3 DEF Activate
<1>4. ASSUME NEW e \in Entry, Upload(e) PROVE Shape'
  <2>1. rows' \in SUBSET CertId /\ age' \in [CertId -> Nat]
    BY <1>4, AddKeeps DEF Upload
  <2> QED
    BY <1>4, <2>1 DEF Upload
<1>5. ASSUME NEW c \in CertId, Age(c) PROVE Shape'
  BY <1>5 DEF Age
<1>6. CASE UNCHANGED vars
  BY <1>6 DEF vars
<1> QED
  BY <1>1, <1>2, <1>3, <1>4, <1>5, <1>6 DEF Next

\* Only Lock and the tasks' own steps touch ACME_INFLIGHT and the tasks.
LEMMA HeldStep == Shape /\ Held /\ [Next]_vars => Held'
<1> SUFFICES ASSUME Shape, Held, [Next]_vars PROVE Held'
  OBVIOUS
<1> USE DEF Shape, Held, OneObtain, Running, Phases
<1>1. CASE UNCHANGED <<task, inflight>>
  BY <1>1
<1>2. ASSUME NEW s \in Sweep, Lock(s) PROVE Held'
  <2>1. CASE UNCHANGED <<inflight, task>>
    BY <1>1, <2>1
  <2>2. CASE OrderOf[cur[s]] \notin inflight
    <3> DEFINE new == <<s, cur[s]>>
    <3>1. new \in Task /\ new[2] = cur[s]
      BY DEF Task
    <3>2. inflight' = inflight \cup {OrderOf[cur[s]]} /\ task' = [task EXCEPT ![new] = "obtain"]
      BY <1>2, <2>2 DEF Lock
    <3>3. \A t \in Task : Running(t)' <=> Running(t) \/ t = new
      BY <3>1, <3>2
    <3>4. \A t \in Task : Running(t) => OrderOf[t[2]] # OrderOf[cur[s]]
      BY <2>2
    <3> HIDE DEF new, Running
    <3> QED
      BY <3>1, <3>2, <3>3, <3>4
  <2> QED
    BY <1>2, <2>1, <2>2 DEF Lock
<1>3. ASSUME NEW t \in Task, TaskStep(t), UNCHANGED inflight PROVE Held'
  BY <1>3 DEF TaskStep, Obtain, Save, Insert, Release, At
<1>4. ASSUME NEW t \in Task, Release(t) PROVE Held'
  BY <1>4 DEF Release, At
<1> QED
  BY <1>1, <1>2, <1>3, <1>4 DEF Next, SweepStep, TaskStep, vars, db, sweeps, ListRows, Renew,
     RenewDone, NextEntry, Check, Reload, DropStale, Relist, LoadRead, LoadMap, Obtain, Save,
     Insert, Activate, Upload, Age

\* An order is never being obtained by two tasks.
THEOREM NoDuplicateOrder == Spec => []OneObtain
<1>1. Init => Held
  BY DEF Init, Held, OneObtain, Running
<1>2. Held => OneObtain
  BY DEF Held
<1> QED
  BY <1>1, <1>2, ShapeInit, ShapeStep, HeldStep, PTL DEF Spec

\* What a sweep deletes is uploaded, or has at most 30 days left.
THEOREM OnlyOldDeleted == Spec => FreshKept
<1>1. Shape /\ [Next]_vars => [\A c \in rows \ rows' : kind[c] = "acme" => age[c] > 0]_vars
  <2> SUFFICES ASSUME Shape, Next, NEW c \in rows \ rows', kind[c] = "acme"
               PROVE  age[c] > 0
    BY DEF vars, db
  <2> USE DEF Shape, sweeps, db
  <2>1. ASSUME NEW s \in Sweep PROVE list[s] \in SUBSET Nat
    BY AutoSslAssumption DEF CertId
  <2>2. ASSUME NEW s \in Sweep, Renew(s) PROVE age[c] > 0
    <3>1. First(Expiring(s)) \in Expiring(s)
      BY <2>1, <2>2, FirstIn DEF Renew, Expiring
    <3> QED
      BY <2>2, <3>1, DeleteKeeps DEF Renew, Expiring
  <2>3. ASSUME NEW s \in Sweep, DropStale(s) PROVE age[c] > 0
    <3>1. First(Stale(s)) \in Stale(s)
      BY <2>1, <2>3, FirstIn DEF DropStale, Stale
    <3>2. c \in Stale(s)
      BY <2>3, <3>1, DeleteKeeps DEF DropStale
    <3> QED
      BY <3>2 DEF Stale, Valid
  <2>4. ASSUME NEW s \in Sweep, NextEntry(s) PROVE age[c] > 0
    <3> DEFINE U == {x \in list[s] : kind[x] = "uploaded"
                                      /\ Covers(hosts[x], HostsOf[First(todo[s])])}
    <3>1. U # {} /\ Delete(First(U))
      BY <2>4 DEF NextEntry
    <3>2. First(U) \in U
      BY <2>1, <3>1, FirstIn
    <3> QED
      BY <3>1, <3>2, DeleteKeeps
  <2> QED
    BY <2>2, <2>3, <2>4 DEF Next, SweepStep, TaskStep, ListRows, RenewDone, Check, Reload, Relist,
       Lock, LoadRead, LoadMap, Obtain, Save, Add, Insert, Release, Activate, Upload, Age
<1> QED
  BY <1>1, ShapeInit, ShapeStep, PTL DEF Spec, FreshKept
=============================================================================
