------------------------ MODULE LeaderElection_proofs ------------------------
(***************************************************************************)
(* For any number of replicas, any duration and any bounds: the Lease is   *)
(* only taken when it has expired and, as long as loops keep up with it, a *)
(* replica that believes to be leader holds it.                            *)
(***************************************************************************)
EXTENDS LeaderElection, TLAPS

\* A replica that read the Lease at the version it still has saw it free, expired
\* or its own.
ReadInv ==
    \A n \in Node :
        /\ seenRv[n] <= rv
        /\ pc[n] = "write" /\ seenRv[n] = rv /\ exists => Expired(n) \/ holder = n

\* No Lease has version 0.
VersionInv == rv > 0 => exists

\* As long as loops have kept up, what a replica has won it still holds, and its lease has not run out.
Holds(n) ==
    /\ flag[n] => exists /\ holder = n /\ term[n] <= renew /\ clock <= term[n] + Dur
    /\ term[n] <= now[n]
    /\ pc[n] # "sleep" => clock <= now[n] + Dur
    /\ pc[n] = "store" /\ won[n] => exists /\ holder = n /\ now[n] <= renew

HoldInv == timely => \A n \in Node : Holds(n)

\* Every action keeps the types.
LEMMA TypeStep == TypeOK /\ [Next]_vars => TypeOK'
<1> SUFFICES ASSUME TypeOK, [Next]_vars PROVE TypeOK'
  OBVIOUS
<1> USE LeaseAssumption DEF TypeOK, lease
<1>1. ASSUME NEW n \in Node, Wake(n) PROVE TypeOK'
  BY <1>1 DEF Wake, Goto
<1>2. ASSUME NEW n \in Node, Get(n) PROVE TypeOK'
  BY <1>2 DEF Get, Goto
<1>3. ASSUME NEW n \in Node, Write(n) PROVE TypeOK'
  <2>1. PICK ok \in BOOLEAN : won' = [won EXCEPT ![n] = ok]
    BY <1>3, Zenon DEF Write
  <2>2. exists' \in BOOLEAN
    BY <1>3, Zenon DEF Write, Take
  <2>3. Take(n) \/ UNCHANGED lease
    BY <1>3, Zenon DEF Write
  <2>4. holder' \in Node /\ renew' \in 0..clock /\ rv' \in 0..MaxWrites
    BY <2>3 DEF Take
  <2> QED
    BY <1>3, <2>1, <2>2, <2>4 DEF Write, Goto
<1>4. ASSUME NEW n \in Node, Store(n) PROVE TypeOK'
  BY <1>4 DEF Store, Goto
<1>5. ASSUME NEW n \in Node, Restart(n) PROVE TypeOK'
  BY <1>5 DEF Restart
<1>6. CASE Tick
  BY <1>6 DEF Tick
<1>7. CASE UNCHANGED vars
  BY <1>7 DEF vars
<1> QED
  BY <1>1, <1>2, <1>3, <1>4, <1>5, <1>6, <1>7 DEF Next

\* The types hold initially and throughout.
THEOREM TypeCorrect == Spec => []TypeOK
<1>1. Init => TypeOK
  <2> SUFFICES ASSUME Init PROVE TypeOK
    OBVIOUS
  <2>1. won \in [Node -> BOOLEAN] /\ flag \in [Node -> BOOLEAN] /\ exists \in BOOLEAN
    BY Zenon DEF Init
  <2> QED
    BY <2>1, LeaseAssumption DEF Init, TypeOK
<1> QED
  BY <1>1, TypeStep, PTL DEF Spec

\* Every action keeps what replicas know of the Lease they read.
LEMMA ReadStep == TypeOK /\ ReadInv /\ VersionInv /\ [Next]_vars => (ReadInv /\ VersionInv)'
<1> SUFFICES ASSUME TypeOK, ReadInv, VersionInv, [Next]_vars PROVE (ReadInv /\ VersionInv)'
  OBVIOUS
<1> USE LeaseAssumption DEF TypeOK, ReadInv, VersionInv, lease, Expired
<1>1. ASSUME NEW n \in Node, Wake(n) PROVE (ReadInv /\ VersionInv)'
  BY <1>1 DEF Wake, Goto
<1>2. ASSUME NEW n \in Node, Get(n) PROVE (ReadInv /\ VersionInv)'
  BY <1>2 DEF Get, Goto
<1>3. ASSUME NEW n \in Node, Write(n) PROVE (ReadInv /\ VersionInv)'
  BY <1>3 DEF Write, Take, Goto
<1>4. ASSUME NEW n \in Node, Store(n) PROVE (ReadInv /\ VersionInv)'
  BY <1>4 DEF Store, Goto
<1>5. ASSUME NEW n \in Node, Restart(n) PROVE (ReadInv /\ VersionInv)'
  BY <1>5 DEF Restart
<1>6. CASE Tick
  BY <1>6 DEF Tick
<1>7. CASE UNCHANGED vars
  BY <1>7 DEF vars
<1> QED
  BY <1>1, <1>2, <1>3, <1>4, <1>5, <1>6, <1>7 DEF Next

\* The Lease changes hands only in Write, at the version the writer has read.
THEOREM OnlyExpiredTaken == Spec => TakenOnlyExpired
<1>1. Init => ReadInv /\ VersionInv
  BY DEF Init, ReadInv, VersionInv
<1>2. TypeOK /\ ReadInv /\ [Next]_vars
        => [exists /\ holder' # holder => renew + Dur < clock]_vars
  <2> SUFFICES ASSUME TypeOK, ReadInv, Next, exists, holder' # holder
               PROVE  renew + Dur < clock
    BY DEF vars, lease
  <2>1. PICK n \in Node : Write(n)
    BY DEF Next, Wake, Get, Store, Restart, Tick, lease
  <2>2. holder' = n /\ seenRv[n] = rv /\ pc[n] = "write"
    BY <2>1 DEF Write, Take, Goto, lease
  <2> QED
    BY <2>1, <2>2, LeaseAssumption DEF ReadInv, Expired, TypeOK
<1> QED
  BY <1>1, <1>2, TypeCorrect, ReadStep, PTL DEF Spec, TakenOnlyExpired

\* As long as loops have kept up with the lease, every action keeps what was won.
LEMMA HoldStep == TypeOK /\ ReadInv /\ HoldInv /\ [Next]_vars => HoldInv'
<1> SUFFICES ASSUME TypeOK, ReadInv, HoldInv, [Next]_vars PROVE HoldInv'
  OBVIOUS
<1> USE LeaseAssumption DEF TypeOK, HoldInv, Holds, lease
<1>1. ASSUME NEW n \in Node, Wake(n) PROVE HoldInv'
  BY <1>1 DEF Wake, Goto
<1>2. ASSUME NEW n \in Node, Get(n) PROVE HoldInv'
  BY <1>2 DEF Get, Goto
<1>3. ASSUME NEW n \in Node, Write(n) PROVE HoldInv'
  <2>0. PICK ok \in BOOLEAN : won' = [won EXCEPT ![n] = ok]
    BY <1>3, Zenon DEF Write
  <2>1. CASE seenRv[n] = rv /\ Take(n)
    <3>1. ASSUME NEW m \in Node, m # n, exists, holder = m
          PROVE  renew + Dur < clock
      BY <1>3, <2>1, <3>1 DEF Write, Goto, ReadInv, Expired
    <3>2. ASSUME timely, NEW m \in Node, m # n
          PROVE  ~flag[m] /\ ~(pc[m] = "store" /\ won[m])
      <4>1. CASE flag[m]
        BY <3>1, <3>2, <4>1
      <4>2. CASE pc[m] = "store" /\ won[m]
        BY <3>1, <3>2, <4>2
      <4> QED
        BY <4>1, <4>2
    <3> QED
      BY <1>3, <2>0, <2>1, <3>2 DEF Write, Take, Goto
  <2>2. CASE UNCHANGED lease /\ won' = [won EXCEPT ![n] = FALSE]
    BY <1>3, <2>2 DEF Write, Goto
  <2> QED
    BY <1>3, <2>1, <2>2 DEF Write
<1>4. ASSUME NEW n \in Node, Store(n) PROVE HoldInv'
  BY <1>4 DEF Store, Goto
<1>5. ASSUME NEW n \in Node, Restart(n) PROVE HoldInv'
  BY <1>5 DEF Restart
<1>6. CASE Tick
  <2> SUFFICES ASSUME timely', NEW m \in Node PROVE Holds(m)'
    BY Zenon DEF HoldInv
  <2>1. /\ Holds(m)
        /\ flag[m] => clock < term[m] + Dur
        /\ pc[m] # "sleep" => clock < now[m] + Dur
    BY <1>6, Zenon DEF Tick, HoldInv
  <2>2. clock' = clock + 1 /\ UNCHANGED <<lease, pc, now, won, flag, term>>
    BY <1>6, Zenon DEF Tick
  <2> QED
    BY <2>1, <2>2
<1>7. CASE UNCHANGED vars
  BY <1>7 DEF vars
<1> QED
  BY <1>1, <1>2, <1>3, <1>4, <1>5, <1>6, <1>7 DEF Next

\* As long as loops keep up with the lease, is_leader implies holding the Lease.
THEOREM LeaderHolds == Spec => []LeaderHoldsLease
<1>1. Init => ReadInv /\ VersionInv /\ HoldInv
  BY LeaseAssumption DEF Init, ReadInv, VersionInv, HoldInv, Holds
<1>2. HoldInv => LeaderHoldsLease
  BY DEF HoldInv, Holds, LeaderHoldsLease
<1> QED
  BY <1>1, <1>2, TypeCorrect, ReadStep, HoldStep, PTL DEF Spec
=============================================================================
