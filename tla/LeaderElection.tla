---------------------------- MODULE LeaderElection ----------------------------
(***************************************************************************)
(* Leader election of the ingress replicas over a Kubernetes Lease         *)
(* (ingress/leader_election.rs).  Every replica repeats: read the clock,   *)
(* get the Lease, create or replace it if it is free, expired or its own,  *)
(* store the outcome in is_leader, sleep.  The API server accepts a        *)
(* replace only with the current resourceVersion; any call may fail, also  *)
(* after it has taken effect.  The replicas' clocks are taken to agree.    *)
(***************************************************************************)
EXTENDS Naturals

CONSTANTS
    Node,      \* replicas, by holder identity
    Dur,       \* lease_duration_seconds
    MaxTime,   \* bound on the clock
    MaxWrites  \* bound on the Lease's resourceVersion

ASSUME LeaseAssumption ==
    /\ Dur \in Nat \ {0}
    /\ MaxTime \in Nat
    /\ MaxWrites \in Nat

VARIABLES
    clock,  \* the time
    exists, holder, renew, rv, \* the Lease: does it exist, and its fields
    pc,     \* control state of a replica's loop
    now,    \* the time its loop has read
    seenRv, \* the resourceVersion of the Lease it got; 0 when there was none
    won,    \* what try_acquire_or_renew returned
    flag,   \* is_leader
    term,   \* the time read by the loop that last set is_leader
    timely  \* so far loops have kept up with the lease: see Tick

lease == <<exists, holder, renew, rv>>
vars == <<clock, lease, pc, now, seenRv, won, flag, term, timely>>

Init ==
    /\ clock = 0
    /\ exists = FALSE /\ holder \in Node /\ renew = 0 /\ rv = 0
    /\ pc = [n \in Node |-> "sleep"]
    /\ now = [n \in Node |-> 0]
    /\ seenRv = [n \in Node |-> 0]
    /\ won = [n \in Node |-> FALSE]
    /\ flag = [n \in Node |-> FALSE]
    /\ term = [n \in Node |-> 0]
    /\ timely = TRUE

Goto(n, from, to) == pc[n] = from /\ pc' = [pc EXCEPT ![n] = to]

\* The sleep is over: the loop reads the clock.
Wake(n) ==
    /\ Goto(n, "sleep", "get")
    /\ now' = [now EXCEPT ![n] = clock]
    /\ UNCHANGED <<clock, lease, seenRv, won, flag, term, timely>>

\* is_expired, by the time read before the call.
Expired(n) == renew + Dur < now[n]

\* get_opt answers.  A Lease that another replica holds and has renewed in time
\* ends the attempt; so does an error, which may happen whatever the Lease says.
Get(n) ==
    /\ \/ /\ exists => Expired(n) \/ holder = n
          /\ Goto(n, "get", "write")
          /\ seenRv' = [seenRv EXCEPT ![n] = rv]
          /\ UNCHANGED won
       \/ /\ Goto(n, "get", "store")
          /\ won' = [won EXCEPT ![n] = FALSE]
          /\ UNCHANGED seenRv
    /\ UNCHANGED <<clock, lease, now, flag, term, timely>>

\* The API server accepts the write: the spec it carries, a new resourceVersion.
Take(n) ==
    /\ rv < MaxWrites
    /\ exists' = TRUE
    /\ holder' = n
    /\ renew' = now[n]
    /\ rv' = rv + 1

\* The replace is sent without the resourceVersion that was read.
WriteUnconditionally(n) ==
    /\ Goto(n, "write", "store")
    /\ Take(n)
    /\ won' = [won EXCEPT ![n] = TRUE]
    /\ UNCHANGED <<clock, now, seenRv, flag, term, timely>>

\* create or replace: 409 when the Lease changed (or came into being) since it
\* was read.  A call that took effect may still be answered with an error.
Write(n) ==
    /\ Goto(n, "write", "store")
    /\ \/ /\ seenRv[n] = rv
          /\ Take(n)
          /\ \E ok \in BOOLEAN : won' = [won EXCEPT ![n] = ok]
       \/ /\ won' = [won EXCEPT ![n] = FALSE]
          /\ UNCHANGED lease
    /\ UNCHANGED <<clock, now, seenRv, flag, term, timely>>

\* A failed attempt leaves the flag as it was.
StoreOnlySuccess(n) ==
    /\ Goto(n, "store", "sleep")
    /\ flag' = [flag EXCEPT ![n] = @ \/ won[n]]
    /\ term' = [term EXCEPT ![n] = now[n]]
    /\ UNCHANGED <<clock, lease, now, seenRv, won, timely>>

Store(n) ==
    /\ Goto(n, "store", "sleep")
    /\ flag' = [flag EXCEPT ![n] = won[n]]
    /\ term' = [term EXCEPT ![n] = now[n]]
    /\ UNCHANGED <<clock, lease, now, seenRv, won, timely>>

\* The container is restarted; the pod, and so the holder identity, stays.
Restart(n) ==
    /\ pc' = [pc EXCEPT ![n] = "sleep"]
    /\ flag' = [flag EXCEPT ![n] = FALSE]
    /\ UNCHANGED <<clock, lease, now, seenRv, won, term, timely>>

\* Time passes.  Loops keep up with the lease when a loop, the calls it makes, its
\* sleep and the loop after it end before the lease they are about runs out: with
\* the default 15 s and 5 s, when the calls take less than 10 s.
Tick ==
    /\ clock < MaxTime
    /\ timely' = (timely /\ \A n \in Node :
                     /\ flag[n] => clock < term[n] + Dur
                     /\ pc[n] # "sleep" => clock < now[n] + Dur)
    /\ clock' = clock + 1
    /\ UNCHANGED <<lease, pc, now, seenRv, won, flag, term>>

Next ==
    \/ \E n \in Node : Wake(n) \/ Get(n) \/ Write(n) \/ Store(n) \/ Restart(n)
    \/ Tick

Spec == Init /\ [][Next]_vars
-----------------------------------------------------------------------------
(* Properties.                                                             *)

\* Every variable has its type, and no replica is ahead of the clock.
TypeOK ==
    /\ clock \in 0..MaxTime
    /\ exists \in BOOLEAN /\ holder \in Node /\ renew \in 0..clock /\ rv \in 0..MaxWrites
    /\ pc \in [Node -> {"sleep", "get", "write", "store"}]
    /\ now \in [Node -> Nat] /\ \A n \in Node : now[n] <= clock
    /\ seenRv \in [Node -> 0..MaxWrites]
    /\ won \in [Node -> BOOLEAN]
    /\ flag \in [Node -> BOOLEAN]
    /\ term \in [Node -> Nat]
    /\ timely \in BOOLEAN

\* As long as loops have kept up with the lease, a replica whose is_leader is set
\* is the holder of the Lease; so there are never two of them.
LeaderHoldsLease == timely => \A n \in Node : flag[n] => exists /\ holder = n

\* The Lease changes hands only when its holder has not renewed it for the whole
\* duration, however late the taker's write arrives after its read.
TakenOnlyExpired ==
    [][exists /\ holder' # holder => renew + Dur < clock]_vars
=============================================================================
