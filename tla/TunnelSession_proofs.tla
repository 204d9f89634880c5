------------------------- MODULE TunnelSession_proofs -------------------------
(***************************************************************************)
(* For every set of connections, addresses, names and forwards: the type   *)
(* invariant and ForwardsAreGranted unconditionally; and, as long as no    *)
(* address is reused while its old handler runs, ReadyClientIsActive and   *)
(* the refinement of TunnelSlot.                                           *)
(***************************************************************************)
EXTENDS TunnelSession, TLAPS

\* How far a handler got: the names are set exactly by an accepted hello, and
\* the slot is held by a connection whose handler installed it and has not
\* cleaned up.
Progress ==
    /\ \A c \in Conn : names[c] \subseteq Allow
    /\ \A c \in Conn : hpc[c] \in {"none", "hello", "reject"} => names[c] = {}
    /\ \A c \in Conn :
          hpc[c] \in {"install", "reply", "serve", "cleanup", "aborted"} => names[c] # {}
    /\ slot # NoConn => hpc[slot] \in {"reply", "serve", "cleanup", "aborted"}

\* Handlers that are still running have addresses of their own, and an open
\* connection past Install that has not ended is the one in the slot.
Exclusive ==
    /\ \A c, d \in Conn :
          (c # d /\ hpc[c] \in Running /\ hpc[d] \in Running) => addr[c] # addr[d]
    /\ \A c \in Conn : (hpc[c] \in {"reply", "serve"} /\ srv[c] = "open") => slot = c

\* The program starts in a well-typed state and every step keeps it so.
THEOREM TypeCorrect == Spec => []TypeOK
<1>1. Init => TypeOK
  BY TunnelAssumption DEF Init, TypeOK, HandlerState
<1>2. TypeOK /\ [Next]_vars => TypeOK'
  <2> SUFFICES ASSUME TypeOK, [Next]_vars PROVE TypeOK'
    OBVIOUS
  <2> USE TunnelAssumption DEF TypeOK, HandlerState, Running
  <2>1. ASSUME NEW c \in Conn, Connect(c) PROVE TypeOK'
    BY <2>1 DEF Connect
  <2>2. ASSUME NEW c \in Conn, HandlerStep(c) PROVE TypeOK'
    <3>1. CASE ReadHello(c) BY <3>1 DEF ReadHello
    <3>2. CASE HelloFails(c) BY <3>2 DEF HelloFails
    <3>3. CASE Reject(c) BY <3>3 DEF Reject
    <3>4. CASE Install(c) BY <3>4 DEF Install
    <3>5. CASE Reply(c) BY <3>5 DEF Reply
    <3>6. CASE SessionEnds(c) BY <3>6 DEF SessionEnds
    <3>7. CASE Cleanup(c) BY <3>7 DEF Cleanup
    <3> QED BY <2>2, <3>1, <3>2, <3>3, <3>4, <3>5, <3>6, <3>7 DEF HandlerStep
  <2>3. ASSUME NEW c \in Conn, Lost(c) \/ ClientGone(c) \/ IdleTimeout(c) \/ ClientReady(c)
        PROVE TypeOK'
    BY <2>3 DEF Lost, ClientGone, IdleTimeout, ClientReady
  <2>4. ASSUME NEW f \in Fwd, ForwardAccept(f) PROVE TypeOK'
    BY <2>4 DEF ForwardAccept
  <2>5. ASSUME NEW f \in Fwd, ForwardOpen(f) PROVE TypeOK'
    BY <2>5 DEF ForwardOpen
  <2>6. ASSUME NEW f \in Fwd, ForwardEnd(f) PROVE TypeOK'
    BY <2>6 DEF ForwardEnd
  <2>7. CASE UNCHANGED vars
    BY <2>7 DEF vars
  <2> QED BY <2>1, <2>2, <2>3, <2>4, <2>5, <2>6, <2>7 DEF Next
<1> QED BY <1>1, <1>2, PTL DEF Spec

\* Progress is kept by every step.
LEMMA ProgressStep == TypeOK /\ Progress /\ [Next]_vars => Progress'
<1> SUFFICES ASSUME TypeOK, Progress, [Next]_vars PROVE Progress'
  OBVIOUS
<1> USE TunnelAssumption DEF TypeOK, Progress, HandlerState, Running
<1>1. ASSUME NEW c \in Conn, Connect(c) PROVE Progress'
  BY <1>1 DEF Connect
<1>2. ASSUME NEW c \in Conn, HandlerStep(c) PROVE Progress'
  <2>1. CASE ReadHello(c) BY <2>1 DEF ReadHello
  <2>2. CASE HelloFails(c) BY <2>2 DEF HelloFails
  <2>3. CASE Reject(c) BY <2>3 DEF Reject
  <2>4. CASE Install(c) BY <2>4 DEF Install
  <2>5. CASE Reply(c) BY <2>5 DEF Reply
  <2>6. CASE SessionEnds(c) BY <2>6 DEF SessionEnds
  <2>7. CASE Cleanup(c) BY <2>7 DEF Cleanup
  <2> QED BY <1>2, <2>1, <2>2, <2>3, <2>4, <2>5, <2>6, <2>7 DEF HandlerStep
<1>3. ASSUME NEW c \in Conn, Lost(c) \/ ClientGone(c) \/ IdleTimeout(c) \/ ClientReady(c)
      PROVE Progress'
  BY <1>3 DEF Lost, ClientGone, IdleTimeout, ClientReady
<1>4. ASSUME NEW f \in Fwd, ForwardAccept(f) \/ ForwardOpen(f) \/ ForwardEnd(f)
      PROVE Progress'
  BY <1>4 DEF ForwardAccept, ForwardOpen, ForwardEnd
<1>5. CASE UNCHANGED vars
  BY <1>5 DEF vars
<1> QED BY <1>1, <1>2, <1>3, <1>4, <1>5 DEF Next

\* Progress is an invariant.
LEMMA ProgressInvariant == Spec => []Progress
<1>1. Init => Progress
  BY TunnelAssumption DEF Init, Progress
<1> QED BY <1>1, TypeCorrect, ProgressStep, PTL DEF Spec

\* Traffic is forwarded only to a client that was granted its tunnel: what
\* forward_accepted checked under the read lock stays true of the connection
\* it cloned, whatever happens to the slot.
THEOREM ForwardsGranted == Spec => []ForwardsAreGranted
<1> DEFINE Inv == ForwardsAreGranted /\ \A f \in Fwd : fpc[f] \in {"opening", "piping"} => fconn[f] \in Conn
<1>1. Init => Inv
  BY DEF Init, ForwardsAreGranted
<1>2. TypeOK /\ Progress /\ Inv /\ [Next]_vars => Inv'
  <2> SUFFICES ASSUME TypeOK, Progress, Inv, [Next]_vars PROVE Inv'
    OBVIOUS
  <2> USE TunnelAssumption DEF TypeOK, ForwardsAreGranted, HandlerState, Running
  <2>1. ASSUME NEW c \in Conn, Connect(c) PROVE Inv'
    BY <2>1 DEF Connect
  <2>2. ASSUME NEW c \in Conn, HandlerStep(c) PROVE Inv'
    <3>1. CASE ReadHello(c) BY <3>1 DEF ReadHello
    <3>2. CASE HelloFails(c) BY <3>2 DEF HelloFails
    <3>3. CASE Reject(c) BY <3>3 DEF Reject
    <3>4. CASE Install(c) BY <3>4 DEF Install
    <3>5. CASE Reply(c) BY <3>5 DEF Reply
    <3>6. CASE SessionEnds(c) BY <3>6 DEF SessionEnds
    <3>7. CASE Cleanup(c) BY <3>7 DEF Cleanup
    <3> QED BY <2>2, <3>1, <3>2, <3>3, <3>4, <3>5, <3>6, <3>7 DEF HandlerStep
  <2>3. ASSUME NEW c \in Conn, Lost(c) \/ ClientGone(c) \/ IdleTimeout(c) \/ ClientReady(c)
        PROVE Inv'
    BY <2>3 DEF Lost, ClientGone, IdleTimeout, ClientReady
  <2>4. ASSUME NEW f \in Fwd, ForwardAccept(f) PROVE Inv'
    BY <2>4 DEF ForwardAccept, Progress
  <2>5. ASSUME NEW f \in Fwd, ForwardOpen(f) PROVE Inv'
    BY <2>5 DEF ForwardOpen
  <2>6. ASSUME NEW f \in Fwd, ForwardEnd(f) PROVE Inv'
    BY <2>6 DEF ForwardEnd
  <2>7. CASE UNCHANGED vars
    BY <2>7 DEF vars
  <2> QED BY <2>1, <2>2, <2>3, <2>4, <2>5, <2>6, <2>7 DEF Next
<1>3. Inv => ForwardsAreGranted
  OBVIOUS
<1> QED BY <1>1, <1>2, <1>3, TypeCorrect, ProgressInvariant, PTL DEF Spec

\* With an address per running handler, cleanup cannot hit another live
\* session: Exclusive is kept by every step.
LEMMA ExclusiveStep ==
    ASSUME ~AddrReuse
    PROVE  TypeOK /\ Progress /\ Exclusive /\ [Next]_vars => Exclusive'
<1> SUFFICES ASSUME TypeOK, Progress, Exclusive, [Next]_vars PROVE Exclusive'
  OBVIOUS
<1> USE TunnelAssumption DEF TypeOK, Exclusive, HandlerState, Running
<1>1. ASSUME NEW c \in Conn, Connect(c) PROVE Exclusive'
  BY <1>1 DEF Connect
<1>2. ASSUME NEW c \in Conn, HandlerStep(c) PROVE Exclusive'
  <2>1. CASE ReadHello(c) BY <2>1 DEF ReadHello
  <2>2. CASE HelloFails(c) BY <2>2 DEF HelloFails
  <2>3. CASE Reject(c) BY <2>3 DEF Reject
  <2>4. CASE Install(c) BY <2>4 DEF Install
  <2>5. CASE Reply(c) BY <2>5 DEF Reply
  <2>6. CASE SessionEnds(c) BY <2>6 DEF SessionEnds
  <2>7. CASE Cleanup(c)
    <3>1. slot # NoConn /\ addr[slot] = addr[c] => slot = c \/ hpc[slot] = "aborted"
      BY <2>7 DEF Cleanup, Progress
    <3> QED BY <2>7, <3>1 DEF Cleanup
  <2> QED BY <1>2, <2>1, <2>2, <2>3, <2>4, <2>5, <2>6, <2>7 DEF HandlerStep
<1>3. ASSUME NEW c \in Conn, Lost(c) \/ ClientGone(c) \/ IdleTimeout(c) \/ ClientReady(c)
      PROVE Exclusive'
  BY <1>3 DEF Lost, ClientGone, IdleTimeout, ClientReady
<1>4. ASSUME NEW f \in Fwd, ForwardAccept(f) \/ ForwardOpen(f) PROVE Exclusive'
  BY <1>4 DEF ForwardAccept, ForwardOpen
<1>5. ASSUME NEW f \in Fwd, ForwardEnd(f) PROVE Exclusive'
  BY <1>5 DEF ForwardEnd
<1>6. CASE UNCHANGED vars
  BY <1>6 DEF vars
<1> QED BY <1>1, <1>2, <1>3, <1>4, <1>5, <1>6 DEF Next

\* Exclusive is an invariant when no address is reused too early.
LEMMA ExclusiveInvariant ==
    ASSUME ~AddrReuse
    PROVE  Spec => []Exclusive
<1>1. Init => Exclusive
  BY DEF Init, Exclusive, Running
<1> QED BY <1>1, TypeCorrect, ProgressInvariant, ExclusiveStep, PTL DEF Spec

\* A ready client with an open, served connection is the active one.
THEOREM ReadyIsActive ==
    ASSUME ~AddrReuse
    PROVE  Spec => []ReadyClientIsActive
<1>1. Exclusive => ReadyClientIsActive
  BY DEF Exclusive, ReadyClientIsActive
<1> QED BY <1>1, ExclusiveInvariant, PTL

\* The server implements TunnelSlot.
THEOREM ImplementsSlot ==
    ASSUME ~AddrReuse
    PROVE  Spec => SlotRefinement
<1>1. Init => Slot!Init
  BY DEF Init, Slot!Init, Installed
<1>2. TypeOK /\ Progress /\ Exclusive /\ [Next]_vars => [Slot!Next]_Slot!vars
  <2> SUFFICES ASSUME TypeOK, Progress, Exclusive, [Next]_vars
               PROVE  Slot!Next \/ UNCHANGED Slot!vars
    OBVIOUS
  <2> USE TunnelAssumption DEF TypeOK, Progress, HandlerState, Running, Installed
  <2>1. ASSUME NEW c \in Conn, Connect(c) PROVE UNCHANGED Slot!vars
    BY <2>1 DEF Connect, Slot!vars
  <2>2. ASSUME NEW c \in Conn, HandlerStep(c) PROVE Slot!Next \/ UNCHANGED Slot!vars
    <3>1. CASE ReadHello(c) BY <3>1 DEF ReadHello, Slot!vars
    <3>2. CASE HelloFails(c) BY <3>2 DEF HelloFails, Slot!vars
    <3>3. CASE Reject(c) BY <3>3 DEF Reject, Slot!vars
    <3>4. CASE Install(c)
      <4>1. Slot!Take(c)
        BY <3>4 DEF Install, Slot!Take
      <4> QED BY <4>1 DEF Slot!Next
    <3>5. CASE Reply(c)
      <4>1. CASE srv[c] = "open" BY <3>5, <4>1 DEF Reply, Slot!vars
      <4>2. CASE srv[c] # "open"
        <5>1. Slot!End(c)
          BY <3>5, <4>2 DEF Reply, Slot!End
        <5> QED BY <5>1 DEF Slot!Next
      <4> QED BY <4>1, <4>2
    <3>6. CASE SessionEnds(c)
      <4>1. Slot!End(c)
        BY <3>6 DEF SessionEnds, Slot!End
      <4> QED BY <4>1 DEF Slot!Next
    <3>7. CASE Cleanup(c)
      <4>1. CASE slot # NoConn /\ addr[slot] = addr[c]
        <5>1. slot = c \/ hpc[slot] = "aborted"
          BY <3>7, <4>1 DEF Cleanup, Exclusive
        <5>2. Slot!Leave
          BY <3>7, <4>1, <5>1 DEF Cleanup, Slot!Leave
        <5> QED BY <5>2 DEF Slot!Next
      <4>2. CASE ~(slot # NoConn /\ addr[slot] = addr[c])
        BY <3>7, <4>2 DEF Cleanup, Slot!vars
      <4> QED BY <4>1, <4>2
    <3> QED BY <2>2, <3>1, <3>2, <3>3, <3>4, <3>5, <3>6, <3>7 DEF HandlerStep
  <2>3. ASSUME NEW c \in Conn, Lost(c) \/ ClientGone(c) \/ IdleTimeout(c) \/ ClientReady(c)
        PROVE UNCHANGED Slot!vars
    BY <2>3 DEF Lost, ClientGone, IdleTimeout, ClientReady, Slot!vars
  <2>4. ASSUME NEW f \in Fwd, ForwardAccept(f) \/ ForwardOpen(f) \/ ForwardEnd(f)
        PROVE UNCHANGED Slot!vars
    BY <2>4 DEF ForwardAccept, ForwardOpen, ForwardEnd, Slot!vars
  <2>5. CASE UNCHANGED vars
    BY <2>5 DEF vars, Slot!vars
  <2> QED BY <2>1, <2>2, <2>3, <2>4, <2>5 DEF Next
<1> QED BY <1>1, <1>2, TypeCorrect, ProgressInvariant, ExclusiveInvariant, PTL
        DEF Spec, Slot!Spec, SlotRefinement
=============================================================================
