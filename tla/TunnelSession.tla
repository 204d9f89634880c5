---------------------------- MODULE TunnelSession ----------------------------
(***************************************************************************)
(* The reverse tunnel (tunnel/server, tunnel/client).  One slot holds the  *)
(* active client's QUIC connection; every incoming connection runs its own *)
(* handle_connection task, every TCP connection accepted on a loopback     *)
(* port runs its own forward_accepted task, and the slot's RwLock is all   *)
(* that orders them.                                                       *)
(*                                                                         *)
(* A connection is an element of Conn and is used once.  srv and cli are   *)
(* the two ends of it: the server learns that a client is gone only by a   *)
(* close or by the idle timeout, the client learns of a close later than   *)
(* the server.  The byte counters behind /status are left out.             *)
(***************************************************************************)
EXTENDS Naturals, FiniteSets

CONSTANTS
    Conn,       \* QUIC connections
    Addr,       \* remote socket addresses, as the server sees them
    Name,       \* tunnel names a client may ask for
    Allow,      \* names in the server's [[tunnels]] allowlist
    Fwd,        \* TCP connections accepted on the loopback ports
    NoConn,     \* the empty slot
    AddrReuse   \* may a new socket get an address whose old handler still runs?

ASSUME TunnelAssumption ==
    /\ NoConn \notin Conn
    /\ Allow \subseteq Name
    /\ AddrReuse \in BOOLEAN

VARIABLES
    srv,    \* server end of a connection
    cli,    \* client end of a connection
    addr,   \* remote_address of a connection
    names,  \* tunnel names granted to a connection
    hpc,    \* control state of its handle_connection task
    slot,   \* AppState.session: the connection of the active client
    fpc,    \* control state of a forward_accepted task
    fconn,  \* the connection it cloned out of the slot
    fname   \* the tunnel it was accepted on

vars == <<srv, cli, addr, names, hpc, slot, fpc, fconn, fname>>

\* Control points of handle_connection before it has returned.
Running == {"hello", "reject", "install", "reply", "serve", "cleanup"}

\* "aborted": returned through the ? on writing HelloOk, without cleanup.
HandlerState == Running \cup {"none", "aborted", "done"}

Init ==
    /\ srv = [c \in Conn |-> "none"]
    /\ cli = [c \in Conn |-> "none"]
    /\ addr \in [Conn -> Addr]
    /\ names = [c \in Conn |-> {}]
    /\ hpc = [c \in Conn |-> "none"]
    /\ slot = NoConn
    /\ fpc = [f \in Fwd |-> "idle"]
    /\ fconn = [f \in Fwd |-> NoConn]
    /\ fname \in [Fwd -> Allow]

-----------------------------------------------------------------------------
(* Who still holds a handle to a connection: quinn closes a connection     *)
(* when the last one is dropped.                                           *)

HeldByForward(c) == \E f \in Fwd : fconn[f] = c /\ fpc[f] \in {"opening", "piping"}

\* run_session: a new endpoint (a fresh local port) and a new connection.
\* Without AddrReuse no running handler has the address; with it, only the
\* sockets that are still open on the client's side keep theirs.
Connect(c) ==
    /\ hpc[c] = "none"
    /\ \A d \in Conn \ {c} :
          /\ cli[d] \in {"hello", "run"} => addr[d] # addr[c]
          /\ (~AddrReuse /\ hpc[d] \in Running) => addr[d] # addr[c]
    /\ srv' = [srv EXCEPT ![c] = "open"]
    /\ cli' = [cli EXCEPT ![c] = "hello"]
    /\ hpc' = [hpc EXCEPT ![c] = "hello"]
    /\ UNCHANGED <<addr, names, slot, fpc, fconn, fname>>

\* The control stream is accepted and the hello read.  A bad token, an
\* unknown name or an empty list rejects the whole hello.
ReadHello(c) ==
    /\ hpc[c] = "hello" /\ srv[c] = "open"
    /\ \E token \in BOOLEAN, wanted \in SUBSET Name :
          IF token /\ wanted \subseteq Allow /\ wanted # {}
          THEN /\ hpc' = [hpc EXCEPT ![c] = "install"]
               /\ names' = [names EXCEPT ![c] = wanted]
          ELSE /\ hpc' = [hpc EXCEPT ![c] = "reject"]
               /\ UNCHANGED names
    /\ UNCHANGED <<srv, cli, addr, slot, fpc, fconn, fname>>

\* accept_bi or read_frame fails, or the first frame is not a hello: the
\* handler returns and its handle, the only one, is dropped.
HelloFails(c) ==
    /\ hpc[c] = "hello"
    /\ hpc' = [hpc EXCEPT ![c] = "done"]
    /\ srv' = [srv EXCEPT ![c] = "closed"]
    /\ UNCHANGED <<cli, addr, names, slot, fpc, fconn, fname>>

\* reject_hello: HelloErr, 200 ms, close.
Reject(c) ==
    /\ hpc[c] = "reject"
    /\ hpc' = [hpc EXCEPT ![c] = "done"]
    /\ srv' = [srv EXCEPT ![c] = "closed"]
    /\ UNCHANGED <<cli, addr, names, slot, fpc, fconn, fname>>

\* The previous client is dropped from the slot but not closed.
InstallWithoutClose(c) ==
    /\ hpc[c] = "install"
    /\ slot' = c
    /\ hpc' = [hpc EXCEPT ![c] = "reply"]
    /\ UNCHANGED <<srv, cli, addr, names, fpc, fconn, fname>>

\* Under the write lock: close the previous client, take the slot.
Install(c) ==
    /\ hpc[c] = "install"
    /\ srv' = [d \in Conn |-> IF d = slot THEN "closed" ELSE srv[d]]
    /\ slot' = c
    /\ hpc' = [hpc EXCEPT ![c] = "reply"]
    /\ UNCHANGED <<cli, addr, names, fpc, fconn, fname>>

\* HelloOk; a write on a closed connection returns from the handler with
\* the slot still taken.
Reply(c) ==
    /\ hpc[c] = "reply"
    /\ hpc' = [hpc EXCEPT ![c] = IF srv[c] = "open" THEN "serve" ELSE "aborted"]
    /\ UNCHANGED <<srv, cli, addr, names, slot, fpc, fconn, fname>>

\* The handler returns from the select! without clearing the slot.
SessionEndsWithoutCleanup(c) ==
    /\ hpc[c] = "serve"
    /\ hpc' = [hpc EXCEPT ![c] = "done"]
    /\ UNCHANGED <<srv, cli, addr, names, slot, fpc, fconn, fname>>

\* select!: the connection is closed, or the control task ends (a second
\* hello, a failed read, a failed Pong).
SessionEnds(c) ==
    /\ hpc[c] = "serve"
    /\ hpc' = [hpc EXCEPT ![c] = "cleanup"]
    /\ UNCHANGED <<srv, cli, addr, names, slot, fpc, fconn, fname>>

\* The slot is cleared whoever is in it.
CleanupAlways(c) ==
    /\ hpc[c] = "cleanup"
    /\ slot' = NoConn
    /\ hpc' = [hpc EXCEPT ![c] = "done"]
    /\ srv' = IF HeldByForward(c) THEN srv ELSE [srv EXCEPT ![c] = "closed"]
    /\ UNCHANGED <<cli, addr, names, fpc, fconn, fname>>

\* Under the write lock: clear the slot if its address is ours, then drop
\* the handler's handle.
Cleanup(c) ==
    /\ hpc[c] = "cleanup"
    /\ slot' = IF slot # NoConn /\ addr[slot] = addr[c] THEN NoConn ELSE slot
    /\ hpc' = [hpc EXCEPT ![c] = "done"]
    /\ srv' = IF HeldByForward(c) THEN srv ELSE [srv EXCEPT ![c] = "closed"]
    /\ UNCHANGED <<cli, addr, names, fpc, fconn, fname>>

-----------------------------------------------------------------------------
(* The transport and the client.                                           *)

\* Packets stop arriving: the server's 120 s idle timeout, at any time.
Lost(c) ==
    /\ srv[c] = "open"
    /\ srv' = [srv EXCEPT ![c] = "closed"]
    /\ UNCHANGED <<cli, addr, names, hpc, slot, fpc, fconn, fname>>

\* The client's process ends or its session does, without telling the server.
ClientGone(c) ==
    /\ cli[c] \in {"hello", "run"}
    /\ cli' = [cli EXCEPT ![c] = "gone"]
    /\ UNCHANGED <<srv, addr, names, hpc, slot, fpc, fconn, fname>>

\* A client that is gone sends no keepalive: the server times it out.
IdleTimeout(c) ==
    /\ cli[c] = "gone" /\ srv[c] = "open"
    /\ srv' = [srv EXCEPT ![c] = "closed"]
    /\ UNCHANGED <<cli, addr, names, hpc, slot, fpc, fconn, fname>>

\* The client reads HelloOk: its tunnels are ready.
ClientReady(c) ==
    /\ cli[c] = "hello" /\ hpc[c] = "serve"
    /\ cli' = [cli EXCEPT ![c] = "run"]
    /\ UNCHANGED <<srv, addr, names, hpc, slot, fpc, fconn, fname>>

-----------------------------------------------------------------------------
(* Forwarding a TCP connection accepted on 127.0.0.1:<remote_port>.        *)

\* Any connected client gets the traffic of any tunnel.
ForwardAcceptAny(f) ==
    /\ fpc[f] = "idle"
    /\ IF slot # NoConn
       THEN /\ fpc' = [fpc EXCEPT ![f] = "opening"]
            /\ fconn' = [fconn EXCEPT ![f] = slot]
       ELSE /\ fpc' = [fpc EXCEPT ![f] = "closed"]
            /\ UNCHANGED fconn
    /\ UNCHANGED <<srv, cli, addr, names, hpc, slot, fname>>

\* The slot is read under the read lock and its connection cloned; without
\* a client, or without this tunnel in its hello, the TCP side is closed.
ForwardAccept(f) ==
    /\ fpc[f] = "idle"
    /\ IF slot # NoConn /\ fname[f] \in names[slot]
       THEN /\ fpc' = [fpc EXCEPT ![f] = "opening"]
            /\ fconn' = [fconn EXCEPT ![f] = slot]
       ELSE /\ fpc' = [fpc EXCEPT ![f] = "closed"]
            /\ UNCHANGED fconn
    /\ UNCHANGED <<srv, cli, addr, names, hpc, slot, fname>>

\* open_bi and the OpenConn frame, after the lock is released.
ForwardOpen(f) ==
    /\ fpc[f] = "opening"
    /\ fpc' = [fpc EXCEPT ![f] = IF srv[fconn[f]] = "open" THEN "piping" ELSE "closed"]
    /\ UNCHANGED <<srv, cli, addr, names, hpc, slot, fconn, fname>>

\* pipe_tcp_quic returns; the last handle may go with it.
ForwardEnd(f) ==
    /\ fpc[f] = "piping"
    /\ fpc' = [fpc EXCEPT ![f] = "closed"]
    /\ LET c == fconn[f]
           held == \/ slot = c
                   \/ hpc[c] \in Running
                   \/ \E g \in Fwd \ {f} : fconn[g] = c /\ fpc[g] \in {"opening", "piping"}
       IN  srv' = IF held THEN srv ELSE [srv EXCEPT ![c] = "closed"]
    /\ UNCHANGED <<cli, addr, names, hpc, slot, fconn, fname>>

HandlerStep(c) ==
    \/ ReadHello(c)
    \/ HelloFails(c)
    \/ Reject(c)
    \/ Install(c)
    \/ Reply(c)
    \/ SessionEnds(c)
    \/ Cleanup(c)

Next ==
    \/ \E c \in Conn : Connect(c)
    \/ \E c \in Conn : HandlerStep(c)
    \/ \E c \in Conn : Lost(c)
    \/ \E c \in Conn : ClientGone(c)
    \/ \E c \in Conn : IdleTimeout(c)
    \/ \E c \in Conn : ClientReady(c)
    \/ \E f \in Fwd : ForwardAccept(f)
    \/ \E f \in Fwd : ForwardOpen(f)
    \/ \E f \in Fwd : ForwardEnd(f)

Spec == Init /\ [][Next]_vars

\* What tokio and quinn guarantee: a task that can run runs, and a peer that
\* is gone is timed out.  SessionEnds is fair only once the connection is
\* closed: nothing obliges a healthy session to end.
Fairness ==
    /\ \A c \in Conn : WF_vars(Reply(c))
    /\ \A c \in Conn : WF_vars(srv[c] = "closed" /\ SessionEnds(c))
    /\ \A c \in Conn : WF_vars(Cleanup(c))
    /\ \A c \in Conn : WF_vars(IdleTimeout(c))

FairSpec == Spec /\ Fairness

-----------------------------------------------------------------------------
(* Properties.                                                             *)

\* Every variable has its type.
TypeOK ==
    /\ srv \in [Conn -> {"none", "open", "closed"}]
    /\ cli \in [Conn -> {"none", "hello", "run", "gone"}]
    /\ addr \in [Conn -> Addr]
    /\ names \in [Conn -> SUBSET Name]
    /\ hpc \in [Conn -> HandlerState]
    /\ slot \in Conn \cup {NoConn}
    /\ fpc \in [Fwd -> {"idle", "opening", "piping", "closed"}]
    /\ fconn \in [Fwd -> Conn \cup {NoConn}]
    /\ fname \in [Fwd -> Allow]

\* A client that has been told HelloOk and whose connection is still open and
\* served is the one in the slot: replacing a client closes it under the same
\* lock, and a handler's cleanup never evicts another client.
ReadyClientIsActive ==
    \A c \in Conn :
        (cli[c] = "run" /\ srv[c] = "open" /\ hpc[c] = "serve") => slot = c

\* Traffic reaches only a client that presented the token and asked for the
\* tunnel it came in on, however the slot changed since forward_accepted read
\* it.
ForwardsAreGranted ==
    \A f \in Fwd : fpc[f] \in {"opening", "piping"} =>
        /\ fname[f] \in names[fconn[f]]
        /\ names[fconn[f]] \subseteq Allow
        /\ hpc[fconn[f]] \notin {"none", "hello", "reject", "install"}

\* The refinement mapping to TunnelSlot: a connection has been active once its
\* hello was accepted and Install has run; its session is over once its handler
\* has left the select!.
Installed(c) == names[c] # {} /\ hpc[c] # "install"

Slot == INSTANCE TunnelSlot WITH
    active  <- slot,
    retired <- {c \in Conn : Installed(c)} \ {slot},
    ended   <- {c \in Conn : Installed(c) /\ hpc[c] \in {"cleanup", "aborted", "done"}}

\* The server implements TunnelSlot: a replaced client never comes back under
\* the same connection, and the slot is emptied only of a client whose own
\* session is over ("Clear session only if we are still the active client").
SlotRefinement == Slot!Spec

\* A client that is gone leaves the slot, unless its handler returned through
\* the failed write of HelloOk: that entry stays until the next client.
GoneClientLeavesSlot ==
    \A c \in Conn : (slot = c /\ cli[c] = "gone") ~> (slot # c \/ hpc[c] = "aborted")
=============================================================================
