------------------------------ MODULE TunnelSlot ------------------------------
(***************************************************************************)
(* What the tunnel server promises about its single client slot            *)
(* (AppState.session), without connections, handlers or locks: a client    *)
(* becomes active at most once; it stops being active only because another *)
(* client takes the slot or because its own session has ended.             *)
(***************************************************************************)
CONSTANTS Conn, NoConn

VARIABLES
    active,     \* the client traffic is sent to
    retired,    \* clients that were active once
    ended       \* clients whose session is over

vars == <<active, retired, ended>>

Init ==
    /\ active = NoConn
    /\ retired = {}
    /\ ended = {}

Take(c) ==
    /\ c \notin retired /\ c # active
    /\ active' = c
    /\ retired' = retired \cup ({active} \ {NoConn})
    /\ UNCHANGED ended

End(c) ==
    /\ c = active \/ c \in retired
    /\ ended' = ended \cup {c}
    /\ UNCHANGED <<active, retired>>

Leave ==
    /\ active # NoConn /\ active \in ended
    /\ active' = NoConn
    /\ retired' = retired \cup {active}
    /\ UNCHANGED ended

Next ==
    \/ \E c \in Conn : Take(c)
    \/ \E c \in Conn : End(c)
    \/ Leave

Spec == Init /\ [][Next]_vars
=============================================================================
