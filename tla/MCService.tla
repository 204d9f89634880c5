------------------------------ MODULE MCService ------------------------------
(* Instances of the components that must not leave anyone waiting: the orders  *)
(* of certificates and the two live feeds of the admin UI.  They share no      *)
(* state; in each behaviour one of them, the focus, runs, and fairness is      *)
(* asked of it alone.  The others rest in a state where there is nothing to    *)
(* do.                                                                         *)
EXTENDS AutoSsl, LiveSocket, LiveStream

VARIABLE focus

(* AutoSsl: an entry for a name, and one for the wildcard above it, which      *)
(* HTTP-01 cannot order.                                                       *)
NameAndStar == {"*", "b"}
Star == {"*"}
StarAboveName == {<<"*", "b">>}
TwoEntries == <<{"b"}, {"*"}>>
OrderableNames == <<{"b"}, {}>>

InitService ==
    /\ focus \in {"autossl", "socket", "stream"}
    /\ Init /\ (focus # "autossl" => rows = {})
    /\ InitSocket /\ InitStream

Still(f) ==
    /\ f # "autossl" => UNCHANGED vars
    /\ f # "socket" => UNCHANGED socketVars
    /\ f # "stream" => UNCHANGED streamVars

NextService ==
    /\ UNCHANGED focus /\ Still(focus)
    /\ \/ focus = "autossl" /\ Next
       \/ focus = "socket" /\ NextSocket
       \/ focus = "stream" /\ NextStream

\* Tasks of the runtime run on, timers come round, the network delivers.
FairService ==
    /\ \A s \in Sweep : WF_vars(focus = "autossl" /\ SweepStep(s))
    /\ \A t \in Task : WF_vars(focus = "autossl" /\ TaskStep(t))
    /\ \A ch \in Channel : SF_socketVars(focus = "socket" /\ Tick(ch))
    /\ \A t \in PushTask : WF_socketVars(focus = "socket" /\ PushStep(t))
    /\ WF_socketVars(focus = "socket" /\ Deliver)
    /\ \A c \in Stream : /\ WF_streamVars(focus = "stream" /\ ServerStep(c))
                         /\ \A ch \in Feed : WF_streamVars(focus = "stream" /\ Push(c, ch))
    /\ WF_streamVars(focus = "stream" /\ OnError)
    /\ WF_streamVars(focus = "stream" /\ Reconnect)

ServiceSpec ==
    /\ InitService
    /\ [][NextService]_<<focus, vars, socketVars, streamVars>>
    /\ FairService
=============================================================================
