------------------------------ MODULE LiveSocket ------------------------------
(***************************************************************************)
(* One WebSocket of the admin API's live feed (api/ws.rs).  The reader     *)
(* handles the client's messages and pushes what they ask for, the ticker  *)
(* pushes the channels that are due, the writer empties the queue to the   *)
(* client.  Reader and ticker share the connection's state under a lock    *)
(* they give up between reading the filter, taking the snapshot, recording *)
(* the payload and queueing it.                                            *)
(***************************************************************************)
EXTENDS Naturals, Sequences

CONSTANTS
    Channel,    \* channels; "logs" is the one with a filter
    QueueCap,   \* capacity of the queue to the writer
    MaxData,    \* bound on changes, of one channel
    MaxAsks,    \* bound on messages of the client
    MaxFails    \* bound on failing snapshots

ASSUME SocketAssumption ==
    /\ "logs" \in Channel
    /\ QueueCap \in Nat \ {0}
    /\ MaxData \in Nat /\ MaxAsks \in Nat /\ MaxFails \in Nat

PushTask == {"reader", "ticker"}
Nothing == <<>>   \* no payload yet

VARIABLES
    data,                       \* what a snapshot of a channel shows
    sockOpen, chans, logsFilter, lastPayload, \* the connection and its ConnState
    queue, view,                \* messages to the client, and what it shows
    pushTask, due, chan, filterOf, payload, \* a task: control state, channels to push, locals of push_channel
    asks, fails,                \* messages and failed snapshots so far
    crossed                     \* history: a payload was recorded while an older one was not queued yet

conn == <<sockOpen, chans, logsFilter, lastPayload>>
push == <<pushTask, due, chan, filterOf, payload>>
socketVars == <<data, conn, queue, view, push, asks, fails, crossed>>

Snapshot(ch, f) == <<data[ch], IF ch = "logs" THEN f ELSE 0>>
Payloads == {Nothing} \cup ((0..MaxData) \X (0..MaxAsks))

InitSocket ==
    /\ data = [ch \in Channel |-> 0]
    /\ sockOpen = TRUE /\ chans = {} /\ logsFilter = 0
    /\ lastPayload = [ch \in Channel |-> Nothing]
    /\ queue = <<>> /\ view = [ch \in Channel |-> Nothing]
    /\ pushTask = [t \in PushTask |-> "idle"]
    /\ due = [t \in PushTask |-> {}]
    /\ chan = [t \in PushTask |-> "logs"]
    /\ filterOf = [t \in PushTask |-> 0]
    /\ payload = [t \in PushTask |-> Nothing]
    /\ asks = 0 /\ fails = 0 /\ crossed = FALSE

Forgotten(cs) == [ch \in Channel |-> IF ch \in cs THEN Nothing ELSE lastPayload[ch]]
Step(t, from, to) == pushTask[t] = from /\ pushTask' = [pushTask EXCEPT ![t] = to]
Locals(t) == UNCHANGED <<due, chan, filterOf, payload>>
\* push_channel returns.
Returns(t) ==
    /\ chan' = [chan EXCEPT ![t] = "logs"]
    /\ filterOf' = [filterOf EXCEPT ![t] = 0]
    /\ payload' = [payload EXCEPT ![t] = Nothing]
    /\ UNCHANGED due
-----------------------------------------------------------------------------
(* Messages of the client (handle_client_text).                            *)

Ask == sockOpen /\ pushTask["reader"] = "idle" /\ asks < MaxAsks /\ asks' = asks + 1

\* The reader goes on to push the channels.
ReaderPushes(cs) ==
    /\ pushTask' = [pushTask EXCEPT !["reader"] = "push"]
    /\ due' = [due EXCEPT !["reader"] = cs]
    /\ UNCHANGED <<chan, filterOf, payload>>

Subscribe ==
    /\ Ask
    /\ \E cs \in SUBSET Channel \ {{}} :
          /\ chans' = chans \cup cs
          /\ lastPayload' = Forgotten(cs)
          /\ ReaderPushes(cs)
    /\ UNCHANGED <<data, sockOpen, logsFilter, queue, view, fails, crossed>>

Unsubscribe ==
    /\ Ask
    /\ \E ch \in chans : /\ chans' = chans \ {ch}
                         /\ lastPayload' = Forgotten({ch})
    /\ UNCHANGED <<data, sockOpen, logsFilter, queue, view, push, fails, crossed>>

SetFilter ==
    /\ Ask
    /\ logsFilter' = asks'
    /\ lastPayload' = Forgotten({"logs"})
    /\ ReaderPushes({"logs"})
    /\ UNCHANGED <<data, sockOpen, chans, queue, view, fails, crossed>>

\* The client closes: the reader ends the ticker and waits for the writer.
CloseSocket ==
    /\ sockOpen /\ pushTask["reader"] = "idle"
    /\ sockOpen' = FALSE
    /\ pushTask' = [t \in PushTask |-> "idle"]
    /\ due' = [t \in PushTask |-> {}]
    /\ chan' = [t \in PushTask |-> "logs"]
    /\ filterOf' = [t \in PushTask |-> 0]
    /\ payload' = [t \in PushTask |-> Nothing]
    /\ UNCHANGED <<data, chans, logsFilter, lastPayload, queue, view, asks, fails, crossed>>
-----------------------------------------------------------------------------
(* Pushing.                                                                *)

\* A subscribed channel's interval is over (push_due_channels).
Tick(ch) ==
    /\ sockOpen /\ ch \in chans
    /\ Step("ticker", "idle", "push")
    /\ due' = [due EXCEPT !["ticker"] = {ch}]
    /\ UNCHANGED <<data, conn, queue, view, chan, filterOf, payload, asks, fails, crossed>>

\* Take the next channel, if it is still subscribed, and copy the filter.
PushFilter(t) ==
    /\ IF due[t] = {} THEN Step(t, "push", "idle") /\ Locals(t)
       ELSE \E ch \in due[t] :
              /\ due' = [due EXCEPT ![t] = @ \ {ch}]
              /\ IF ch \notin chans THEN Step(t, "push", "push") /\ UNCHANGED <<chan, filterOf>>
                 ELSE /\ Step(t, "push", "snapshot")
                      /\ chan' = [chan EXCEPT ![t] = ch]
                      /\ filterOf' = [filterOf EXCEPT ![t] = logsFilter]
              /\ UNCHANGED payload
    /\ UNCHANGED <<data, conn, queue, view, asks, fails, crossed>>

\* An error is sent as a message without data, and not recorded.
PushSnapshot(t) ==
    /\ \/ /\ Step(t, "snapshot", "record")
          /\ payload' = [payload EXCEPT ![t] = Snapshot(chan[t], filterOf[t])]
          /\ UNCHANGED fails
       \/ /\ Step(t, "snapshot", "send")
          /\ fails < MaxFails /\ fails' = fails + 1
          /\ UNCHANGED payload
    /\ filterOf' = [filterOf EXCEPT ![t] = 0]
    /\ UNCHANGED <<data, conn, queue, view, due, chan, asks, crossed>>

Record(t, skip) ==
    /\ IF skip
       THEN Step(t, "record", "push") /\ Returns(t) /\ UNCHANGED <<lastPayload, crossed>>
       ELSE /\ Step(t, "record", "send")
            /\ lastPayload' = [lastPayload EXCEPT ![chan[t]] = payload[t]]
            /\ crossed' = (\/ crossed
                           \/ \E u \in PushTask \ {t} : /\ pushTask[u] = "send" /\ chan[u] = chan[t]
                                                         /\ payload[u] # Nothing)
            /\ Locals(t)
    /\ UNCHANGED <<data, sockOpen, chans, logsFilter, queue, view, asks, fails>>

\* Whatever was sent once is not sent again.
RecordOnce(t) == Record(t, t = "ticker" /\ lastPayload[chan[t]] # Nothing)

\* The ticker does not send the same again; the reader always sends.
PushRecord(t) == Record(t, t = "ticker" /\ lastPayload[chan[t]] = payload[t])

\* The sender waits for room in the queue.
PushSend(t) ==
    /\ Step(t, "send", "push")
    /\ Len(queue) < QueueCap
    /\ queue' = Append(queue, <<chan[t], payload[t]>>)
    /\ Returns(t)
    /\ UNCHANGED <<data, conn, view, asks, fails, crossed>>

\* The writer sends and the client shows; after an error it shows what it had.
Deliver ==
    /\ queue # <<>>
    /\ queue' = Tail(queue)
    /\ view' = [view EXCEPT ![Head(queue)[1]] = IF Head(queue)[2] = Nothing THEN @ ELSE Head(queue)[2]]
    /\ UNCHANGED <<data, conn, push, asks, fails, crossed>>

\* What the channel is about changes.
ChangeData(ch) ==
    /\ \A c \in Channel \ {ch} : data[c] = 0
    /\ data[ch] < MaxData
    /\ data' = [data EXCEPT ![ch] = @ + 1]
    /\ UNCHANGED <<conn, queue, view, push, asks, fails, crossed>>

PushStep(t) == PushFilter(t) \/ PushSnapshot(t) \/ PushRecord(t) \/ PushSend(t)

NextSocket ==
    \/ Subscribe \/ Unsubscribe \/ SetFilter \/ CloseSocket
    \/ \E ch \in Channel : Tick(ch) \/ ChangeData(ch)
    \/ \E t \in PushTask : PushStep(t)
    \/ Deliver
-----------------------------------------------------------------------------
(* Properties.                                                             *)

\* When data and client settle, the client comes to show the data of every channel
\* it has subscribed to, under the filter it has set.
SocketConverges ==
    <>[](sockOpen /\ ~crossed => \A ch \in chans : view[ch] = Snapshot(ch, logsFilter))
=============================================================================
