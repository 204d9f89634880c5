------------------------------ MODULE LiveStream ------------------------------
(***************************************************************************)
(* The event streams of the admin API (api/ws.rs, live_sse_handler) and    *)
(* the admin UI's client for them (admin/src/api/live.ts).  The server     *)
(* counts its live connections against a limit; a stream's task ends, and  *)
(* gives its slot back, only when it has something to send and finds the   *)
(* client gone.  The UI keeps one stream for all channels its pages ask    *)
(* for and opens a new one whenever channels or filter change.             *)
(***************************************************************************)
EXTENDS Naturals, FiniteSets

CONSTANTS
    Feed,      \* channels; "logs" is the one with a filter
    Moving,    \* channels whose payload changes all the time (uptime, counters)
    Stream,    \* identities for streams, used again when free
    MaxLive,   \* MAX_LIVE_CONNECTIONS
    MaxRef,    \* bound on subscribers of one channel
    MaxPages,  \* bound on what the pages do
    MaxBreaks  \* bound on broken transports, bare requests and changes of data

ASSUME StreamAssumption ==
    /\ "logs" \in Feed /\ Moving \subseteq Feed /\ IsFiniteSet(Stream)
    /\ MaxLive \in Nat \ {0} /\ MaxRef \in Nat /\ MaxPages \in Nat /\ MaxBreaks \in Nat

NoStream == "no stream"
NoPayload == <<"none", 0>>
Tasks == {"streaming", "gone"}

VARIABLES
    shown,                 \* what a snapshot of a channel shows
    live,                  \* LIVE_CONNECTIONS
    stream, feeds, streamFilter, sent, \* a stream: state, channels, filter, last_payload
    pageRefs, uiFilter, es, key, timer,    \* LiveClient: refCounts, logsFilter, es, connectedKey, reconnectTimer
    screen,                \* what the pages show
    pages, breaks          \* steps of the pages and disturbances so far

server == <<live, stream, feeds, streamFilter, sent>>
client == <<pageRefs, uiFilter, es, key, timer>>
streamVars == <<shown, server, client, screen, pages, breaks>>

WantedBy(rs) == {ch \in Feed : rs[ch] > 0}
Payload(ch, f) == <<shown[ch], IF ch = "logs" THEN f ELSE 0>>
Free == {c \in Stream : stream[c] = "free"}
Fresh == CHOOSE c \in Free : TRUE

InitStream ==
    /\ shown = [ch \in Feed |-> "a"]
    /\ live = 0
    /\ stream = [c \in Stream |-> "free"]
    /\ feeds = [c \in Stream |-> {}]
    /\ streamFilter = [c \in Stream |-> 0]
    /\ sent = [c \in Stream |-> [ch \in Feed |-> NoPayload]]
    /\ pageRefs = [ch \in Feed |-> 0]
    /\ uiFilter = 0 /\ es = NoStream /\ key = <<{}, 0>> /\ timer = FALSE
    /\ screen = [ch \in Feed |-> NoPayload]
    /\ pages = 0 /\ breaks = 0
-----------------------------------------------------------------------------
(* The client.  Opening a stream closes the one before it.                 *)

\* What becomes of a stream the client closes: a request under way is still served.
Abandoned(c) == IF c # NoStream /\ stream[c] \in {"streaming", "refused"}
                THEN [stream EXCEPT ![c] = IF @ = "streaming" THEN "gone" ELSE "free"]
                ELSE stream

Open(chs, f) ==
    /\ Free # {}
    /\ es' = Fresh
    /\ key' = <<chs, f>>
    /\ stream' = [Abandoned(es) EXCEPT ![Fresh] = "asked"]
    /\ feeds' = [feeds EXCEPT ![Fresh] = chs]
    /\ streamFilter' = [streamFilter EXCEPT ![Fresh] = f]
    /\ sent' = [sent EXCEPT ![Fresh] = [ch \in Feed |-> NoPayload]]
    /\ timer' = FALSE

Close ==
    /\ es' = NoStream /\ key' = <<{}, 0>> /\ timer' = FALSE
    /\ stream' = Abandoned(es)
    /\ UNCHANGED <<feeds, streamFilter, sent>>

\* syncConnection: nothing to do when the open stream is already the right one.
Sync(force, rs, f) ==
    IF WantedBy(rs) = {} THEN Close
    ELSE IF ~force /\ es # NoStream /\ key = <<WantedBy(rs), f>>
    THEN UNCHANGED <<es, key, timer, stream, feeds, streamFilter, sent>>
    ELSE Open(WantedBy(rs), f)

Page == pages < MaxPages /\ pages' = pages + 1

SubscribePage(ch) ==
    /\ Page /\ pageRefs[ch] < MaxRef
    /\ pageRefs' = [pageRefs EXCEPT ![ch] = @ + 1]
    /\ Sync(FALSE, pageRefs', uiFilter)
    /\ UNCHANGED <<shown, live, uiFilter, screen, breaks>>

UnsubscribePage(ch) ==
    /\ Page /\ pageRefs[ch] > 0
    /\ pageRefs' = [pageRefs EXCEPT ![ch] = @ - 1]
    /\ Sync(FALSE, pageRefs', uiFilter)
    /\ UNCHANGED <<shown, live, uiFilter, screen, breaks>>

SetLogsFilter ==
    /\ Page
    /\ uiFilter' = 1 - uiFilter
    /\ IF pageRefs["logs"] > 0 THEN Sync(TRUE, pageRefs, uiFilter')
       ELSE UNCHANGED <<es, key, timer, stream, feeds, streamFilter, sent>>
    /\ UNCHANGED <<shown, live, pageRefs, screen, breaks>>

OnError ==
    /\ es # NoStream /\ stream[es] = "refused"
    /\ stream' = [stream EXCEPT ![es] = "free"]
    /\ es' = NoStream
    /\ timer' = (WantedBy(pageRefs) # {})
    /\ UNCHANGED <<shown, live, feeds, streamFilter, sent, pageRefs, uiFilter, key, screen, pages, breaks>>

Reconnect ==
    /\ timer
    /\ Sync(TRUE, pageRefs, uiFilter)
    /\ UNCHANGED <<shown, live, pageRefs, uiFilter, screen, pages, breaks>>

\* The transport breaks: the browser itself asks again for the same address.
Break ==
    /\ breaks < MaxBreaks /\ breaks' = breaks + 1
    /\ es # NoStream /\ stream[es] = "streaming"
    /\ Open(key[1], key[2])
    /\ UNCHANGED <<shown, live, pageRefs, uiFilter, screen, pages>>
-----------------------------------------------------------------------------
(* The server.                                                             *)

\* A request without channels, from elsewhere.
BareRequest ==
    /\ breaks < MaxBreaks /\ breaks' = breaks + 1
    /\ \E c \in Free : /\ stream' = [stream EXCEPT ![c] = "asked"]
                       /\ feeds' = [feeds EXCEPT ![c] = {}]
    /\ UNCHANGED <<shown, live, streamFilter, sent, client, screen, pages>>

\* acquire_live_slot counts first and looks at the limit then.
Acquire(c) ==
    /\ stream[c] = "asked"
    /\ live' = live + 1
    /\ stream' = [stream EXCEPT ![c] =
          IF live >= MaxLive \/ feeds[c] = {} THEN "over" ELSE IF es = c THEN "streaming" ELSE "gone"]
    /\ UNCHANGED <<shown, feeds, streamFilter, sent, client, screen, pages, breaks>>

\* A request without channels keeps what it has counted.
RefuseOverLimit(c) ==
    /\ stream[c] = "over"
    /\ live' = IF feeds[c] = {} THEN live ELSE live - 1
    /\ stream' = [stream EXCEPT ![c] = IF es = c THEN "refused" ELSE "free"]
    /\ UNCHANGED <<shown, feeds, streamFilter, sent, client, screen, pages, breaks>>

\* Too many connections, or no channels: the count goes back and the client is refused.
Refuse(c) ==
    /\ stream[c] = "over"
    /\ live' = live - 1
    /\ stream' = [stream EXCEPT ![c] = IF es = c THEN "refused" ELSE "free"]
    /\ UNCHANGED <<shown, feeds, streamFilter, sent, client, screen, pages, breaks>>

PushIf(c, ch, due) ==
    /\ stream[c] \in Tasks /\ ch \in feeds[c]
    /\ due
    /\ IF stream[c] = "gone"
       THEN /\ stream' = [stream EXCEPT ![c] = "free"]
            /\ live' = live - 1
            /\ sent' = [sent EXCEPT ![c] = [d \in Feed |-> NoPayload]]
            /\ UNCHANGED screen
       ELSE /\ sent' = [sent EXCEPT ![c][ch] = Payload(ch, streamFilter[c])]
            /\ screen' = [screen EXCEPT ![ch] = Payload(ch, streamFilter[c])]
            /\ UNCHANGED <<stream, live>>
    /\ UNCHANGED <<shown, feeds, streamFilter, client, pages, breaks>>

\* A channel is sent once.
PushOnce(c, ch) == PushIf(c, ch, sent[c][ch] = NoPayload)

\* The loop of sse_stream for one channel: what has changed is sent, and the page
\* shows it; the task ends when there is no one to send it to.
Push(c, ch) == PushIf(c, ch, ch \in Moving \/ sent[c][ch] # Payload(ch, streamFilter[c]))

ChangeShown(ch) ==
    /\ breaks < MaxBreaks /\ breaks' = breaks + 1
    /\ shown[ch] = "a" /\ shown' = [shown EXCEPT ![ch] = "b"]
    /\ UNCHANGED <<server, client, screen, pages>>

ServerStep(c) == Acquire(c) \/ Refuse(c)

NextStream ==
    \/ \E ch \in Feed : SubscribePage(ch) \/ UnsubscribePage(ch) \/ ChangeShown(ch)
    \/ SetLogsFilter \/ OnError \/ Reconnect \/ Break \/ BareRequest
    \/ \E c \in Stream : ServerStep(c) \/ \E ch \in Feed : Push(c, ch)

StreamSpec == InitStream /\ [][NextStream]_streamVars
-----------------------------------------------------------------------------
(* Properties.                                                             *)

\* LIVE_CONNECTIONS counts the requests being refused and the tasks that run, and
\* more than MaxLive tasks never run.
SlotsExact ==
    /\ live = Cardinality({c \in Stream : stream[c] \in Tasks \cup {"over"}})
    /\ Cardinality({c \in Stream : stream[c] \in Tasks}) <= MaxLive

\* A task whose client is gone and whose channels do not move stays until the data
\* changes.  As long as these leave a slot, every page comes to show the current data.
Stuck == {c \in Stream : stream[c] = "gone" /\ feeds[c] \cap Moving = {}}
PagesConverge ==
    <>[](Cardinality(Stuck) < MaxLive =>
            \A ch \in WantedBy(pageRefs) : screen[ch] = Payload(ch, uiFilter))
=============================================================================
