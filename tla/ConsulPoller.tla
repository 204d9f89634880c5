----------------------------- MODULE ConsulPoller -----------------------------
(***************************************************************************)
(* Upstreams found through Consul (edge/mod.rs): a thread asks every five  *)
(* seconds for the passing endpoints of each service the route table       *)
(* names, with the configuration of the table it started the round with,   *)
(* and requests pick from the last answer in turn.  Consul may not answer, *)
(* endpoints come and go, and the table is replaced at any time.           *)
(***************************************************************************)
EXTENDS Naturals, Sequences, FiniteSets, SequencesExt

CONSTANTS
    Service, Endpoint,
    Incomplete,      \* endpoints registered without a port or an address
    MaxRegistry,     \* bound on changes in Consul
    MaxTables,       \* bound on replacements of the route table
    MaxSilences,     \* bound on rounds in which Consul does not answer
    MaxPicks         \* bound of the round-robin counter

ASSUME ConsulAssumption ==
    /\ IsFiniteSet(Endpoint) /\ Incomplete \subseteq Endpoint
    /\ {MaxRegistry, MaxTables, MaxSilences, MaxPicks} \subseteq Nat

VARIABLES
    passing,         \* Consul: passing endpoints of a service
    named,           \* services the current route table names
    consulSet,       \* does its configuration have a consul section?
    endpoints,       \* ConsulState.endpoints
    rr,              \* ConsulState.rr
    round,           \* poller: services left to ask for in this round
    picked,          \* the last pick: service, endpoint
    reported,        \* history: endpoints an answer ever gave for a service
    registryEdits, tableEdits, silences

consulBounds == <<registryEdits, tableEdits, silences>>
consulVars == <<passing, named, consulSet, endpoints, rr, round, picked, reported, consulBounds>>

NoPick == <<>>

InitConsul ==
    /\ passing \in [Service -> SUBSET Endpoint]
    /\ named \in SUBSET Service
    /\ consulSet \in BOOLEAN
    /\ endpoints = [s \in Service |-> <<>>]
    /\ rr = 0
    /\ round = {}
    /\ picked = NoPick
    /\ reported = [s \in Service |-> {}]
    /\ registryEdits = 0 /\ tableEdits = 0 /\ silences = 0

\* Mutant of BeginRound: services with endpoints are not asked for again.
BeginRoundUnknown ==
    /\ round = {} /\ consulSet
    /\ round' = {s \in named : endpoints[s] = <<>>}
    /\ UNCHANGED <<passing, named, consulSet, endpoints, rr, picked, reported, consulBounds>>

\* spawn_consul_poller: a round begins with a snapshot of the table.
BeginRound ==
    /\ round = {} /\ consulSet
    /\ round' = named
    /\ UNCHANGED <<passing, named, consulSet, endpoints, rr, picked, reported, consulBounds>>

\* Mutant of Taken: an answer is taken even when it is empty.
TakenAsIs(old, answer) == answer

\* consul_refresh: an answer without a usable endpoint changes nothing.
Taken(old, answer) == IF answer = <<>> THEN old ELSE answer

Complete(s) == passing[s] \ Incomplete

\* One service of the round: an answer, its entries without port or address
\* left out, or none within two seconds.
AskConsul(s) ==
    /\ s \in round
    /\ round' = round \ {s}
    /\ \E answer \in SetToSeqs(Complete(s)) :
         endpoints' = [endpoints EXCEPT ![s] = Taken(@, answer)]
    /\ reported' = [reported EXCEPT ![s] = @ \cup Complete(s)]
    /\ UNCHANGED <<passing, named, consulSet, rr, picked, consulBounds>>

ConsulSilent(s) ==
    /\ s \in round /\ silences < MaxSilences
    /\ round' = round \ {s}
    /\ silences' = silences + 1
    /\ UNCHANGED <<passing, named, consulSet, endpoints, rr, picked, reported, registryEdits, tableEdits>>

\* consul_pick: the counter is shared by all services; without endpoints the
\* request is answered 503 and the counter stays.
ConsulPick(s) ==
    /\ s \in named /\ endpoints[s] # <<>> /\ rr < MaxPicks
    /\ picked' = <<s, endpoints[s][(rr % Len(endpoints[s])) + 1]>>
    /\ rr' = rr + 1
    /\ UNCHANGED <<passing, named, consulSet, endpoints, round, reported, consulBounds>>

\* Consul's view of a service changes.
Register(s) ==
    /\ registryEdits < MaxRegistry /\ registryEdits' = registryEdits + 1
    /\ \E eps \in SUBSET Endpoint : passing' = [passing EXCEPT ![s] = eps]
    /\ UNCHANGED <<named, consulSet, endpoints, rr, round, picked, reported, tableEdits, silences>>

\* A configuration is applied.
ReplaceServices ==
    /\ tableEdits < MaxTables /\ tableEdits' = tableEdits + 1
    /\ named' \in SUBSET Service /\ consulSet' \in BOOLEAN
    /\ UNCHANGED <<passing, endpoints, rr, round, picked, reported, registryEdits, silences>>

PollerStep == BeginRound \/ \E s \in Service : AskConsul(s) \/ ConsulSilent(s)

NextConsul ==
    \/ PollerStep
    \/ \E s \in Service : ConsulPick(s) \/ Register(s)
    \/ ReplaceServices

ConsulSpec == InitConsul /\ [][NextConsul]_consulVars
-----------------------------------------------------------------------------
(* Properties.                                                             *)

\* A request is only ever sent to an endpoint that Consul reported as passing
\* for its own service, and a service that had an endpoint once keeps one.
PicksReported ==
    /\ picked # NoPick => picked[2] \in reported[picked[1]]
    /\ \A s \in Service : reported[s] # {} => endpoints[s] # <<>>

\* When Consul's view and the table come to rest, a service the table names is
\* served from exactly the endpoints that pass, if there are any.
EndpointsConverge ==
    \A s \in Service :
        <>[](consulSet /\ s \in named /\ Complete(s) # {}) => <>[](Range(endpoints[s]) = Complete(s))
=============================================================================
