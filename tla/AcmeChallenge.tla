---------------------------- MODULE AcmeChallenge ----------------------------
(***************************************************************************)
(* How an ACME order answers its challenges: obtain_certs_sync of          *)
(* tls/acme.rs with the HTTP-01 store and the twelve DNS-01 solvers of     *)
(* tls/dns_01.rs.  Orders for different host lists run at the same time    *)
(* and share the challenge name when one is for a name and the other for   *)
(* its wildcard.  A solver is a short list of calls to the provider's API; *)
(* every call is a step, may be lost on the way (an error for the caller,  *)
(* with or without its effect) or be refused by the provider, which most   *)
(* solvers do not look at.  Names are sequences of labels.                 *)
(***************************************************************************)
EXTENDS Naturals, Sequences, FiniteSetsExt, Functions

CONSTANTS
    Order, Plan,     \* orders; [dns, names] of one: its challenge and domains
    Zone,            \* zones the account may hold
    ChallengeProvider, \* provider types that are configured
    Unrelated,       \* record types of the zone's owner
    MaxApiFaults     \* bound on lost and refused calls

ASSUME ChallengeAssumption ==
    /\ \A o \in Order : Plan[o].dns \in BOOLEAN /\ Len(Plan[o].names) > 0
    /\ "TXT" \notin Unrelated
    /\ MaxApiFaults \in Nat

VARIABLES
    solver, credentialed, \* provider_type; are its credentials complete?
    configured,      \* zone named in the credentials, or NoZone
    held,            \* zones of the account
    dns,             \* records of each zone: [type, name, value]
    served,          \* Http01ChallengeStore: tokens
    at, nth,         \* orders: control state, authorization at hand
    job, records,    \* orders: the solver's zone, calls and record name;
                     \* records read and not yet handled
    apiFaults, hurt, \* calls that failed so far; orders they happened to
    ownerEdit        \* has the owner added a record?

solverVars == <<solver, credentialed, configured, held>>
orderVars == <<at, nth, job, records>>
challengeVars == <<solverVars, dns, served, orderVars, apiFaults, hurt, ownerEdit>>

NoZone == <<>>
AnyName == <<"*">>
NoJob == [zone |-> NoZone, calls |-> "none", name |-> <<>>, refusal |-> FALSE, deletion |-> FALSE]
-----------------------------------------------------------------------------
(* Names and zones.                                                        *)

Domain(o) == Plan[o].names[nth[o]]
Fqdn(o) == <<"_acme-challenge">> \o Domain(o)

Within(name, zone) ==
    Len(zone) <= Len(name) /\ SubSeq(name, Len(name) - Len(zone) + 1, Len(name)) = zone

\* The zones that hold a name: equal to it, or a suffix behind a dot.
OrderedNames == UNION {Range(Plan[o].names) : o \in Order}
Holders == [n \in OrderedNames \cup {<<"_acme-challenge">> \o d : d \in OrderedNames} |->
               {z \in Zone : Within(n, z)}]

\* Mutant of BestZone: the comparison of lengths the other way round.
ShortestZone(name, zones) ==
    LET holding == zones \cap Holders[name]
    IN IF holding = {} THEN NoZone
       ELSE CHOOSE z \in holding : \A y \in holding : Len(z) <= Len(y)

\* best_zone_for_fqdn: the longest of the zones that hold the name.
BestZone(name, zones) ==
    LET holding == zones \cap Holders[name]
    IN IF holding = {} THEN NoZone
       ELSE CHOOSE z \in holding : \A y \in holding : Len(y) <= Len(z)

\* The last two labels of a name, looked up by name in the account.
LastTwo(name) ==
    LET z == IF Len(name) < 2 THEN name ELSE SubSeq(name, Len(name) - 1, Len(name))
    IN IF z \in held THEN z ELSE NoZone

\* relative_record_name: trim_end_matches takes the zone off as often as it fits.
Relative(name, zone) ==
    LET Cut(k) == SubSeq(name, 1, Len(name) - k * Len(zone))
        fits == {k \in 0..(Len(name) \div Len(zone)) : \A i \in 0..(k - 1) : Within(Cut(i), zone) /\ Cut(i + 1) # <<>>}
    IN IF zone \in {name, NoZone} THEN <<>> ELSE Cut(Max(fits))

ConfiguredOr(zone) == IF configured # NoZone THEN configured ELSE zone

(* The solvers: where the zone comes from, the calls that follow, the name *)
(* of the record, and which refusals and lost deletions the solver reports.*)
Cloudflare(o) == [zone |-> ConfiguredOr(LastTwo(Domain(o))), calls |-> "purge",
                  name |-> Fqdn(o), refusal |-> TRUE, deletion |-> TRUE]
DigitalOcean(o) == LET z == BestZone(Domain(o), held) IN
                 [zone |-> z, calls |-> "append", name |-> Relative(Fqdn(o), z) \o z,
                  refusal |-> FALSE, deletion |-> FALSE]
Route53(o) == [zone |-> ConfiguredOr(LastTwo(Fqdn(o))), calls |-> "put",
               name |-> Fqdn(o), refusal |-> TRUE, deletion |-> FALSE]
ByBestZone(o, calls) == LET z == BestZone(Fqdn(o), held) IN
                 [zone |-> z, calls |-> calls, name |-> Relative(Fqdn(o), z) \o z,
                  refusal |-> FALSE, deletion |-> FALSE]
GoDaddy(o) == ByBestZone(o, "put")
Linode(o) == ByBestZone(o, "purge")
Hetzner(o) == ByBestZone(o, "purge")
Ovh(o) == ByBestZone(o, "purge")
Gandi(o) == ByBestZone(o, "put")
DuckDns(o) == [zone |-> configured, calls |-> "put", name |-> AnyName,
               refusal |-> TRUE, deletion |-> FALSE]
Namecheap(o) == [zone |-> configured, calls |-> "rewrite",
                 name |-> Relative(Fqdn(o), configured) \o configured,
                 refusal |-> FALSE, deletion |-> FALSE]
GoogleCloudDns(o) == [zone |-> ConfiguredOr(LastTwo(Fqdn(o))), calls |-> "swap",
                      name |-> Fqdn(o), refusal |-> FALSE, deletion |-> FALSE]
Azure(o) == [zone |-> configured, calls |-> "put",
             name |-> Relative(Fqdn(o), configured) \o configured,
             refusal |-> FALSE, deletion |-> FALSE]

Solver(o) == CASE solver = "cloudflare" -> Cloudflare(o)
               [] solver = "digitalocean" -> DigitalOcean(o)
               [] solver = "route53" -> Route53(o)
               [] solver = "godaddy" -> GoDaddy(o)
               [] solver = "linode" -> Linode(o)
               [] solver = "hetzner" -> Hetzner(o)
               [] solver = "ovh" -> Ovh(o)
               [] solver = "gandi" -> Gandi(o)
               [] solver = "duckdns" -> DuckDns(o)
               [] solver = "namecheap" -> Namecheap(o)
               [] solver = "googleclouddns" -> GoogleCloudDns(o)
               [] solver = "azure" -> Azure(o)

NeedsZoneNamed == {"duckdns", "namecheap", "azure"}
MayNameZone == NeedsZoneNamed \cup {"cloudflare", "route53", "googleclouddns"}
Supported == MayNameZone \cup {"digitalocean", "godaddy", "linode", "hetzner", "ovh", "gandi"}

\* solver_for_provider: the type is known and its credentials are there.
SolverAvailable == solver \in Supported /\ credentialed
-----------------------------------------------------------------------------
Holds(z) == \A o \in Order : Plan[o].dns => \A i \in DOMAIN Plan[o].names : Within(Plan[o].names[i], z)

InitChallenge ==
    /\ solver \in ChallengeProvider
    /\ held \in SUBSET Zone
    /\ credentialed \in BOOLEAN
    /\ ~credentialed => held = Zone
    /\ configured \in {NoZone} \cup {z \in held : Holds(z)}
    /\ configured # NoZone => solver \in MayNameZone
    /\ solver \in NeedsZoneNamed /\ credentialed => configured # NoZone
    /\ dns = [z \in Zone |-> IF z \in held THEN {[type |-> t, name |-> z, value |-> <<>>] : t \in Unrelated}
                             ELSE {}]
    /\ served = {}
    /\ at \in [Order -> {"challenge", "unused"}]
    /\ nth = [o \in Order |-> 1]
    /\ job = [o \in Order |-> NoJob]
    /\ records = [o \in Order |-> {}]
    /\ apiFaults = 0
    /\ hurt = {}
    /\ ownerEdit = FALSE

Proof(o) == <<o, nth[o]>>
Txt(o) == [type |-> "TXT", name |-> job[o].name, value |-> Proof(o)]
TxtAt(z, name) == {r \in dns[z] : r.type = "TXT" /\ r.name = name}

MoveTo(o, place) == at' = [at EXCEPT ![o] = place]
Fine == UNCHANGED <<apiFaults, hurt>>
ApiFault(o) == apiFaults < MaxApiFaults /\ apiFaults' = apiFaults + 1 /\ hurt' = hurt \cup {o}

FirstCall(j) == IF j.calls \in {"append", "put"} THEN "write" ELSE "list"

\* The next authorization of the order, or the end of the loop: the order is
\* finalized and the certificate downloaded, or that fails.
NextAuthorization(o) ==
    \/ /\ nth[o] < Len(Plan[o].names)
       /\ nth' = [nth EXCEPT ![o] = @ + 1] /\ MoveTo(o, "challenge") /\ Fine
    \/ /\ nth[o] = Len(Plan[o].names)
       /\ MoveTo(o, "done") /\ UNCHANGED nth /\ Fine
    \/ /\ nth[o] = Len(Plan[o].names)
       /\ MoveTo(o, "failed") /\ UNCHANGED nth /\ ApiFault(o)

\* HTTP-01: the token is in the store before the CA is asked to look.
SetToken(o) ==
    /\ at[o] = "challenge" /\ ~Plan[o].dns
    /\ served' = served \cup {Proof(o)}
    /\ MoveTo(o, "validate") /\ Fine
    /\ UNCHANGED <<solverVars, dns, nth, job, records, ownerEdit>>

\* GET /.well-known/acme-challenge/{token}, on the proxy and on the admin API.
AnswersToken(o) == Proof(o) \in served

\* The CA asks for the token; it is taken out of the store only on success.
ValidateHttp(o) ==
    /\ at[o] = "validate" /\ ~Plan[o].dns
    /\ \/ /\ AnswersToken(o) /\ NextAuthorization(o)
          /\ served' = served \ {Proof(o)}
       \/ /\ ~AnswersToken(o) /\ MoveTo(o, "failed") /\ Fine /\ UNCHANGED <<served, nth>>
       \/ /\ MoveTo(o, "failed") /\ ApiFault(o) /\ UNCHANGED <<served, nth>>
    /\ UNCHANGED <<solverVars, dns, job, records, ownerEdit>>

\* DNS-01: the account's zones are listed and one is picked.
PickZone(o) ==
    /\ at[o] = "challenge" /\ Plan[o].dns
    /\ \/ /\ SolverAvailable /\ job' = [job EXCEPT ![o] = Solver(o)] /\ Fine
          /\ MoveTo(o, IF job'[o].zone = NoZone THEN "failed" ELSE FirstCall(job'[o]))
       \/ ~SolverAvailable /\ MoveTo(o, "failed") /\ Fine /\ UNCHANGED job
       \/ SolverAvailable /\ MoveTo(o, "failed") /\ ApiFault(o) /\ UNCHANGED job
    /\ UNCHANGED <<solverVars, dns, served, nth, records, ownerEdit>>

\* Mutant of Listing: no look at the type and name of a record.
ListingOfZone(o) == dns[job[o].zone]

\* The records the next calls work on: the TXT records of the name, or, for
\* Namecheap's getHosts, all of the zone.
Listing(o) == IF job[o].calls = "rewrite" THEN dns[job[o].zone]
              ELSE TxtAt(job[o].zone, job[o].name)

\* A refused listing is an answer without records.
ListRecords(o) ==
    /\ at[o] = "list"
    /\ \/ records' = [records EXCEPT ![o] = Listing(o)] /\ MoveTo(o, "write") /\ Fine
       \/ records' = [records EXCEPT ![o] = {}] /\ MoveTo(o, "write") /\ ApiFault(o)
       \/ MoveTo(o, "failed") /\ ApiFault(o) /\ UNCHANGED records
    /\ UNCHANGED <<solverVars, dns, served, nth, job, ownerEdit>>

Erase(o, r) == dns' = [dns EXCEPT ![job[o].zone] = @ \ {r}]

\* The records listed are deleted one by one; only Cloudflare's solver stops
\* at a deletion that is lost.
DeleteRecord(o) ==
    /\ at[o] = "write" /\ job[o].calls = "purge"
    /\ \E r \in records[o] :
         /\ \/ Erase(o, r) /\ Fine /\ UNCHANGED at
            \/ UNCHANGED <<dns, at>> /\ ApiFault(o)
            \/ /\ job[o].deletion /\ MoveTo(o, "failed") /\ ApiFault(o)
               /\ (Erase(o, r) \/ UNCHANGED dns)
         /\ records' = [records EXCEPT ![o] = @ \ {r}]
    /\ UNCHANGED <<solverVars, served, nth, job, ownerEdit>>

\* What the provider does with the writing call.  Google's change names the
\* record set it deletes, and is refused when that is not the current one.
Written(o) ==
    LET z == job[o].zone
        t == Txt(o)
        old == TxtAt(z, t.name)
    IN CASE job[o].calls \in {"append", "purge"} -> dns[z] \cup {t}
         [] job[o].calls = "put" -> (dns[z] \ old) \cup {t}
         [] job[o].calls = "swap" -> (dns[z] \ records[o]) \cup {t}
         [] job[o].calls = "rewrite" ->
              {r \in records[o] : r.type # "TXT" \/ r.name # t.name} \cup {t}

Accepted(o) == job[o].calls = "swap" => records[o] = TxtAt(job[o].zone, Txt(o).name)

WriteRecord(o) ==
    /\ at[o] = "write"
    /\ job[o].calls = "purge" => records[o] = {}
    /\ \/ /\ Accepted(o) /\ MoveTo(o, "validate") /\ Fine
          /\ dns' = [dns EXCEPT ![job[o].zone] = Written(o)]
       \/ ~Accepted(o) /\ MoveTo(o, "validate") /\ Fine /\ UNCHANGED dns
       \/ /\ MoveTo(o, IF job[o].refusal THEN "failed" ELSE "validate")
          /\ ApiFault(o) /\ UNCHANGED dns
       \/ /\ MoveTo(o, "failed") /\ ApiFault(o)
          /\ UNCHANGED dns \/ (Accepted(o) /\ dns' = [dns EXCEPT ![job[o].zone] = Written(o)])
    /\ records' = [records EXCEPT ![o] = {}]
    /\ UNCHANGED <<solverVars, served, nth, job, ownerEdit>>

\* DNS: the zone of the account a resolver ends in, the deepest that holds the
\* name, and the TXT values it finds there.
Authoritative(name) ==
    IF held \cap Holders[name] = {} THEN NoZone
    ELSE CHOOSE z \in held \cap Holders[name] : \A y \in held \cap Holders[name] : Within(z, y)

Visible(name) ==
    {r.value : r \in {q \in UNION {dns[z] : z \in {Authoritative(name)} \ {NoZone}} :
                        q.type = "TXT" /\ q.name \in {name, AnyName}}}

\* After the 45 seconds the CA looks the name up once.
ValidateDns(o) ==
    /\ at[o] = "validate" /\ Plan[o].dns
    /\ \/ Proof(o) \in Visible(Fqdn(o)) /\ NextAuthorization(o)
       \/ Proof(o) \notin Visible(Fqdn(o)) /\ MoveTo(o, "failed") /\ Fine /\ UNCHANGED nth
       \/ MoveTo(o, "failed") /\ ApiFault(o) /\ UNCHANGED nth
    /\ UNCHANGED <<solverVars, dns, served, job, records, ownerEdit>>

\* The owner of the zones adds a record of their own.
OwnerAdds(z) ==
    /\ ~ownerEdit /\ z \in held
    /\ ownerEdit' = TRUE
    /\ dns' = [dns EXCEPT ![z] = @ \cup {[type |-> "CNAME", name |-> z, value |-> <<>>]}]
    /\ UNCHANGED <<solverVars, served, orderVars, apiFaults, hurt>>

OrderStep(o) ==
    \/ SetToken(o) \/ ValidateHttp(o)
    \/ PickZone(o) \/ ListRecords(o) \/ DeleteRecord(o) \/ WriteRecord(o) \/ ValidateDns(o)

NextChallenge == (\E o \in Order : OrderStep(o)) \/ (\E z \in Zone : OwnerAdds(z))
-----------------------------------------------------------------------------
(* Properties.                                                             *)

\* Do the records of o and p replace each other?  Never with DigitalOcean's
\* solver, which only adds; always with DuckDNS, which has one value for all;
\* with Namecheap through the zone both rewrite; else when a name is shared.
Rivals(o, p) ==
    /\ o # p /\ at[p] # "unused" /\ Plan[o].dns /\ Plan[p].dns
    /\ \/ solver \in {"duckdns", "namecheap"}
       \/ /\ solver # "digitalocean"
          /\ \E i \in DOMAIN Plan[o].names, j \in DOMAIN Plan[p].names :
               Plan[o].names[i] = Plan[p].names[j]

\* A zone the solver cannot know to be the wrong one: it was named by the
\* credentials, guessed from two labels, or holds the challenge name alone.
ZoneMissed(o) ==
    \/ Authoritative(Fqdn(o)) = NoZone
    \/ /\ solver \in MayNameZone \cup {"digitalocean"}
       /\ Solver(o).zone # Authoritative(Fqdn(o))

\* relative_record_name takes a zone off twice that the name ends with twice.
ZoneTwice(o) == Within(Fqdn(o), Authoritative(Fqdn(o)) \o Authoritative(Fqdn(o)))

\* An order fails only for a reason: a call of it failed, another order wrote
\* over its record, or the solver could not tell the zone; the choice of the
\* zone, the record's name and the order of deletions and writes give none.
FailureExplained ==
    \A o \in Order : at[o] = "failed" =>
        \/ o \in hurt
        \/ \E p \in Order : Rivals(o, p)
        \/ Plan[o].dns /\ (~SolverAvailable \/ ZoneMissed(o) \/ ZoneTwice(o))

\* Answering a challenge takes no record of the zone's owner away, whatever
\* fails, except through Namecheap's rewriting of the whole zone when its
\* listing was refused or is out of date.
OwnRecordsKept ==
    \A z \in held :
        \/ solver = "namecheap" /\ (apiFaults > 0 \/ ownerEdit)
        \/ \A t \in Unrelated : \E r \in dns[z] : r.type = t
=============================================================================
