----------------------------- MODULE TlsNormalize -----------------------------
(***************************************************************************)
(* Saving a list of TLS entries and restarting: put_config normalises and  *)
(* stores whatever list the admin client puts, and load_or_migrate_config  *)
(* normalises the stored list again at every start.                        *)
(***************************************************************************)
EXTENDS TlsConfigOps

CONSTANTS
    Entries,    \* the entries an admin client may put
    MaxEntries  \* longest list put

ASSUME NormalizeAssumption == MaxEntries \in Nat

VARIABLES
    put,    \* the list in the request
    stored, \* the list in the database
    saved   \* whether the request has been handled

normalizeVars == <<put, stored, saved>>

InitNormalize ==
    /\ put \in SeqOf(Entries, MaxEntries)
    /\ stored = <<>>
    /\ saved = FALSE

Save ==
    /\ ~saved
    /\ stored' = NormalizeTls(put)
    /\ saved' = TRUE
    /\ UNCHANGED put

Restart ==
    /\ saved
    /\ stored' = NormalizeTls(stored)
    /\ UNCHANGED <<put, saved>>

NextNormalize == Save \/ Restart

NormalizeSpec == InitNormalize /\ [][NextNormalize]_normalizeVars

HostsFor(tls, s) == UNION {HostSet(tls[i]) : i \in {j \in DOMAIN tls : tls[j].src = s}}

\* Normalising loses no host and gives none to another source: for every source
\* the stored list covers exactly the hosts that were put for it, less the ones
\* the CA would refuse (normalize_tls_config merges, filters and drops entries).
\* No two stored entries name the same certificate file, and none is left
\* without hosts.
HostsKept ==
    \A s \in {e.src : e \in Entries} :
        HostsFor(stored, s) =
            HostsFor(put, s) \ (IF s.kind = "acme" THEN InvalidIds ELSE {})
FilesDistinct ==
    /\ \A i, j \in DOMAIN stored :
          (i # j /\ stored[i].src = stored[j].src) => stored[i].src.kind # "file"
    /\ \A i \in DOMAIN stored : stored[i].hosts # <<>>

\* Saving and every restart keep the hosts and the files apart, and restarting
\* over and over settles: a pass that changes the stored list at all leaves fewer
\* entries, so the "normalized duplicate TLS entries" write of
\* load_or_migrate_config cannot repeat for ever.
NormalizeSettles ==
    [][/\ HostsKept' /\ FilesDistinct'
       /\ saved => stored' = stored \/ Len(stored') < Len(stored)]_normalizeVars
=============================================================================
