----------------------------- MODULE TlsConfigOps -----------------------------
(***************************************************************************)
(* The pure operations on Config.tls: normalize_tls_config (run on every   *)
(* save and at startup) and sync_uploaded_cert_tls (run after an upload    *)
(* and once per uploaded row at startup).  An entry is a record            *)
(* [hosts, src]; hosts is a sequence because the code looks for the first  *)
(* wildcard in it; src.kind is the TlsSource variant and src.id everything *)
(* acme_sources_equivalent compares (the file paths, or the ACME account,  *)
(* challenge and DNS provider).  Host names stand for themselves after     *)
(* trimming and lower-casing.                                              *)
(***************************************************************************)
EXTENDS Naturals, Sequences, FiniteSets, SequencesExt

CONSTANTS
    Wildcards,  \* hosts that start with "*."
    InvalidIds  \* hosts is_invalid_acme_identifier rejects

HostSet(entry) == ToSet(entry.hosts)

First(indices) == CHOOSE i \in indices : \A j \in indices : i <= j

SourcesEquivalent(a, b) == a.kind # "k8s" /\ a = b

\* acme_wildcard_host: at most one element, the first wildcard of the entry.
FirstWildcard(entry) ==
    LET at == {i \in DOMAIN entry.hosts : entry.hosts[i] \in Wildcards}
    IN  IF at = {} THEN {} ELSE {entry.hosts[First(at)]}

ShouldMerge(a, b) ==
    /\ SourcesEquivalent(a.src, b.src)
    /\ \/ a.src.kind = "file"
       \/ FirstWildcard(a) # {} /\ FirstWildcard(a) = FirstWildcard(b)
       \/ HostSet(a) \cap HostSet(b) # {}

\* Append the hosts of the second entry that the first does not list.
MergeHosts(hosts, more) ==
    FoldLeft(LAMBDA acc, h : IF h \in ToSet(acc) THEN acc ELSE Append(acc, h), hosts, more)

\* A new entry goes to the front.
AbsorbInFront(merged, entry) ==
    LET at == {i \in DOMAIN merged : ShouldMerge(merged[i], entry)}
    IN  IF at = {}
        THEN <<entry>> \o merged
        ELSE [merged EXCEPT ![First(at)].hosts = MergeHosts(@, entry.hosts)]

\* One turn of the loop: merge into the first entry that should take it, or
\* append.  An entry merged earlier is not looked at again.
AbsorbEntry(merged, entry) ==
    LET at == {i \in DOMAIN merged : ShouldMerge(merged[i], entry)}
    IN  IF at = {}
        THEN Append(merged, entry)
        ELSE [merged EXCEPT ![First(at)].hosts = MergeHosts(@, entry.hosts)]

DropInvalid(entry) ==
    IF entry.src.kind = "acme"
    THEN [entry EXCEPT !.hosts = SelectSeq(@, LAMBDA h : h \notin InvalidIds)]
    ELSE entry

NormalizeTls(tls) ==
    LET merged == FoldLeft(AbsorbEntry, <<>>, tls)
    IN  SelectSeq([i \in DOMAIN merged |-> DropInvalid(merged[i])],
                  LAMBDA e : e.hosts # <<>>)

SameHosts(a, b) ==
    /\ Len(a) = Len(b)
    /\ \A h \in ToSet(a) \cup ToSet(b) :
          Cardinality({i \in DOMAIN a : a[i] = h}) = Cardinality({i \in DOMAIN b : b[i] = h})

\* The uploaded certificate takes over the entry with the same hosts, else the
\* first entry that lists all its hosts, else it gets an entry of its own.
\* uploaded is the sorted host list of the certificate.
SyncUploaded(tls, uploaded, src) ==
    LET same == {i \in DOMAIN tls : SameHosts(tls[i].hosts, uploaded)}
        over == {i \in DOMAIN tls : ToSet(uploaded) \subseteq HostSet(tls[i])}
        at   == IF same # {} THEN same ELSE over
    IN  CASE uploaded = <<>> -> tls
          [] uploaded # <<>> /\ at = {} -> Append(tls, [hosts |-> uploaded, src |-> src])
          [] OTHER -> [tls EXCEPT ![First(at)].src = src]
=============================================================================
