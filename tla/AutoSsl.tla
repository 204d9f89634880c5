-------------------------------- MODULE AutoSsl --------------------------------
(***************************************************************************)
(* Auto-SSL: the sweeps that renew, drop and order ACME certificates       *)
(* (spawn_auto_ssl_for_config of api/acme.rs), the obtain tasks they spawn *)
(* and the ACME_INFLIGHT set that keeps one order from being placed twice. *)
(* A sweep works on the configuration it was started with, two sweeps are  *)
(* started at boot and one by every activation of a configuration; nothing *)
(* starts one otherwise.  Every await is a point where others may run.     *)
(***************************************************************************)
EXTENDS Naturals, FiniteSets

CONSTANTS
    Sweep, Boot,       \* sweeps; those started at boot
    MaxEntry,          \* TLS entries are 1..MaxEntry, in the order of config.tls
    Host, Stars,       \* host names; those with a wildcard
    Wild,              \* pairs <<wildcard, host>> of wildcard_covers_host
    HostsOf, OrderOf,  \* hosts of an entry; acme_hosts_for_order of it
    MaxCert,           \* certificates are 1..MaxCert, in the order of created_at
    InitAcme,          \* entries whose source is ACME when the process starts
    MaxUploads,        \* bound on uploads of a certificate
    Aging,             \* certificates that time passes for (bound)
    Errors             \* may database calls and orders fail?

Entry == 1..MaxEntry
CertId == 1..MaxCert
NoCert == 0

ASSUME AutoSslAssumption ==
    /\ MaxEntry \in Nat \ {0}
    /\ MaxCert \in Nat \ {0}
    /\ MaxUploads \in Nat
    /\ Boot \subseteq Sweep
    /\ Wild \subseteq Host \X Host
    /\ HostsOf \in [Entry -> SUBSET Host]
    /\ OrderOf \in [Entry -> SUBSET Host]
    /\ InitAcme \subseteq Entry
    /\ Aging \subseteq CertId
    /\ Errors \in BOOLEAN

VARIABLES
    acme,              \* entries of the running configuration with source ACME
    rows, kind, hosts, age, \* certificates table: ids in it, and columns by id
    store,             \* the certificate a host is served with
    inflight,          \* ACME_INFLIGHT
    pc, conf, list,    \* sweeps: control state, config, cert_rows
    todo, cur, pick,   \* sweeps: entries left, the entry and the row at hand
    task, got          \* obtain tasks, by sweep and entry; the row one has added

db == <<rows, kind, hosts, age>>
sweeps == <<pc, conf, list, todo, cur, pick>>
vars == <<acme, db, store, inflight, sweeps, task, got>>

Task == Sweep \X Entry
Ages == 0..2  \* 0: more than 30 days left; 1: at most 30; 2: none

\* cert_row_covers_tls_hosts: exactly or by a wildcard, for a non-empty want.
HostCovered(have, h) == h \in have \/ \E w \in have : h \notin Stars /\ <<w, h>> \in Wild
Covers(have, want) == want # {} /\ \A h \in want : HostCovered(have, h)

\* acme_cert_is_valid.
Valid(c, want) == kind[c] = "acme" /\ age[c] < 2 /\ Covers(hosts[c], want)

Init ==
    /\ acme = InitAcme
    /\ rows \in {{}, {1}}
    /\ kind = [c \in CertId |-> IF c \in rows THEN "acme" ELSE "none"]
    /\ \E e \in Entry : hosts = [c \in CertId |-> IF c \in rows THEN OrderOf[e] ELSE {}]
    /\ \E a \in Ages : age = [c \in CertId |-> IF c \in rows THEN a ELSE 0]
    /\ store = [h \in Host |-> IF 1 \in rows /\ h \in hosts[1] THEN 1 ELSE NoCert]
    /\ inflight = {}
    /\ pc = [s \in Sweep |-> IF s \in Boot THEN "list" ELSE "idle"]
    /\ conf = [s \in Sweep |-> acme]
    /\ list = [s \in Sweep |-> {}]
    /\ todo = [s \in Sweep |-> {}]
    /\ cur = [s \in Sweep |-> 1]
    /\ pick = [s \in Sweep |-> NoCert]
    /\ task = [t \in Task |-> "idle"]
    /\ got = [t \in Task |-> NoCert]
-----------------------------------------------------------------------------
(* Steps shared by the sweep's phases.                                     *)

First(S) == CHOOSE x \in S : \A y \in S : x <= y
NewestIn(S) == CHOOSE x \in S : \A y \in S : y <= x

Goto(s, from, to) == pc[s] = from /\ pc' = [pc EXCEPT ![s] = to]

\* list_certificates, for a sweep that goes on with it; one that ends keeps no list.
Listed(s, on) == [list EXCEPT ![s] = IF pc'[s] = on THEN rows ELSE {}]

\* delete_certificate, and remove_for_hosts when it says a row was deleted.
Delete(c) ==
    \/ /\ rows' = rows \ {c}
       /\ store' = IF c \in rows
                   THEN [h \in Host |-> IF h \in hosts[c] THEN NoCert ELSE store[h]]
                   ELSE store
    \/ Errors /\ UNCHANGED <<rows, store>>

\* Rows the renewal loop takes: ACME, 30 days or less left, a host in the config.
Expiring(s) ==
    {c \in list[s] : /\ kind[c] = "acme"
                     /\ age[c] > 0
                     /\ \E e \in conf[s] : HostsOf[e] \cap hosts[c] # {}}

\* Rows that cover the order but do not answer for it any more.
Stale(s) ==
    {c \in list[s] : /\ kind[c] = "acme"
                     /\ Covers(hosts[c], OrderOf[cur[s]])
                     /\ ~Valid(c, OrderOf[cur[s]])}

\* has_cert_for_host for the hosts of the entry that row c covers.
Missing(c, e) ==
    {h \in HostsOf[e] \ Stars : /\ HostCovered(hosts[c], h)
                                /\ store[h] = NoCert
                                /\ \A w \in Host : <<w, h>> \in Wild => store[w] = NoCert}
-----------------------------------------------------------------------------
(* The sweep.                                                              *)

\* List the certificates; nothing to do without an ACME entry.
ListRows(s) ==
    /\ \/ conf[s] # {} /\ Goto(s, "list", "renew")
       \/ conf[s] = {} /\ Goto(s, "list", "done")
       \/ Errors /\ Goto(s, "list", "failed")
    /\ list' = Listed(s, "renew")
    /\ UNCHANGED <<acme, db, store, inflight, conf, todo, cur, pick, task, got>>

\* The renewal loop takes every ACME row.
RenewAny(s) ==
    /\ pc[s] = "renew"
    /\ LET acmeRows == {c \in list[s] : kind[c] = "acme"}
       IN /\ acmeRows # {}
          /\ Delete(First(acmeRows))
          /\ list' = [list EXCEPT ![s] = @ \ {First(acmeRows)}]
    /\ UNCHANGED <<acme, kind, hosts, age, inflight, pc, conf, todo, cur, pick, task, got>>

\* The renewal loop deletes a row that expires soon.
Renew(s) ==
    /\ pc[s] = "renew"
    /\ Expiring(s) # {}
    /\ Delete(First(Expiring(s)))
    /\ list' = [list EXCEPT ![s] = @ \ {First(Expiring(s))}]
    /\ UNCHANGED <<acme, kind, hosts, age, inflight, pc, conf, todo, cur, pick, task, got>>

\* The loop is over: list again and start on the entries.
RenewDone(s) ==
    /\ Expiring(s) = {}
    /\ \/ Goto(s, "renew", "entry")
       \/ Errors /\ Goto(s, "renew", "failed")
    /\ list' = Listed(s, "entry")
    /\ todo' = [todo EXCEPT ![s] = conf[s]]
    /\ UNCHANGED <<acme, db, store, inflight, conf, cur, pick, task, got>>

\* Next ACME entry: an uploaded certificate that covers it makes way.
NextEntry(s) ==
    /\ todo[s] # {}
    /\ Goto(s, "entry", "check")
    /\ LET e == First(todo[s])
           uploaded == {c \in list[s] : kind[c] = "uploaded" /\ Covers(hosts[c], HostsOf[e])}
       IN /\ todo' = [todo EXCEPT ![s] = @ \ {e}]
          /\ cur' = [cur EXCEPT ![s] = e]
          /\ IF uploaded # {} THEN Delete(First(uploaded)) ELSE UNCHANGED <<rows, store>>
    /\ UNCHANGED <<acme, kind, hosts, age, inflight, conf, list, pick, task, got>>

\* The first valid row of the list: skip the entry if the hosts that it covers
\* are served, else reload it.  No valid row: go on to order.  No host to order: skip.
Check(s) ==
    /\ LET e == cur[s]
           valid == {c \in list[s] : Valid(c, OrderOf[e])}
       IN \/ OrderOf[e] = {} /\ Goto(s, "check", "entry") /\ UNCHANGED pick
          \/ /\ valid # {}
             /\ Missing(First(valid), e) = {}
             /\ Goto(s, "check", "entry")
             /\ UNCHANGED pick
          \/ /\ valid # {}
             /\ Missing(First(valid), e) # {}
             /\ pick' = [pick EXCEPT ![s] = First(valid)]
             /\ Goto(s, "check", "reload")
          \/ OrderOf[e] # {} /\ valid = {} /\ Goto(s, "check", "drop") /\ UNCHANGED pick
    /\ UNCHANGED <<acme, db, store, inflight, conf, list, todo, cur, task, got>>

\* reload_acme_cert_into_store: fails when the row is gone by now.
Reload(s) ==
    /\ \/ /\ pick[s] \in rows
          /\ Goto(s, "reload", "entry")
          /\ store' = [h \in Host |-> IF h \in HostsOf[cur[s]] /\ HostCovered(hosts[pick[s]], h)
                                      THEN pick[s] ELSE store[h]]
       \/ /\ pick[s] \notin rows \/ Errors
          /\ Goto(s, "reload", "drop")
          /\ UNCHANGED store
    /\ pick' = [pick EXCEPT ![s] = NoCert]
    /\ UNCHANGED <<acme, db, inflight, conf, list, todo, cur, task, got>>

\* Delete a stale row of the order.
DropStale(s) ==
    /\ pc[s] = "drop"
    /\ Stale(s) # {}
    /\ Delete(First(Stale(s)))
    /\ list' = [list EXCEPT ![s] = @ \ {First(Stale(s))}]
    /\ UNCHANGED <<acme, kind, hosts, age, inflight, pc, conf, todo, cur, pick, task, got>>

\* List again; skip the entry when the order has a valid row after all.
Relist(s) ==
    /\ Stale(s) = {}
    /\ list' \in {[list EXCEPT ![s] = l] : l \in {rows} \cup IF Errors THEN {list[s]} ELSE {}}
    /\ IF \E c \in list'[s] : Valid(c, OrderOf[cur[s]])
       THEN Goto(s, "drop", "entry")
       ELSE Goto(s, "drop", "lock")
    /\ UNCHANGED <<acme, db, store, inflight, conf, todo, cur, pick, task, got>>

\* The order is not looked up in ACME_INFLIGHT before it is placed.
LockUnchecked(s) ==
    /\ Goto(s, "lock", "entry")
    /\ inflight' = inflight \cup {OrderOf[cur[s]]}
    /\ task' = [task EXCEPT ![<<s, cur[s]>>] = "obtain"]
    /\ UNCHANGED <<acme, db, store, conf, list, todo, cur, pick, got>>

\* ACME_INFLIGHT.insert: spawn the obtain task unless the order is in flight.
Lock(s) ==
    /\ Goto(s, "lock", "entry")
    /\ LET o == OrderOf[cur[s]] IN
       \/ o \in inflight /\ UNCHANGED <<inflight, task>>
       \/ /\ o \notin inflight
          /\ inflight' = inflight \cup {o}
          /\ task' = [task EXCEPT ![<<s, cur[s]>>] = "obtain"]
    /\ UNCHANGED <<acme, db, store, conf, list, todo, cur, pick, got>>

\* All entries done: load_db_certs_into_store reads the rows...
LoadRead(s) ==
    /\ todo[s] = {}
    /\ \/ Goto(s, "entry", "map")
       \/ Errors /\ Goto(s, "entry", "failed")
    /\ list' = Listed(s, "map")
    /\ UNCHANGED <<acme, db, store, inflight, conf, todo, cur, pick, task, got>>

\* The hosts of the rows in S are mapped, in the order of the table: the youngest
\* row wins.  Other hosts keep what base gives them.
Mapped(base, S) ==
    [h \in Host |-> LET own == {c \in S : h \in hosts[c]}
                    IN IF own = {} THEN base[h] ELSE NewestIn(own)]

\* The sweep ends without bringing the store up to date.
LoadMapNothing(s) ==
    /\ Goto(s, "map", "done")
    /\ UNCHANGED <<acme, db, store, inflight, conf, list, todo, cur, pick, task, got>>

\* ... and maps their hosts.
LoadMap(s) ==
    /\ Goto(s, "map", "done")
    /\ store' = Mapped(store, list[s])
    /\ list' = [list EXCEPT ![s] = {}]
    /\ UNCHANGED <<acme, db, inflight, conf, todo, cur, pick, task, got>>
-----------------------------------------------------------------------------
(* The obtain task.                                                        *)

At(t, from, to) == task[t] = from /\ task' = [task EXCEPT ![t] = to]

\* A failed order keeps its place in ACME_INFLIGHT.
ObtainAbandoned(t) ==
    /\ \/ At(t, "obtain", "save")
       \/ Errors /\ At(t, "obtain", "done")
    /\ UNCHANGED <<acme, db, store, inflight, sweeps, got>>

\* The CA issues the certificate, or the order fails.
Obtain(t) ==
    /\ \/ At(t, "obtain", "save")
       \/ Errors /\ At(t, "obtain", "release")
    /\ UNCHANGED <<acme, db, store, inflight, sweeps, got>>

Add(c, k, hs) ==
    /\ c \in CertId
    /\ c = Cardinality({x \in CertId : kind[x] # "none"}) + 1
    /\ rows' = rows \cup {c}
    /\ kind' = [kind EXCEPT ![c] = k]
    /\ hosts' = [hosts EXCEPT ![c] = hs]
    /\ age' = [age EXCEPT ![c] = 0]

\* add_certificate.
Save(t) ==
    /\ \/ /\ At(t, "save", "insert")
          /\ \E c \in CertId : /\ Add(c, "acme", OrderOf[t[2]])
                               /\ got' = [got EXCEPT ![t] = c]
       \/ Errors /\ At(t, "save", "release") /\ UNCHANGED <<db, got>>
    /\ UNCHANGED <<acme, store, inflight, sweeps>>

\* insert_pem_for_hosts.
Insert(t) ==
    /\ At(t, "insert", "release")
    /\ store' = [h \in Host |-> IF h \in OrderOf[t[2]] THEN got[t] ELSE store[h]]
    /\ got' = [got EXCEPT ![t] = NoCert]
    /\ UNCHANGED <<acme, db, inflight, sweeps>>

\* ACME_INFLIGHT.remove, whatever became of the order.
Release(t) ==
    /\ At(t, "release", "done")
    /\ inflight' = inflight \ {OrderOf[t[2]]}
    /\ UNCHANGED <<acme, db, store, sweeps, got>>
-----------------------------------------------------------------------------
(* What goes on around Auto-SSL.                                           *)

\* activate_proxy_config, for any change of the sources of the entries: the store
\* is rebuilt from the rows, the configuration becomes the running one and a sweep
\* is started.  Its steps, and files that have no row, are ConfigLifecycle's.
Activate(s) ==
    /\ Goto(s, "idle", "list")
    /\ \E entries \in SUBSET Entry :
          /\ conf' = [conf EXCEPT ![s] = entries]
          /\ acme' = entries
    /\ store' = Mapped([h \in Host |-> NoCert], rows)
    /\ UNCHANGED <<db, inflight, list, todo, cur, pick, task, got>>

\* certificates_upload for the hosts of entry e: a row, its hosts in the store,
\* and the entry takes the file as its source.  No sweep is started.
Upload(e) ==
    /\ Cardinality({c \in CertId : kind[c] = "uploaded"}) < MaxUploads
    /\ \E c \in CertId :
          /\ Add(c, "uploaded", HostsOf[e])
          /\ store' = [h \in Host |-> IF h \in HostsOf[e] THEN c ELSE store[h]]
    /\ acme' = acme \ {e}
    /\ UNCHANGED <<inflight, sweeps, task, got>>

\* Time passes for an ACME certificate.
Age(c) ==
    /\ c \in rows \cap Aging /\ kind[c] = "acme" /\ age[c] < 2
    /\ age' = [age EXCEPT ![c] = @ + 1]
    /\ UNCHANGED <<acme, rows, kind, hosts, store, inflight, sweeps, task, got>>

SweepStep(s) ==
    \/ ListRows(s) \/ Renew(s) \/ RenewDone(s) \/ NextEntry(s) \/ Check(s) \/ Reload(s)
    \/ DropStale(s) \/ Relist(s) \/ Lock(s) \/ LoadRead(s) \/ LoadMap(s)

TaskStep(t) == Obtain(t) \/ Save(t) \/ Insert(t) \/ Release(t)

Next ==
    \/ \E s \in Sweep : SweepStep(s) \/ Activate(s)
    \/ \E e \in Entry : Upload(e)
    \/ \E t \in Task : TaskStep(t)
    \/ \E c \in CertId : Age(c)

Spec == Init /\ [][Next]_vars

\* Spawned futures are polled until they return.
Fairness ==
    /\ \A s \in Sweep : WF_vars(SweepStep(s))
    /\ \A t \in Task : WF_vars(TaskStep(t))

FairSpec == Spec /\ Fairness
-----------------------------------------------------------------------------
(* Properties.                                                             *)

Running(t) == task[t] \notin {"idle", "done"}

\* Whatever sweeps run at the same time, an order is being obtained by at most
\* one task, as ACME_INFLIGHT is there to ensure.
OneObtain ==
    \A t, u \in Task :
        Running(t) /\ Running(u) /\ OrderOf[t[2]] = OrderOf[u[2]] => t = u

\* No sweep deletes an ACME certificate that has more than 30 days left, however
\* old the list is that it works from.
FreshKept ==
    [][\A c \in rows \ rows' : kind[c] = "acme" => age[c] > 0]_vars

\* An order that has been taken is given back, whether it succeeded or not; else
\* its hosts could not be ordered again before a restart.
OrdersReleased ==
    \A e \in Entry : []<>(OrderOf[e] \notin inflight)

\* When all sweeps and tasks have ended, and no sweep failed to list the rows, each
\* host of a stored certificate is served: a deletion that unmapped the host of
\* another row is made good.
RowsServed ==
    (\A s \in Sweep : pc[s] \in {"idle", "done"}) /\ (\A t \in Task : ~Running(t))
        => \A c \in rows : \A h \in hosts[c] : store[h] # NoCert

\* A certificate of an ACME entry that comes within 30 days of its end is renewed.
Renewed ==
    \A c \in CertId :
        (c \in rows /\ kind[c] = "acme" /\ age[c] = 1
            /\ \E e \in acme : HostsOf[e] \cap hosts[c] # {}) ~> c \notin rows
=============================================================================
