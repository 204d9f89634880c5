--------------------------- MODULE ConfigLifecycle ---------------------------
(***************************************************************************)
(* How a configuration change travels through the proxy in standalone      *)
(* mode.  The same configuration lives in four places: the SQLite database *)
(* (db, and the certificate table rows), the PEM files in the certificate  *)
(* directory, the data plane (router and the certificate store's host      *)
(* table byHost) and the admin API's in-memory copy (runtime).  An admin   *)
(* request updates them one after the other, on one of several worker      *)
(* threads; nothing but the individual stores is locked, and the process   *)
(* may stop between any two updates and start again from the database.     *)
(*                                                                         *)
(* A configuration is its sites (one opaque value), its access lists and   *)
(* its TLS entries, all with TlsSource::File, so that the Auto-SSL sweep   *)
(* which ends an activation finds no ACME entry and returns.               *)
(***************************************************************************)
EXTENDS TlsConfigOps

CONSTANTS
    Req,         \* admin API requests
    Routes,      \* what the sites of a configuration may be
    BadRoutes,   \* sites apply_config rejects (config_to_route_table fails)
    NoRoutes,    \* the sites of Config::default()
    Lists,       \* access-list ids
    CertId,      \* certificate ids
    Host,        \* host names
    HostsOf,     \* the sorted host list of each certificate
    ValidPem,    \* certificates whose PEM material parses and matches its key
    NoCert,      \* no certificate
    Ops,         \* the request kinds that are made
    DbErrors,    \* may SQLite calls fail?
    MaxInFlight, \* bound on requests handled at the same time
    MaxCrashes   \* bound on restarts

ASSUME ConfigAssumption ==
    /\ BadRoutes \subseteq Routes
    /\ NoRoutes \in Routes \ BadRoutes
    /\ NoCert \notin CertId
    /\ ValidPem \subseteq CertId
    /\ DbErrors \in BOOLEAN
    /\ MaxInFlight \in Nat
    /\ MaxCrashes \in Nat

VARIABLES
    db,      \* the configuration in SQLite
    rows,    \* the certificate table, in insertion order
    files,   \* certificates whose PEM files are on disk
    router,  \* the sites the route table was built from
    byHost,  \* CertStore.by_host
    runtime, \* AdminState.runtime_config
    pc, op,  \* where each request is, and its kind
    local,   \* the configuration a request holds
    snap,    \* the certificate rows a request has read
    arg,     \* the certificate or access list a request names
    issued,  \* certificate and list ids handed out (fresh UUIDs)
    boot,    \* "up", "loaded" (startup, before the reconcile), "down", "failed"
    crashes, \* restarts so far
    last,    \* the kind of the last request answered with success, or "boot"
    kept,    \* access lists whose creation was acknowledged and whose
             \* deletion nobody asked for
    orderly  \* requests came one at a time and no read of the rows has failed

stores == <<db, rows, files, router, byHost, runtime>>
request == <<pc, op, local, snap, arg>>
ghosts == <<issued, last, kept, orderly>>
vars == <<stores, request, ghosts, boot, crashes>>

Config(r, l, t) == [routes |-> r, lists |-> l, tls |-> t]

EmptyConfig == Config(NoRoutes, {}, <<>>)

FileSource(c) == [kind |-> "file", id |-> c]

Kinds == {"put", "reload", "create", "remove", "upload", "delete"}

\* Init is the first start over a fresh database.
Init ==
    /\ db = EmptyConfig
    /\ rows = <<>>
    /\ files = {}
    /\ router = NoRoutes
    /\ byHost = [h \in Host |-> NoCert]
    /\ runtime = EmptyConfig
    /\ pc = [r \in Req |-> "new"]
    /\ op = [r \in Req |-> "put"]
    /\ local = [r \in Req |-> EmptyConfig]
    /\ snap = [r \in Req |-> <<>>]
    /\ arg = [r \in Req |-> NoCert]
    /\ issued = {}
    /\ boot = "up"
    /\ crashes = 0
    /\ last = "boot"
    /\ kept = {}
    /\ orderly = TRUE

Active == {r \in Req : pc[r] \notin {"new", "done"}}

\* A request of kind k starts: it holds cfg and names a, and goes on at next.
Begin(r, k, cfg, a, next) ==
    /\ boot = "up"
    /\ k \in Ops
    /\ pc[r] = "new"
    /\ Cardinality(Active) < MaxInFlight
    /\ pc' = [pc EXCEPT ![r] = next]
    /\ op' = [op EXCEPT ![r] = k]
    /\ local' = [local EXCEPT ![r] = cfg]
    /\ arg' = [arg EXCEPT ![r] = a]
    /\ orderly' = (orderly /\ Active = {})
    /\ UNCHANGED <<stores, snap, boot, crashes, last>>

At(r, where) == boot = "up" /\ pc[r] = where

Goto(r, next) ==
    /\ pc' = [pc EXCEPT ![r] = next]
    /\ UNCHANGED <<op, arg>>

\* Only a change of sites, access lists or TLS entries is answered through here;
\* a failed request leaves last at "none" until the next success.
Answer(r, ok) ==
    /\ pc' = [pc EXCEPT ![r] = "done"]
    /\ last' = IF ok THEN op[r] ELSE "none"
    /\ kept' = IF ok /\ op[r] = "create" THEN kept \cup {arg[r]} ELSE kept
    /\ UNCHANGED <<op, arg, local, snap, issued, orderly>>

(***************************************************************************)
(* The handlers.  Each starts from the in-memory configuration, except     *)
(* reload_config.                                                          *)
(***************************************************************************)

\* The body is what the client made of GET /config: other sites, and either the
\* same TLS entries or none.  put_config normalises the entries it is given.
PutConfig(r) ==
    /\ \E s \in Routes, t \in {runtime.tls, <<>>} :
          Begin(r, "put", Config(s, runtime.lists, NormalizeTls(t)), NoCert, "save")
    /\ UNCHANGED <<issued, kept>>

ReloadConfig(r) ==
    /\ Begin(r, "reload", db, NoCert, "apply")
    /\ UNCHANGED <<issued, kept>>

AccessListsCreate(r) == \E l \in Lists \ issued :
    /\ Begin(r, "create", Config(runtime.routes, runtime.lists \cup {l}, runtime.tls), l, "save")
    /\ issued' = issued \cup {l}
    /\ UNCHANGED kept

\* An unknown id is answered with 404 before anything is written.
AccessListsDelete(r) == \E l \in runtime.lists :
    /\ Begin(r, "remove", Config(runtime.routes, runtime.lists \ {l}, runtime.tls), l, "save")
    /\ kept' = kept \ {l}
    /\ UNCHANGED issued

CertificatesUpload(r) == \E c \in CertId \ issued :
    /\ Begin(r, "upload", EmptyConfig, c, "row")
    /\ issued' = issued \cup {c}
    /\ UNCHANGED kept

CertificatesDelete(r) == \E c \in ToSet(rows) :
    /\ Begin(r, "delete", EmptyConfig, c, "drop")
    /\ UNCHANGED <<issued, kept>>

(***************************************************************************)
(* Their steps.                                                            *)
(***************************************************************************)

SaveConfig(r) ==
    /\ At(r, "save")
    /\ db' = local[r]
    /\ Goto(r, IF op[r] = "upload" THEN "publish" ELSE "apply")
    /\ UNCHANGED <<rows, files, router, byHost, runtime, local, snap, ghosts, boot, crashes>>

\* A route table that cannot be built is only logged.
ApplyIgnoringErrors(r) ==
    /\ At(r, "apply")
    /\ router' = IF local[r].routes \in BadRoutes THEN router ELSE local[r].routes
    /\ Goto(r, "certs")
    /\ UNCHANGED <<db, rows, files, byHost, runtime, local, snap, ghosts, boot, crashes>>

\* apply_config: a configuration whose route table cannot be built is refused
\* and the old table stays; the database keeps what was saved.
ApplyConfig(r) ==
    /\ At(r, "apply")
    /\ \/ /\ local[r].routes \in BadRoutes
          /\ Answer(r, FALSE)
          /\ UNCHANGED stores
       \/ /\ local[r].routes \notin BadRoutes
          /\ router' = local[r].routes
          /\ Goto(r, "certs")
          /\ UNCHANGED <<db, rows, files, byHost, runtime, local, snap, ghosts>>
    /\ UNCHANGED <<boot, crashes>>

FilesPresent(tls) == \A i \in DOMAIN tls : tls[i].src.id \in files

\* reload_from_configs: the last entry that lists a host wins.
MapTls(tls) ==
    [h \in Host |->
        LET at == {i \in DOMAIN tls : h \in HostSet(tls[i])}
        IN  IF at = {} THEN NoCert ELSE tls[CHOOSE i \in at : \A j \in at : j <= i].src.id]

\* A missing or broken file fails the whole reload and leaves the store alone;
\* reload_config ignores that, the other handlers give up.
ReloadCerts(r) ==
    /\ At(r, "certs")
    /\ \/ /\ FilesPresent(local[r].tls)
          /\ byHost' = MapTls(local[r].tls)
          /\ Goto(r, "rows")
          /\ UNCHANGED <<db, rows, files, router, runtime, local, snap, ghosts>>
       \/ /\ ~FilesPresent(local[r].tls)
          /\ op[r] = "reload"
          /\ Goto(r, "rows")
          /\ UNCHANGED <<stores, local, snap, ghosts>>
       \/ /\ ~FilesPresent(local[r].tls)
          /\ op[r] # "reload"
          /\ Answer(r, FALSE)
          /\ UNCHANGED stores
    /\ UNCHANGED <<boot, crashes>>

ReadRows(r) ==
    /\ At(r, "rows")
    /\ snap' = [snap EXCEPT ![r] = rows]
    /\ Goto(r, "load")
    /\ UNCHANGED <<stores, local, ghosts, boot, crashes>>

\* load_db_certs_into_store stops at the first row whose PEM is invalid.
Loaded(rs) == {i \in DOMAIN rs : \A j \in 1..i : rs[j] \in ValidPem}

\* The oldest row that lists a host wins.
MapRowsFirstWins(table, rs) ==
    [h \in Host |->
        LET at == {i \in Loaded(rs) : h \in ToSet(HostsOf[rs[i]])}
        IN  IF at = {} THEN table[h] ELSE rs[CHOOSE i \in at : \A j \in at : i <= j]]

MapRows(table, rs) ==
    [h \in Host |->
        LET at == {i \in Loaded(rs) : h \in ToSet(HostsOf[rs[i]])}
        IN  IF at = {} THEN table[h] ELSE rs[CHOOSE i \in at : \A j \in at : j <= i]]

FilesOf(rs) == {rs[i] : i \in Loaded(rs)}

LoadRows(r) ==
    /\ At(r, "load")
    /\ byHost' = MapRows(byHost, snap[r])
    /\ files' = files \cup FilesOf(snap[r])
    /\ Goto(r, "publish")
    /\ UNCHANGED <<db, rows, router, runtime, local, snap, ghosts, boot, crashes>>

\* The in-memory configuration is not replaced.
PublishNothing(r) ==
    /\ At(r, "publish")
    /\ Answer(r, TRUE)
    /\ UNCHANGED <<stores, boot, crashes>>

Publish(r) ==
    /\ At(r, "publish")
    /\ runtime' = local[r]
    /\ Answer(r, TRUE)
    /\ UNCHANGED <<db, rows, files, router, byHost, boot, crashes>>

\* The TLS entry is saved without the PEM files having been written.
AddRowThenSync(r) ==
    /\ At(r, "row")
    /\ rows' = Append(rows, arg[r])
    /\ Goto(r, "sync")
    /\ UNCHANGED <<db, files, router, byHost, runtime, local, snap, ghosts, boot, crashes>>

\* The row is stored before the PEM material is looked at.
AddRow(r) ==
    /\ At(r, "row")
    /\ rows' = Append(rows, arg[r])
    /\ Goto(r, "pem")
    /\ UNCHANGED <<db, files, router, byHost, runtime, local, snap, ghosts, boot, crashes>>

StorePem(r) ==
    /\ At(r, "pem")
    /\ \/ /\ arg[r] \notin ValidPem
          /\ Answer(r, FALSE)
          /\ UNCHANGED stores
       \/ /\ arg[r] \in ValidPem
          /\ files' = files \cup {arg[r]}
          /\ byHost' = [h \in Host |-> IF h \in ToSet(HostsOf[arg[r]]) THEN arg[r] ELSE byHost[h]]
          /\ Goto(r, "sync")
          /\ UNCHANGED <<db, rows, router, runtime, local, snap, ghosts>>
    /\ UNCHANGED <<boot, crashes>>

SyncTls(r) ==
    /\ At(r, "sync")
    /\ local' = [local EXCEPT ![r] =
          Config(runtime.routes, runtime.lists,
                 SyncUploaded(runtime.tls, HostsOf[arg[r]], FileSource(arg[r])))]
    /\ Goto(r, "save")
    /\ UNCHANGED <<stores, snap, ghosts, boot, crashes>>

DropRow(r) ==
    /\ At(r, "drop")
    /\ \/ /\ arg[r] \notin ToSet(rows)
          /\ Answer(r, FALSE)
          /\ UNCHANGED stores
       \/ /\ arg[r] \in ToSet(rows)
          /\ rows' = SelectSeq(rows, LAMBDA c : c # arg[r])
          /\ Goto(r, "forget")
          /\ UNCHANGED <<db, files, router, byHost, runtime, local, snap, ghosts>>
    /\ UNCHANGED <<boot, crashes>>

\* remove_for_hosts and the unlinking of the PEM files; config.tls is not
\* touched, here or in the database.
ForgetCert(r) ==
    /\ At(r, "forget")
    /\ byHost' = [h \in Host |-> IF h \in ToSet(HostsOf[arg[r]]) THEN NoCert ELSE byHost[h]]
    /\ files' = files \ {arg[r]}
    /\ Answer(r, TRUE)
    /\ UNCHANGED <<db, rows, router, runtime, boot, crashes>>

\* A write that SQLite refuses ends the request with 500; what the handler did
\* before stays.
WriteFails(r) ==
    /\ DbErrors
    /\ \E where \in {"save", "row", "drop"} : At(r, where)
    /\ Answer(r, FALSE)
    /\ UNCHANGED <<stores, boot, crashes>>

\* Rows that cannot be read are only logged: the activation goes on without them.
ReadFails(r) ==
    /\ DbErrors
    /\ At(r, "rows")
    /\ Goto(r, "publish")
    /\ orderly' = FALSE
    /\ UNCHANGED <<stores, local, snap, issued, last, kept, boot, crashes>>

(***************************************************************************)
(* Stopping and starting.                                                  *)
(***************************************************************************)

\* The process stops: memory is lost, the database and the files remain.
Crash ==
    /\ boot \in {"up", "loaded"}
    /\ crashes < MaxCrashes
    /\ crashes' = crashes + 1
    /\ boot' = "down"
    /\ router' = NoRoutes
    /\ byHost' = [h \in Host |-> NoCert]
    /\ runtime' = EmptyConfig
    /\ pc' = [r \in Req |-> IF r \in Active THEN "done" ELSE pc[r]]
    /\ last' = "none"
    /\ UNCHANGED <<db, rows, files, op, local, snap, arg, issued, kept, orderly>>

\* main up to the first load_db_certs_into_store.  A configuration that does not
\* apply, or names a missing file, ends the start with an error.
Start ==
    LET tls == NormalizeTls(db.tls)
    IN  /\ boot = "down"
        /\ db' = Config(db.routes, db.lists, tls)
        /\ \/ /\ db.routes \in BadRoutes \/ ~FilesPresent(tls)
              /\ boot' = "failed"
              /\ UNCHANGED <<files, router, byHost, runtime>>
           \/ /\ db.routes \notin BadRoutes /\ FilesPresent(tls)
              /\ boot' = "loaded"
              /\ router' = db.routes
              /\ byHost' = MapRows(MapTls(tls), rows)
              /\ files' = files \cup FilesOf(rows)
              /\ runtime' = db'
        /\ UNCHANGED <<rows, request, ghosts, crashes>>

\* reconcile_uploaded_certs_in_config: every row gets its TLS entry.
SyncRows(tls, rs) ==
    FoldLeft(LAMBDA acc, c : SyncUploaded(acc, HostsOf[c], FileSource(c)), tls, rs)

\* The rest of the start.  When a row changed the entries the result is saved
\* and the store loaded again.
Reconcile ==
    LET tls == SyncRows(runtime.tls, rows)
    IN  /\ boot = "loaded"
        /\ boot' = "up"
        /\ last' = "boot"
        /\ runtime' = Config(runtime.routes, runtime.lists, tls)
        /\ db' = IF tls = runtime.tls THEN db ELSE runtime'
        /\ byHost' = IF tls = runtime.tls THEN byHost
                     ELSE MapRows(IF FilesPresent(tls) THEN MapTls(tls) ELSE byHost, rows)
        /\ files' = files \cup (IF tls = runtime.tls THEN {} ELSE FilesOf(rows))
        /\ UNCHANGED <<rows, router, request, issued, kept, orderly, crashes>>

Handle(r) ==
    \/ PutConfig(r) \/ ReloadConfig(r) \/ AccessListsCreate(r) \/ AccessListsDelete(r)
    \/ CertificatesUpload(r) \/ CertificatesDelete(r)

Step(r) ==
    \/ SaveConfig(r) \/ ApplyConfig(r) \/ ReloadCerts(r) \/ ReadRows(r) \/ LoadRows(r)
    \/ Publish(r) \/ AddRow(r) \/ StorePem(r) \/ SyncTls(r) \/ DropRow(r) \/ ForgetCert(r)
    \/ WriteFails(r) \/ ReadFails(r)

Next == (\E r \in Req : Handle(r) \/ Step(r)) \/ Crash \/ Start \/ Reconcile

Spec == Init /\ [][Next]_vars
-----------------------------------------------------------------------------
(***************************************************************************)
(* Properties.                                                             *)
(***************************************************************************)

\* A configuration whose route table cannot be built never reaches the data
\* plane or the in-memory configuration, although put_config has already stored
\* it, whatever other requests and restarts happen around it.
RejectedNeverRuns == router \notin BadRoutes /\ runtime.routes \notin BadRoutes

Quiet == boot = "up" /\ Active = {}

\* The last answer was success for a request that activates, or a start.
Activated == Quiet /\ last \in {"put", "reload", "create", "remove", "boot"}

\* When the last request was answered with success and was one that activates
\* (put_config, reload_config, an access-list change) or the program has just
\* started, and nothing is in flight, the database, the in-memory copy and the
\* route table agree ("Save config to SQLite and activate on the data plane").
AckedIsActive == Activated => db = runtime /\ router = db.routes

\* So it is while requests come one at a time, whichever of them failed half-way
\* and wherever the process was stopped; and an access list whose creation was
\* acknowledged is in the database until somebody asks for its deletion ("Persist
\* lists and activate").
SerialAckedIsActive == orderly => AckedIsActive /\ kept \subseteq db.lists

\* While requests come one at a time, after an activation every host of a
\* certificate row is served by the newest row that lists it, whatever config.tls
\* says about the host; rows behind one with invalid PEM are not loaded.
SerialRowsServed ==
    orderly /\ Activated =>
        \A i \in Loaded(rows) : \A h \in ToSet(HostsOf[rows[i]]) :
            \E j \in Loaded(rows) : j >= i /\ h \in ToSet(HostsOf[rows[j]]) /\ byHost[h] = rows[j]

\* Nobody has deleted a certificate, put sites that are rejected or uploaded
\* malformed PEM.
Benign == \A r \in Req :
    /\ op[r] # "delete"
    /\ op[r] = "put" => local[r].routes \notin BadRoutes
    /\ op[r] = "upload" => arg[r] \in ValidPem

\* After benign requests, however they overlapped, failed or were cut off, the
\* program starts again: what was saved applies and names only files that are there.
StartsAgain == Benign => boot # "failed"

\* Every TLS entry of the saved configuration can be loaded: config.tls and the
\* certificates "stay in sync" for the reload path, as sync_uploaded_cert_tls
\* says.
ReloadPathInSync == Quiet => FilesPresent(db.tls)
=============================================================================
