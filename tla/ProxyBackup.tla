----------------------------- MODULE ProxyBackup ------------------------------
(***************************************************************************)
(* Backup and restore of the proxy mode (api/backup.rs): an export reads   *)
(* the configuration and the certificates in three calls, a restore writes *)
(* certificates one by one and then the configuration, while other         *)
(* requests go on.  A configuration is a partial map from what merging     *)
(* tells apart (sites by host, backends by name, TLS entries by hosts) to  *)
(* contents; normalising its TLS entries is in TlsNormalize, the steps of  *)
(* an activation are in ConfigLifecycle.  DNS providers are exported       *)
(* without credentials and not restored: they are left out.                *)
(***************************************************************************)
EXTENDS Naturals, Sequences, SequencesExt

CONSTANTS
    Item, Content,  \* what a configuration has, and its contents
    Cert, CertHost, \* certificates, and the hosts they can have
    HostsOf,        \* hosts of a certificate
    MaxRows,        \* bound on certificate rows
    MaxOther,       \* bound on steps of other requests
    MaxFaults       \* bound on failing calls

ASSUME BackupAssumption ==
    /\ HostsOf \in [Cert -> SUBSET CertHost]
    /\ MaxRows \in Nat /\ MaxOther \in Nat /\ MaxFaults \in Nat

Absent == "absent"
NoCert == "no certificate"

VARIABLES
    dbConfig, running,      \* configuration in the database, and the one in force
    certRows, served,       \* certificate rows in order; certificate of a host
    ex, exConfig, exPems,   \* export: control state, configuration and PEMs read
    file,                   \* the last backup: [config, certs, whole]
    re, merging, known, todo, target, errors, \* restore: control state, the flag, hosts that have
                            \* a certificate, certificates to go, configuration to save, errors
    others, faults,         \* steps of other requests, failing calls
    stayed, everHad, exFault, \* history of an export: rows all along, rows ever, a read failed
    before, beforeServed, alone, reFault \* history of a restore: configuration and certificates
                            \* at its start, no other request since, a read of rows failed

system == <<dbConfig, running, certRows, served>>
export == <<ex, exConfig, exPems, stayed, everHad, exFault>>
restore == <<re, merging, known, todo, target, errors, before, beforeServed, alone, reFault>>
backupVars == <<system, export, file, restore, others, faults>>

NoConfig == [i \in Item |-> Absent]
NoFile == [config |-> NoConfig, certs |-> <<>>, made |-> FALSE]

\* load_db_certs_into_store: rows in order, the last one with a host has it.
MapCerts(table, rs) ==
    [h \in CertHost |->
        LET with == {i \in DOMAIN rs : h \in HostsOf[rs[i]]}
        IN IF with = {} THEN table[h] ELSE rs[CHOOSE i \in with : \A j \in with : j <= i]]
NoneServed == [h \in CertHost |-> NoCert]

InitBackup ==
    /\ dbConfig \in [Item -> {Absent} \cup Content] /\ running = dbConfig
    /\ certRows \in {<<>>} \cup {<<c>> : c \in Cert}
    /\ served = MapCerts(NoneServed, certRows)
    /\ ex = "idle" /\ exConfig = NoConfig /\ exPems = {}
    /\ stayed = {} /\ everHad = {} /\ exFault = FALSE
    /\ file = NoFile
    /\ re = "idle" /\ merging = FALSE /\ known = {} /\ todo = <<>> /\ target = NoConfig /\ errors = 0
    /\ before = NoConfig /\ beforeServed = NoneServed /\ alone = TRUE /\ reFault = FALSE
    /\ others = 0 /\ faults = 0

Fault == faults < MaxFaults /\ faults' = faults + 1
-----------------------------------------------------------------------------
(* build_proxy_backup.                                                     *)

ExportConfig ==
    /\ ex = "idle" /\ ~file.made
    /\ ex' = "pems"
    /\ exConfig' = running
    /\ stayed' = ToSet(certRows) /\ everHad' = ToSet(certRows)
    /\ UNCHANGED <<system, exPems, exFault, file, restore, others, faults>>

\* A read that fails leaves the certificates out of the backup.
ExportPems ==
    /\ ex = "pems"
    /\ ex' = "list"
    /\ \/ exPems' = ToSet(certRows) /\ UNCHANGED <<faults, exFault>>
       \/ Fault /\ exPems' = {} /\ exFault' = TRUE
    /\ UNCHANGED <<system, exConfig, stayed, everHad, file, restore, others>>

\* Only certificates some host is served with are taken.
ExportServed(rs) == SelectSeq(rs, LAMBDA c : \E h \in CertHost : served[h] = c)

\* Rows without PEMs are left out.
ExportListed(rs) == SelectSeq(rs, LAMBDA c : c \in exPems)

ExportList ==
    /\ ex = "list"
    /\ ex' = "done"
    /\ \/ /\ file' = [config |-> exConfig, certs |-> ExportListed(certRows), made |-> TRUE]
          /\ UNCHANGED <<faults, exFault>>
       \/ /\ Fault /\ exFault' = TRUE
          /\ file' = [config |-> exConfig, certs |-> <<>>, made |-> TRUE]
    /\ exPems' = {}
    /\ UNCHANGED <<system, exConfig, stayed, everHad, restore, others>>
-----------------------------------------------------------------------------
(* proxy_backup_restore.                                                   *)

RestoreBegin ==
    /\ re = "idle" /\ file.made
    /\ \E m \in BOOLEAN :
          /\ merging' = m
          /\ \/ /\ known' = IF m THEN UNION {HostsOf[c] : c \in ToSet(certRows)} ELSE {}
                /\ UNCHANGED <<faults, reFault>>
             \/ m /\ Fault /\ reFault' = TRUE /\ known' = {}
    /\ re' = "certs"
    /\ todo' = file.certs
    /\ before' = running /\ beforeServed' = served /\ alone' = (dbConfig = running)
    /\ UNCHANGED <<system, export, file, target, errors, others>>

\* A certificate with a host that has one already is skipped when merging.
RestoreSkip ==
    /\ re = "certs" /\ todo # <<>>
    /\ merging /\ HostsOf[Head(todo)] \cap known # {}
    /\ todo' = Tail(todo)
    /\ UNCHANGED <<system, export, file, re, merging, known, target, errors, before, beforeServed,
                   alone, reFault, others, faults>>

\* A failure, of the row or of the store after it, is reported and the next follows.
RestoreCert ==
    /\ re = "certs" /\ todo # <<>>
    /\ ~(merging /\ HostsOf[Head(todo)] \cap known # {})
    /\ todo' = Tail(todo)
    /\ \/ /\ Len(certRows) < MaxRows
          /\ certRows' = Append(certRows, Head(todo))
          /\ served' = MapCerts(served, <<Head(todo)>>)
          /\ UNCHANGED <<errors, faults>>
       \/ /\ Fault /\ errors' = errors + 1
          /\ UNCHANGED served
          /\ UNCHANGED certRows \/ (Len(certRows) < MaxRows /\ certRows' = Append(certRows, Head(todo)))
    /\ UNCHANGED <<dbConfig, running, export, file, re, merging, known, target, before, beforeServed,
                   alone, reFault, others>>

\* The backup's contents replace those there are.
MergeBackupWins(current, new) == [i \in Item |-> IF new[i] = Absent THEN current[i] ELSE new[i]]

\* merge_proxy_config.
MergeConfig(current, new) == [i \in Item |-> IF current[i] = Absent THEN new[i] ELSE current[i]]

RestoreTarget ==
    /\ re = "certs" /\ todo = <<>>
    /\ re' = "save"
    /\ target' = IF merging THEN MergeConfig(running, file.config) ELSE file.config
    /\ UNCHANGED <<system, export, file, merging, known, todo, errors, before, beforeServed, alone,
                   reFault, others, faults>>

RestoreSave ==
    /\ re = "save"
    /\ \/ dbConfig' = target /\ re' = "activate" /\ UNCHANGED <<errors, faults>>
       \/ Fault /\ re' = "done" /\ errors' = errors + 1 /\ UNCHANGED dbConfig
    /\ UNCHANGED <<running, certRows, served, export, file, merging, known, todo, target, before,
                   beforeServed, alone, reFault, others>>

\* activate_proxy_config: its failure leaves the saved configuration behind; rows it
\* cannot read are only logged.
RestoreActivate ==
    /\ re = "activate"
    /\ re' = "done"
    /\ \/ /\ running' = target
          /\ served' = MapCerts(NoneServed, certRows)
          /\ UNCHANGED <<errors, faults, reFault>>
       \/ Fault /\ running' = target /\ served' = NoneServed /\ reFault' = TRUE /\ UNCHANGED errors
       \/ Fault /\ errors' = errors + 1 /\ UNCHANGED <<running, served, reFault>>
    /\ UNCHANGED <<dbConfig, certRows, export, file, merging, known, todo, target, before,
                   beforeServed, alone, others>>
-----------------------------------------------------------------------------
(* Other requests, each taken as one step.                                 *)

Exporting == ex \in {"pems", "list"}
Other == others < MaxOther /\ others' = others + 1

OtherConfig ==
    /\ Other
    /\ \E i \in Item, c \in {Absent} \cup Content : running' = [running EXCEPT ![i] = c]
    /\ dbConfig' = running'
    /\ served' = MapCerts(NoneServed, certRows)
    /\ alone' = FALSE
    /\ UNCHANGED <<certRows, export, file, re, merging, known, todo, target, errors, before,
                   beforeServed, reFault, faults>>

OtherCerts ==
    /\ Other
    /\ \/ \E c \in Cert \ ToSet(certRows) :
             /\ Len(certRows) < MaxRows
             /\ certRows' = Append(certRows, c)
             /\ served' = MapCerts(served, <<c>>)
       \/ \E c \in ToSet(certRows) :
             /\ certRows' = SelectSeq(certRows, LAMBDA d : d # c)
             /\ served' = [h \in CertHost |-> IF served[h] = c THEN NoCert ELSE served[h]]
    /\ stayed' = IF Exporting THEN stayed \cap ToSet(certRows') ELSE stayed
    /\ everHad' = IF Exporting THEN everHad \cup ToSet(certRows') ELSE everHad
    /\ alone' = FALSE
    /\ UNCHANGED <<dbConfig, running, ex, exConfig, exPems, exFault, file, re, merging, known, todo,
                   target, errors, before, beforeServed, reFault, faults>>

NextBackup ==
    \/ ExportConfig \/ ExportPems \/ ExportList
    \/ RestoreBegin \/ RestoreSkip \/ RestoreCert \/ RestoreTarget \/ RestoreSave \/ RestoreActivate
    \/ OtherConfig \/ OtherCerts
-----------------------------------------------------------------------------
(* Properties.                                                             *)

\* A backup has every certificate that was there all along and none that never was,
\* although PEMs and rows are read by two calls (build_proxy_backup); unless a read
\* failed, which the caller is not told.
BackupWhole ==
    ex = "done" /\ ~exFault => /\ stayed \subseteq ToSet(file.certs)
                               /\ ToSet(file.certs) \subseteq everHad

Undisturbed == re = "done" /\ alone /\ ~reFault

\* A restore that no other request overlapped does what it says.  A merge changes
\* nothing that was there, neither a part of the configuration nor the certificate of
\* a host (merge_proxy_config).  If no error is reported, the configuration in force
\* and in the database is the backup's (or has all of it, merged), and every host of
\* its certificates has one; without merging, one of the backup's.
RestoreDone ==
    Undisturbed =>
        /\ merging =>
              /\ \A i \in Item : before[i] # Absent => running[i] = before[i]
              /\ \A h \in CertHost : beforeServed[h] # NoCert => served[h] = beforeServed[h]
        /\ errors = 0 =>
              /\ running = dbConfig
              /\ IF merging THEN \A i \in Item : file.config[i] # Absent => running[i] # Absent
                            ELSE running = file.config
              /\ \A c \in ToSet(file.certs) :
                    ~merging => \A h \in HostsOf[c] : served[h] \in ToSet(file.certs)
=============================================================================
