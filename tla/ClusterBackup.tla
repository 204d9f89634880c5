---------------------------- MODULE ClusterBackup -----------------------------
(***************************************************************************)
(* Backup and restore of the ingress mode (api/backup.rs): an export lists *)
(* one kind of object after the other, a restore asks for each object and  *)
(* then creates or replaces it, while others edit the cluster.  The API    *)
(* server is modelled from how the code uses it: an object has a version   *)
(* that every write changes, a creation must not name one, a replacement   *)
(* that names one must name the current, and one that names none is taken  *)
(* for built-in kinds only.  A backup file may have had the versions       *)
(* removed before it is restored.                                          *)
(***************************************************************************)
EXTENDS Naturals, Sequences, SequencesExt, FiniteSets

CONSTANTS
    Object,         \* names of objects, of all kinds
    KindOf,         \* kind of an object
    GatewayApi,     \* gateway_api_enabled
    MaxVersion,     \* bound on the versions, so on the writes
    MaxFails        \* bound on failing calls

Kinds == <<"secret", "gateway", "route", "ingress">>   \* order of a restore
Listed == <<"ingress", "secret", "gateway", "route">>  \* order of an export
BuiltIn == {"secret", "ingress"}

ASSUME ClusterAssumption ==
    /\ KindOf \in [Object -> ToSet(Kinds)]
    /\ GatewayApi \in BOOLEAN /\ MaxVersion \in Nat /\ MaxFails \in Nat

Gone == 0       \* version of an object that is not there
Unnamed == 0    \* an object in a file that names no version

VARIABLES
    version, content,       \* the cluster
    saved, savedVersion,    \* the file: content and version of an object, by object
    phase,                  \* "export", "file", "restore" or "done"
    step,                   \* kinds exported so far; place in the order of the restore
    found,                  \* restore, between the calls for one object: "ask", "there" or "missing"
    replace,                \* the merge flag: here, replace what is there
    lastVersion, clusterFails, \* versions given out, failing calls
    failed, applied, skipped,  \* objects of a restore by outcome
    touched, exportFailed   \* history: objects edited since the restore asked for them, a list failed

cluster == <<version, content, lastVersion>>
savedFile == <<saved, savedVersion>>
outcome == <<failed, applied, skipped>>
clusterVars == <<cluster, savedFile, phase, step, found, replace, clusterFails, outcome, touched, exportFailed>>

InitCluster ==
    /\ version = [o \in Object |-> 1] /\ content = [o \in Object |-> 1]
    /\ saved = [o \in Object |-> 0] /\ savedVersion = [o \in Object |-> 0]
    /\ phase = "export" /\ step = 0 /\ found = "ask"
    /\ replace = FALSE
    /\ lastVersion = 1 /\ clusterFails = 0
    /\ failed = {} /\ applied = {} /\ skipped = {}
    /\ touched = {} /\ exportFailed = FALSE

FailCall == clusterFails < MaxFails /\ clusterFails' = clusterFails + 1
PutVersion(o, c) ==
    /\ lastVersion < MaxVersion /\ lastVersion' = lastVersion + 1
    /\ version' = [version EXCEPT ![o] = lastVersion']
    /\ content' = [content EXCEPT ![o] = c]

\* Others create, change and delete objects; contents are told apart by the write.
Edit(o) ==
    /\ PutVersion(o, lastVersion + 1)
    /\ touched' = touched \cup {o}
    /\ UNCHANGED <<savedFile, phase, step, found, replace, clusterFails, outcome, exportFailed>>

Delete(o) ==
    /\ version[o] # Gone
    /\ version' = [version EXCEPT ![o] = Gone]
    /\ content' = [content EXCEPT ![o] = 0]
    /\ touched' = touched \cup {o}
    /\ UNCHANGED <<lastVersion, savedFile, phase, step, found, replace, clusterFails, outcome, exportFailed>>
-----------------------------------------------------------------------------
(* build_ingress_backup.                                                   *)

OfKind(k) == {o \in Object : KindOf[o] = k}
Optional(k) == k \notin BuiltIn
Taken(k) == ~Optional(k) \/ GatewayApi

\* One list call.  That of a built-in kind that fails ends the export, any other is
\* taken for an empty one.
ListKind ==
    LET k == Listed[step + 1]
    IN /\ phase = "export" /\ step < Len(Listed)
       /\ \/ /\ saved' = [o \in Object |-> IF o \in OfKind(k) /\ Taken(k) THEN content[o] ELSE saved[o]]
             /\ savedVersion' = [o \in Object |-> IF o \in OfKind(k) /\ Taken(k) THEN version[o] ELSE savedVersion[o]]
             /\ step' = step + 1
             /\ UNCHANGED <<clusterFails, exportFailed>>
          \/ /\ Taken(k) /\ Optional(k) /\ FailCall
             /\ step' = step + 1
             /\ exportFailed' = TRUE
             /\ UNCHANGED savedFile
       /\ UNCHANGED <<cluster, phase, found, replace, outcome, touched>>

\* The export fails: there is no file, and it is asked for again.
ListFails ==
    /\ phase = "export" /\ step < Len(Listed) /\ ~Optional(Listed[step + 1])
    /\ FailCall
    /\ step' = 0
    /\ saved' = [o \in Object |-> 0] /\ savedVersion' = [o \in Object |-> 0]
    /\ UNCHANGED <<cluster, phase, found, replace, outcome, touched, exportFailed>>

WriteFile ==
    /\ phase = "export" /\ step = Len(Listed)
    /\ phase' = "file"
    /\ step' = 0
    /\ UNCHANGED <<cluster, savedFile, found, replace, clusterFails, outcome, touched, exportFailed>>
-----------------------------------------------------------------------------
(* ingress_backup_restore.                                                 *)

\* The order of a restore: by kind, and any order within one.
Order == CHOOSE s \in SetToSeqs(Object) :
            \A i, j \in DOMAIN s : i < j => \E a, b \in DOMAIN Kinds :
                a <= b /\ Kinds[a] = KindOf[s[i]] /\ Kinds[b] = KindOf[s[j]]
Current == Order[step + 1]
InFile(o) == saved[o] # 0

\* The file is restored as it is, or with the versions taken out.
RestoreStart ==
    /\ phase = "file"
    /\ phase' = "restore"
    /\ replace' \in BOOLEAN
    /\ \/ UNCHANGED savedVersion
       \/ savedVersion' = [o \in Object |-> Unnamed]
    /\ UNCHANGED <<cluster, saved, step, found, clusterFails, outcome, touched, exportFailed>>

NextObject == step' = step + 1 /\ found' = "ask"

\* exists: any failure of the call counts as "not there".
AskObject ==
    /\ phase = "restore" /\ step < Cardinality(Object) /\ found = "ask"
    /\ InFile(Current)
    /\ touched' = touched \ {Current}
    /\ \/ /\ version[Current] # Gone /\ ~replace
          /\ skipped' = skipped \cup {Current} /\ NextObject
          /\ UNCHANGED clusterFails
       \/ /\ version[Current] # Gone /\ replace
          /\ found' = "there" /\ UNCHANGED <<step, skipped, clusterFails>>
       \/ /\ version[Current] = Gone \/ (clusterFails < MaxFails)
          /\ found' = "missing"
          /\ clusterFails' = IF version[Current] = Gone THEN clusterFails ELSE clusterFails + 1
          /\ UNCHANGED <<step, skipped>>
    /\ UNCHANGED <<cluster, savedFile, phase, replace, failed, applied, exportFailed>>

PassObject ==
    /\ phase = "restore" /\ step < Cardinality(Object) /\ found = "ask"
    /\ ~InFile(Current)
    /\ NextObject
    /\ UNCHANGED <<cluster, savedFile, phase, replace, clusterFails, outcome, touched, exportFailed>>

\* What the API server takes.
MayCreate(o) == version[o] = Gone /\ savedVersion[o] = Unnamed
MayReplace(o) == /\ version[o] # Gone
                 /\ savedVersion[o] = version[o] \/ (savedVersion[o] = Unnamed /\ KindOf[o] \in BuiltIn)

PutObject(o, accepted) ==
    \/ accepted /\ PutVersion(o, saved[o]) /\ applied' = applied \cup {o} /\ UNCHANGED <<failed, clusterFails>>
    \/ ~accepted /\ failed' = failed \cup {o} /\ UNCHANGED <<applied, cluster, clusterFails>>
    \/ FailCall /\ failed' = failed \cup {o} /\ UNCHANGED <<applied, cluster>>

\* The version just read is put in place of the file's.
RestoreForcing ==
    /\ phase = "restore" /\ found # "ask"
    /\ PutObject(Current, IF found = "there" THEN version[Current] # Gone ELSE MayCreate(Current))
    /\ NextObject
    /\ UNCHANGED <<savedFile, phase, replace, skipped, touched, exportFailed>>

\* restore_secret, restore_gateway, restore_httproute, restore_ingress.
RestoreObject ==
    /\ phase = "restore" /\ found # "ask"
    /\ PutObject(Current, IF found = "there" THEN MayReplace(Current) ELSE MayCreate(Current))
    /\ NextObject
    /\ UNCHANGED <<savedFile, phase, replace, skipped, touched, exportFailed>>

RestoreEnd ==
    /\ phase = "restore" /\ step = Cardinality(Object) /\ found = "ask"
    /\ phase' = "done"
    /\ UNCHANGED <<cluster, savedFile, step, found, replace, clusterFails, outcome, touched, exportFailed>>

NextCluster ==
    \/ \E o \in Object : Edit(o) \/ Delete(o)
    \/ ListKind \/ ListFails \/ WriteFile
    \/ RestoreStart \/ AskObject \/ PassObject \/ RestoreObject \/ RestoreEnd
-----------------------------------------------------------------------------
(* Properties.                                                             *)

Accounted ==
    /\ {o \in Object : InFile(o)} = failed \cup applied \cup skipped
    /\ failed \cap applied = {} /\ (failed \cup applied) \cap skipped = {}
    /\ \A o \in applied \ touched : content[o] = saved[o]

\* Without the flag a restore writes no object that is there, even when the call that
\* asks for it fails or it appears between that call and the creation; from the file
\* as it was exported it undoes no edit made since.  Its answer accounts for every
\* object of the file once: an error, one that was there, or one that was restored
\* and is as in the file unless someone has edited it since.
RestoreUndoesNoEdit ==
    [][/\ \A o \in applied' \ applied :
            /\ replace \/ version[o] = Gone
            /\ savedVersion[o] = Unnamed \/ content[o] = saved[o]
       /\ phase' = "done" => Accounted']_clusterVars
=============================================================================
