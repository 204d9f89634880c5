------------------------ MODULE ConfigLifecycle_proofs ------------------------
(***************************************************************************)
(* Proof, for any number of concurrent requests and restarts and any sets  *)
(* of sites, lists and certificates, that a rejected configuration never   *)
(* runs.                                                                   *)
(***************************************************************************)
EXTENDS ConfigLifecycle, TLAPS

Places == {"new", "save", "apply", "certs", "rows", "load", "publish", "row",
           "pem", "sync", "drop", "forget", "done"}

\* The invariant alone is not inductive: Publish copies a request's own
\* configuration into the in-memory one.  So the places that lie behind a
\* successful apply_config, and an upload's save, whose configuration is a copy
\* of the in-memory one, must hold accepted sites too.
Checked(r) ==
    pc[r] \in {"certs", "rows", "load", "publish"} \/ (pc[r] = "save" /\ op[r] = "upload")

AcceptedInv ==
    /\ pc \in [Req -> Places]
    /\ op \in [Req -> Kinds]
    /\ local = [r \in Req |-> local[r]]
    /\ router \notin BadRoutes
    /\ runtime.routes \notin BadRoutes
    /\ \A r \in Req : Checked(r) => local[r].routes \notin BadRoutes
    /\ \A r \in Req : pc[r] \in {"row", "pem", "sync"} => op[r] = "upload"

\* A request that begins holds no checked configuration yet: only an upload is
\* checked at its save, and it does not begin there.
LEMMA BeginKeeps ==
    ASSUME AcceptedInv, NEW r \in Req, NEW k \in Kinds, NEW cfg, NEW a,
           NEW next \in {"save", "apply", "row", "drop"},
           Begin(r, k, cfg, a, next),
           next = "save" => k # "upload", next = "row" => k = "upload"
    PROVE  AcceptedInv'
BY DEF AcceptedInv, Begin, Checked, Places, Kinds, stores

\* Answering a request ends it and leaves the other requests alone.
LEMMA AnswerKeeps ==
    ASSUME AcceptedInv, NEW r \in Req, NEW ok, Answer(r, ok),
           router' \notin BadRoutes, runtime'.routes \notin BadRoutes
    PROVE  AcceptedInv'
BY DEF AcceptedInv, Answer, Checked, Places

\* Moving a request on, with its configuration unchanged, keeps the invariant
\* if the configuration is accepted where the request gets to.
LEMMA GotoKeeps ==
    ASSUME AcceptedInv, NEW r \in Req, NEW next \in Places, Goto(r, next),
           local' = local, router' \notin BadRoutes, runtime' = runtime,
           (next \in {"certs", "rows", "load", "publish"} \/ (next = "save" /\ op[r] = "upload"))
               => local[r].routes \notin BadRoutes,
           next \in {"row", "pem", "sync"} => op[r] = "upload"
    PROVE  AcceptedInv'
BY DEF AcceptedInv, Goto, Checked, Places

\* Every step of every request, a stop and a start keep the invariant.
LEMMA AcceptedStep == AcceptedInv /\ [Next]_vars => AcceptedInv'
<1> SUFFICES ASSUME AcceptedInv, [Next]_vars PROVE AcceptedInv'
    OBVIOUS
<1>1. ASSUME NEW r \in Req, Handle(r) PROVE AcceptedInv'
  <2>1. CASE PutConfig(r)
    BY <2>1, BeginKeeps DEF PutConfig, Kinds
  <2>2. CASE ReloadConfig(r)
    BY <2>2, BeginKeeps DEF ReloadConfig, Kinds
  <2>3. CASE AccessListsCreate(r)
    BY <2>3, BeginKeeps DEF AccessListsCreate, Kinds
  <2>4. CASE AccessListsDelete(r)
    BY <2>4, BeginKeeps DEF AccessListsDelete, Kinds
  <2>5. CASE CertificatesUpload(r)
    BY <2>5, BeginKeeps DEF CertificatesUpload, Kinds
  <2>6. CASE CertificatesDelete(r)
    BY <2>6, BeginKeeps DEF CertificatesDelete, Kinds
  <2> QED
    BY <1>1, <2>1, <2>2, <2>3, <2>4, <2>5, <2>6 DEF Handle
<1>2. ASSUME NEW r \in Req, Step(r) PROVE AcceptedInv'
  <2> USE DEF At
  <2>1. CASE SaveConfig(r)
    BY <2>1, GotoKeeps DEF SaveConfig, AcceptedInv, Checked, Places
  <2>2. CASE ApplyConfig(r)
    <3>1. CASE local[r].routes \in BadRoutes
      BY <2>2, <3>1, AnswerKeeps DEF ApplyConfig, AcceptedInv, stores
    <3>2. CASE local[r].routes \notin BadRoutes
      BY <2>2, <3>2, GotoKeeps DEF ApplyConfig, AcceptedInv, Places
    <3> QED
      BY <3>1, <3>2
  <2>3. CASE ReloadCerts(r)
    <3>1. CASE Answer(r, FALSE) /\ UNCHANGED stores
      BY <3>1, AnswerKeeps DEF AcceptedInv, stores
    <3>2. CASE Goto(r, "rows") /\ UNCHANGED <<router, runtime, local>>
      BY <2>3, <3>2, GotoKeeps DEF ReloadCerts, AcceptedInv, Checked, Places
    <3> QED
      BY <2>3, <3>1, <3>2 DEF ReloadCerts, stores
  <2>4. CASE ReadRows(r)
    BY <2>4, GotoKeeps DEF ReadRows, AcceptedInv, Checked, Places, stores
  <2>5. CASE LoadRows(r)
    BY <2>5, GotoKeeps DEF LoadRows, AcceptedInv, Checked, Places
  <2>6. CASE Publish(r)
    BY <2>6, AnswerKeeps DEF Publish, AcceptedInv, Checked
  <2>7. CASE AddRow(r)
    BY <2>7, GotoKeeps DEF AddRow, AcceptedInv, Places
  <2>8. CASE StorePem(r)
    <3>1. CASE arg[r] \notin ValidPem
      BY <2>8, <3>1, AnswerKeeps DEF StorePem, AcceptedInv, stores
    <3>2. CASE arg[r] \in ValidPem
      BY <2>8, <3>2, GotoKeeps DEF StorePem, AcceptedInv, Places
    <3> QED
      BY <3>1, <3>2
  <2>9. CASE SyncTls(r)
    <3>1. PICK t : local' = [local EXCEPT ![r] = Config(runtime.routes, runtime.lists, t)]
      BY <2>9 DEF SyncTls
    <3>2. local'[r].routes = runtime.routes
      BY <3>1 DEF AcceptedInv, Config
    <3> QED
      BY <2>9, <3>1, <3>2 DEF SyncTls, Goto, AcceptedInv, Checked, Places, stores
  <2>10. CASE DropRow(r)
    <3>1. CASE Answer(r, FALSE) /\ UNCHANGED stores
      BY <3>1, AnswerKeeps DEF AcceptedInv, stores
    <3>2. CASE Goto(r, "forget") /\ UNCHANGED <<router, runtime, local>>
      BY <3>2, GotoKeeps DEF AcceptedInv, Places
    <3> QED
      BY <2>10, <3>1, <3>2 DEF DropRow
  <2>11. CASE ForgetCert(r)
    BY <2>11, AnswerKeeps DEF ForgetCert, AcceptedInv
  <2>12. CASE WriteFails(r)
    BY <2>12, AnswerKeeps DEF WriteFails, AcceptedInv, stores
  <2>13. CASE ReadFails(r)
    BY <2>13, GotoKeeps DEF ReadFails, AcceptedInv, Checked, Places, stores
  <2> QED
    BY <1>2, <2>1, <2>2, <2>3, <2>4, <2>5, <2>6, <2>7, <2>8, <2>9, <2>10, <2>11,
       <2>12, <2>13 DEF Step
<1>3. CASE Crash
  BY <1>3, ConfigAssumption
  DEF Crash, AcceptedInv, Checked, Places, EmptyConfig, Config
<1>4. CASE Start
  <2>1. router' \notin BadRoutes /\ runtime'.routes \notin BadRoutes
    BY <1>4 DEF Start, AcceptedInv, Config
  <2> QED
    BY <1>4, <2>1 DEF Start, AcceptedInv, Checked, request
<1>5. CASE Reconcile
  <2>1. runtime'.routes = runtime.routes
    BY <1>5 DEF Reconcile, Config
  <2> QED
    BY <1>5, <2>1 DEF Reconcile, AcceptedInv, Checked, request
<1>6. CASE UNCHANGED vars
  BY <1>6 DEF vars, stores, request, AcceptedInv, Checked
<1> QED
  BY <1>1, <1>2, <1>3, <1>4, <1>5, <1>6 DEF Next

\* Whatever requests run side by side and wherever the process stops, a
\* configuration apply_config rejects never becomes the routing table or the
\* in-memory configuration.
THEOREM OnlyAcceptedRuns == Spec => []RejectedNeverRuns
<1>1. Init => AcceptedInv
  BY ConfigAssumption DEF Init, AcceptedInv, Checked, Places, Kinds, EmptyConfig, Config
<1>2. AcceptedInv => RejectedNeverRuns
  BY DEF AcceptedInv, RejectedNeverRuns
<1> QED
  BY <1>1, <1>2, AcceptedStep, PTL DEF Spec
=============================================================================
