------------------------ MODULE GatewayRequest_proofs ------------------------
(***************************************************************************)
(* Proofs, for any finite set of requests and any route tables, that the   *)
(* active-connection gauge covers the requests that still count and so     *)
(* never wraps below zero.                                                 *)
(***************************************************************************)
EXTENDS GatewayRequest, FiniteSetTheorems, TLAPS

\* TypeOK without the claim that the gauge is not negative, which needs the
\* count of the requests behind it.
Shape ==
    /\ table \in Tables
    /\ reloads \in 0..MaxReloads
    /\ phase \in [Req -> Phases]
    /\ get \in [Req -> BOOLEAN]
    /\ plan \in [Req -> Plans]
    /\ counted \in [Req -> BOOLEAN] /\ rate \in [Req -> BOOLEAN] /\ collect \in [Req -> BOOLEAN]
    /\ tries \in [Req -> 0..MaxTries]
    /\ gauge \in Int
    /\ cached \in BOOLEAN
    /\ errs \in Nat /\ seen \in Nat
    /\ sticky \in [Req -> BOOLEAN]
    /\ fit \in [Req -> {"unfiltered", "filtered", "missed", "fits"}]

\* The plans are the tables and the default.
LEMMA PlanSet == NoPlan \in Plans /\ \A t \in Tables : t \in Plans
BY Zenon DEF Plans

\* A plan says whether the route has middlewares.
LEMMA PlanMw == \A p \in Plans : p.mw \in BOOLEAN
<1>1. NoPlan.mw = FALSE
  BY DEF NoPlan
<1>2. \A t \in Tables : t.mw \in BOOLEAN
  BY TableAssumption
<1> QED
  BY <1>1, <1>2, Zenon DEF Plans

\* Every filter keeps the types.
LEMMA ShapeStep == Shape /\ [Next]_vars => Shape'
<1> SUFFICES ASSUME Shape, [Next]_vars PROVE Shape'
    OBVIOUS
<1> USE GatewayAssumption DEF Shape, shared, ctx, Move, Phases
<1>1. ASSUME NEW r \in Req, Filters(r) PROVE Shape'
  <2>1. CASE EarlyRequestFilter(r)
    BY <2>1 DEF EarlyRequestFilter
  <2>2. CASE FilterAnswers(r)
    BY <2>2 DEF FilterAnswers
  <2>3. CASE FilterSkips(r)
    BY <2>3 DEF FilterSkips
  <2>4. CASE FilterLimits(r)
    <3>1. PICK client \in BOOLEAN : Resolve(r, client)
      BY <2>4 DEF FilterLimits
    <3>2. /\ plan' \in [Req -> Plans]
          /\ counted' \in [Req -> BOOLEAN] /\ collect' \in [Req -> BOOLEAN]
          /\ rate' \in [Req -> BOOLEAN]
      <4>1. CASE ReplaceCtx(r, client)
        BY <4>1, PlanSet DEF ReplaceCtx
      <4>2. CASE KeepCtx(r, client)
        BY <4>2 DEF KeepCtx
      <4> QED
        BY <3>1, <4>1, <4>2 DEF Resolve
    <3>3. phase' \in [Req -> Phases]
      BY <2>4 DEF FilterLimits
    <3> QED
      BY <2>4, <3>2, <3>3 DEF FilterLimits
  <2>5. CASE FilterRest(r)
    <3>1. CacheEligible(r) \in BOOLEAN
      BY DEF CacheEligible
    <3>2. plan[r].mw \in BOOLEAN
      BY PlanMw
    <3> QED
      BY <2>5, <3>1, <3>2 DEF FilterRest
  <2>6. CASE UpstreamPeer(r)
    <3>1. /\ phase' \in [Req -> Phases]
          /\ UNCHANGED ctx \/ ReplaceCtx(r, FALSE)
          /\ UNCHANGED <<shared, get, tries, sticky, fit>>
      BY <2>6 DEF UpstreamPeer
    <3>2. CASE UNCHANGED ctx
      BY <3>1, <3>2
    <3>3. CASE ReplaceCtx(r, FALSE)
      BY <3>1, <3>3, PlanSet DEF ReplaceCtx
    <3> QED
      BY <3>1, <3>2, <3>3
  <2>7. CASE Retry(r)
    BY <2>7 DEF Retry
  <2>8. CASE UpstreamFails(r)
    BY <2>8 DEF UpstreamFails
  <2>9. CASE ResponseFilter(r)
    BY <2>9 DEF ResponseFilter, Respond
  <2>10. CASE BodyEnds(r)
    BY <2>10 DEF BodyEnds
  <2>11. CASE BodyDropped(r)
    BY <2>11 DEF BodyDropped
  <2>12. CASE Logging(r)
    BY <2>12 DEF Logging
  <2> QED
    BY <1>1, <2>1, <2>2, <2>3, <2>4, <2>5, <2>6, <2>7, <2>8, <2>9, <2>10, <2>11, <2>12
    DEF Filters
<1>2. CASE ReplaceTable
  BY <1>2 DEF ReplaceTable
<1>3. CASE NextSecond
  BY <1>3 DEF NextSecond
<1>4. CASE Expire
  BY <1>4 DEF Expire
<1>5. CASE UNCHANGED vars
  BY <1>5 DEF vars
<1> QED
  BY <1>1, <1>2, <1>3, <1>4, <1>5 DEF Next

\* The requests that count are finitely many.
LEMMA CountedFinite == IsFiniteSet(Counted) /\ Cardinality(Counted) \in Nat
<1>1. IsFiniteSet(Counted)
  BY GatewayAssumption, FS_Subset DEF Counted
<1> QED
  BY <1>1, FS_CardinalityType

\* A step that counts no further request and leaves the gauge alone keeps it
\* large enough.
LEMMA FewerCounted ==
    ASSUME Shape, GaugeCoversCounted, gauge' = gauge, Counted' \subseteq Counted
    PROVE  GaugeCoversCounted'
<1>1. Cardinality(Counted') <= Cardinality(Counted) /\ Cardinality(Counted') \in Nat
  BY CountedFinite, FS_Subset, FS_CardinalityType
<1> QED
  BY <1>1, CountedFinite DEF Shape, GaugeCoversCounted

\* The gauge stays large enough: it rises with every request that starts to
\* count and falls only with one that stops.
LEMMA GaugeStep == Shape /\ GaugeCoversCounted /\ [Next]_vars => GaugeCoversCounted'
<1> SUFFICES ASSUME Shape, GaugeCoversCounted, [Next]_vars PROVE GaugeCoversCounted'
    OBVIOUS
<1> USE DEF shared, ctx
<1>1. ASSUME NEW r \in Req, EarlyRequestFilter(r) PROVE GaugeCoversCounted'
  <2>1. Counted' = Counted \cup {r}
    BY <1>1 DEF EarlyRequestFilter, Counted, Shape
  <2>2. Cardinality(Counted') = IF r \in Counted THEN Cardinality(Counted)
                                                 ELSE Cardinality(Counted) + 1
    BY <2>1, CountedFinite, FS_AddElement
  <2> QED
    BY <1>1, <2>2, CountedFinite DEF EarlyRequestFilter, GaugeCoversCounted, Shape
<1>2. ASSUME NEW r \in Req, Logging(r) PROVE GaugeCoversCounted'
  <2>1. Counted' = Counted \ {r}
    BY <1>2 DEF Logging, Counted, Shape
  <2>2. Cardinality(Counted') = IF r \in Counted THEN Cardinality(Counted) - 1
                                                 ELSE Cardinality(Counted)
    BY <2>1, CountedFinite, FS_RemoveElement
  <2> QED
    BY <1>2, <2>2, CountedFinite DEF Logging, GaugeCoversCounted, Counted, Shape
<1>3. ASSUME NEW r \in Req, FilterLimits(r) \/ UpstreamPeer(r) PROVE GaugeCoversCounted'
  <2>1. Counted' \subseteq Counted
    BY <1>3 DEF FilterLimits, UpstreamPeer, Resolve, ReplaceCtx, KeepCtx, Counted, Shape
  <2> QED
    BY <1>3, <2>1, FewerCounted DEF FilterLimits, UpstreamPeer
<1>4. ASSUME UNCHANGED <<gauge, counted>> PROVE GaugeCoversCounted'
  BY <1>4, FewerCounted DEF Counted
<1>5. ASSUME NEW r \in Req, Filters(r) PROVE GaugeCoversCounted'
  <2>1. CASE \/ FilterAnswers(r) \/ FilterSkips(r) \/ FilterRest(r) \/ Retry(r)
             \/ UpstreamFails(r) \/ ResponseFilter(r) \/ BodyEnds(r) \/ BodyDropped(r)
    BY <1>4, <2>1 DEF FilterAnswers, FilterSkips, FilterRest, Retry, UpstreamFails,
                      ResponseFilter, Respond, BodyEnds, BodyDropped
  <2> QED
    BY <1>1, <1>2, <1>3, <1>5, <2>1 DEF Filters
<1>6. CASE ReplaceTable \/ NextSecond \/ Expire \/ UNCHANGED vars
  BY <1>4, <1>6 DEF ReplaceTable, NextSecond, Expire, vars
<1> QED
  BY <1>5, <1>6 DEF Next

\* The types and the bound on the gauge hold together.
LEMMA GaugeInvariant == Spec => [](Shape /\ GaugeCoversCounted)
<1>1. Init => Shape
  <2> SUFFICES ASSUME Init PROVE Shape
    OBVIOUS
  <2>1. /\ counted \in [Req -> BOOLEAN] /\ rate \in [Req -> BOOLEAN]
        /\ collect \in [Req -> BOOLEAN] /\ cached \in BOOLEAN
        /\ sticky \in [Req -> BOOLEAN]
    BY Zenon DEF Init
  <2>2. plan \in [Req -> Plans]
    BY PlanSet, Zenon DEF Init
  <2> QED
    BY <2>1, <2>2, GatewayAssumption DEF Init, Shape, Phases
<1>2. Init => GaugeCoversCounted
  <2> SUFFICES ASSUME Init PROVE GaugeCoversCounted
    OBVIOUS
  <2>1. Counted = {}
    BY DEF Init, Counted
  <2> QED
    BY <2>1, FS_EmptySet DEF Init, GaugeCoversCounted
<1>3. UNCHANGED vars => [Next]_vars
  OBVIOUS
<1> QED
  BY <1>1, <1>2, ShapeStep, GaugeStep, PTL DEF Spec

\* The gauge always covers the requests that will still be subtracted from it,
\* for any number of requests and any sequence of route tables.
THEOREM GaugeNeverWraps == Spec => []GaugeCoversCounted
BY GaugeInvariant, PTL

\* Type correctness: in particular active_connections is never negative.
THEOREM TypeCorrect == Spec => []TypeOK
<1>1. Shape /\ GaugeCoversCounted => TypeOK
  BY CountedFinite DEF Shape, GaugeCoversCounted, TypeOK
<1> QED
  BY <1>1, GaugeInvariant, PTL
=============================================================================
