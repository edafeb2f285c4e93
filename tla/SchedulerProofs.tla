-------------------------- MODULE SchedulerProofs ---------------------------
(***************************************************************************)
(* Theorems about Scheduler, for every registry and every setting.  That a *)
(* request stands while the round that will answer it is at work follows   *)
(* from an invariant of the cold lane, a round it is at is open, and one   *)
(* of the hot lane: a probe that is asking, and that no click overtook,    *)
(* has no operator's request before it.                                    *)
(***************************************************************************)
EXTENDS Scheduler, TLAPS

Requests == [Audited -> {"none", "drift", "operator"}]

(* The round the cold lane is at has been opened, and nothing but its own  *)
(* end closes it.                                                          *)
AtWork == cold \in Keys => cold \in open

(* An operator's request under a probe that is asking came after its read. *)
Overtaken ==
  \A r \in Audited : asking = "asking" /\ r = Head(probe) => request[r] # "operator"

(* The hot lane probes between two passes, and asks for what it found.      *)
Apart ==
  /\ probe # <<>> => pass = <<>> /\ ~ sweeping
  /\ asking # "no" => probe # <<>>

Inv ==
  /\ request \in Requests /\ AtWork
  /\ Overtaken /\ Apart /\ asking \in {"no", "asking", "overtaken"}

LEMMA KeysApart ==
  /\ <<"rest", "rest">> \notin Keys /\ Nothing \notin Keys
  /\ \A r \in Resources : Backfill(r) \notin Keys
  /\ \A u \in Units : u[1] = "audit" => u \in Keys /\ u = Audit(u[2])
  BY DEF Keys, Nothing, Audit, Walk, Backfill, Units

LEMMA InitInv == Init => Inv
  BY KeysApart DEF Init, Inv, Requests, AtWork, Overtaken, Apart

LEMMA ColdEndInv ==
  ASSUME Inv, NEW ok \in BOOLEAN, NEW done \in BOOLEAN, ColdEnd(ok, done)
  PROVE  Inv'
<1>1. request' \in Requests
  BY DEF Inv, Requests, ColdEnd
<1>2. cold' \notin Keys
  BY KeysApart DEF ColdEnd
<1>3. UNCHANGED hot
  BY DEF ColdEnd, hot
<1>4. Overtaken'
  <2> SUFFICES ASSUME NEW r \in Audited, asking = "asking", r = Head(probe)
               PROVE  request'[r] # "operator"
    BY <1>3 DEF Overtaken, hot
  <2>1. request[r] # "operator"
    BY DEF Inv, Overtaken
  <2>2. \/ request' = request
        \/ request' = [request EXCEPT ![cold[2]] = "none"]
    BY DEF ColdEnd
  <2> QED BY <2>1, <2>2 DEF Inv, Requests
<1> QED BY <1>1, <1>2, <1>3, <1>4 DEF Inv, AtWork, Apart, hot

LEMMA ProbeReadInv ==
  ASSUME Inv, ProbeRead PROVE Inv'
<1>1. UNCHANGED <<request, cold, open, pass, sweeping>> /\ probe # <<>>
  BY DEF ProbeRead
<1>2. \/ StandsAside(Head(probe)) /\ UNCHANGED asking /\ asking = "no"
      \/ ~ StandsAside(Head(probe)) /\ UNCHANGED probe /\ asking' = "asking"
  BY DEF ProbeRead
<1>3. Overtaken'
  BY <1>1, <1>2 DEF Overtaken, StandsAside
<1> QED BY <1>1, <1>2, <1>3 DEF Inv, AtWork, Apart

LEMMA ProbeWriteInv ==
  ASSUME Inv, ProbeWrite PROVE Inv'
<1>1. request' \in Requests /\ asking' = "no"
      /\ UNCHANGED <<cold, open, pass, sweeping>> /\ probe # <<>>
  BY DEF ProbeWrite, Inv, Apart, Requests
<1> QED BY <1>1 DEF Inv, AtWork, Overtaken, Apart

LEMMA ClickInv ==
  ASSUME Inv, RequestAudit PROVE Inv'
<1>1. PICK r \in Audited :
        /\ request' = [request EXCEPT ![r] = "operator"]
        /\ asking' = IF asking # "no" /\ r = Head(probe) THEN "overtaken" ELSE asking
        /\ UNCHANGED <<probe, cold, open, pass, sweeping>>
  BY DEF RequestAudit
<1>2. request' \in Requests /\ asking' \in {"no", "asking", "overtaken"}
  BY <1>1 DEF Inv, Requests
<1>3. Overtaken'
  <2> SUFFICES ASSUME NEW x \in Audited, asking' = "asking", x = Head(probe)
               PROVE  request'[x] # "operator"
    BY <1>1 DEF Overtaken
  <2>1. x # r /\ asking = "asking"
    BY <1>1
  <2> QED BY <1>1, <2>1 DEF Inv, Overtaken, Requests
<1> QED BY <1>1, <1>2, <1>3 DEF Inv, AtWork, Apart

LEMMA StepInv == Inv /\ [Next]_vars => Inv'
<1> SUFFICES ASSUME Inv, [Next]_vars PROVE Inv'
  OBVIOUS
<1> USE DEF Inv, AtWork, Overtaken, Apart
<1>1. CASE ColdBegin
  BY <1>1 DEF ColdBegin, hot, Requests
<1>2. CASE \E ok, done \in BOOLEAN : ColdEnd(ok, done)
  BY <1>2, ColdEndInv
<1>3. CASE Rest
  BY <1>3, KeysApart DEF Rest, hot
<1>4. CASE PassBegin
  BY <1>4 DEF PassBegin
<1>5. CASE SweepBegin
  BY <1>5 DEF SweepBegin
<1>6. CASE \E ok \in BOOLEAN : SweepEnd(ok)
  BY <1>6 DEF SweepEnd
<1>7. CASE PassEnd
  BY <1>7 DEF PassEnd
<1>8. CASE RequestSweep
  BY <1>8 DEF RequestSweep
<1>9. CASE RequestAudit
  BY <1>9, ClickInv
<1>10. CASE Restart
  BY <1>10, KeysApart DEF Restart
<1>11. CASE ProbeRead \/ ProbeWrite
  BY <1>11, ProbeReadInv, ProbeWriteInv
<1>12. CASE UNCHANGED vars
  BY <1>12 DEF vars, hot
<1> QED
  BY <1>1, <1>2, <1>3, <1>4, <1>5, <1>6, <1>7, <1>8, <1>9, <1>10, <1>11, <1>12 DEF Next

(* The request an operator leaves goes only with the end of a round of     *)
(* that resource, or to a probe it overtook.                               *)
Stands(r) ==
  request[r] = "operator" /\ request'[r] # "operator"
    => \/ cold = Audit(r) /\ Audit(r) \in open \ open'
       \/ asking = "overtaken" /\ r = Head(probe)

LEMMA ColdEndStands ==
  ASSUME Inv, NEW ok \in BOOLEAN, NEW done \in BOOLEAN, ColdEnd(ok, done),
         NEW r \in Audited
  PROVE  Stands(r)
<1> SUFFICES ASSUME request[r] = "operator", request'[r] # "operator"
             PROVE  cold = Audit(r) /\ Audit(r) \in open \ open'
  BY DEF Stands
<1>1. cold \in Units /\ cold[1] = "audit" /\ ok /\ done /\ cold[2] = r
  BY DEF ColdEnd, Inv, Requests
<1>2. cold = Audit(r) /\ cold \in Keys
  BY <1>1, KeysApart
<1>3. cold \in open
  BY <1>2 DEF Inv, AtWork
<1>4. open' = open \ {cold}
  BY <1>1 DEF ColdEnd, Over
<1> QED BY <1>2, <1>3, <1>4

LEMMA ProbeWriteStands ==
  ASSUME Inv, ProbeWrite, NEW r \in Audited PROVE Stands(r)
<1>1. asking # "no" /\ request' = [request EXCEPT ![Head(probe)] = "drift"]
  BY DEF ProbeWrite
<1>2. CASE r = Head(probe)
  BY <1>1, <1>2 DEF Inv, Overtaken, Stands
<1>3. CASE r # Head(probe)
  BY <1>1, <1>3 DEF Inv, Requests, Stands
<1> QED BY <1>2, <1>3

LEMMA StepStands ==
  ASSUME Inv, [Next]_vars, NEW r \in Audited PROVE Stands(r)
<1>1. CASE ColdBegin
  BY <1>1 DEF ColdBegin, Stands
<1>2. CASE \E ok, done \in BOOLEAN : ColdEnd(ok, done)
  BY <1>2, ColdEndStands
<1>3. CASE Rest \/ PassBegin \/ SweepBegin \/ (\E ok \in BOOLEAN : SweepEnd(ok))
           \/ PassEnd \/ ProbeRead \/ RequestSweep \/ Restart \/ UNCHANGED vars
  BY <1>3 DEF Rest, PassBegin, SweepBegin, SweepEnd, PassEnd, ProbeRead, RequestSweep,
     Restart, vars, Stands
<1>4. CASE ProbeWrite
  BY <1>4, ProbeWriteStands
<1>5. CASE RequestAudit
  BY <1>5 DEF RequestAudit, Inv, Requests, Stands
<1> QED BY <1>1, <1>2, <1>3, <1>4, <1>5 DEF Next

(* For every registry, setting and bound, the operator's request stands    *)
(* until a round of that resource completes: no restart, failure or round  *)
(* of another resource takes it away, and no probe but one that had read   *)
(* the request before the operator left it (_sync_action, request_audit).  *)
THEOREM RequestsStand == Spec => OperatorStands
<1>1. Init => Inv
  BY InitInv
<1>2. Inv /\ [Next]_vars => Inv'
  BY StepInv
<1>3. Inv /\ [Next]_vars =>
        [\A r \in Audited : request[r] = "operator" /\ request'[r] # "operator"
           => \/ cold = Audit(r) /\ Audit(r) \in open \ open'
              \/ asking = "overtaken" /\ r = Head(probe)]_vars
  BY StepStands DEF Stands
<1> QED BY <1>1, <1>2, <1>3, PTL DEF Spec, OperatorStands

(* The round the cold lane is at is open, at every moment.                 *)
THEOREM WorksOnOpenRounds == Spec => []AtWork
<1>1. Inv => AtWork
  BY DEF Inv
<1> QED BY <1>1, InitInv, StepInv, PTL DEF Spec
=============================================================================
