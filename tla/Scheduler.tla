----------------------------- MODULE Scheduler ------------------------------
(***************************************************************************)
(* The two lanes of the background scheduler (scheduler.py).               *)
(*   hot   passes over the registry, sweeps every resource that is due,    *)
(*         and now and then probes for drift                               *)
(*   cold  takes one unit of bulk work a tick: of the first backfill that  *)
(*         is not done, else of the next round in the ring, where audits   *)
(*         stand before walks                                              *)
(* They meet in mirror_sync_state and mirror_meta, where the operator's    *)
(* console leaves its requests too.  A restart keeps what is in the tables *)
(* and loses what is in the object: retry, last and the units under way.   *)
(*                                                                         *)
(* Time is counted in ticks of the cold lane, and every clock is a         *)
(* countdown.  A unit takes less than a tick.                              *)
(*                                                                         *)
(* An operator named Mut... is a deliberately wrong variant of the one it  *)
(* precedes; nothing uses it but the checks that a property notices.       *)
(***************************************************************************)
EXTENDS Naturals, Sequences, SequencesExt

CONSTANTS
  Registry,     \* the resources, in the order of registry.full_and_lite()
  Walked,       \* those of method nested_walk
  Audited,      \* those with an audit_interval_s
  Broken,       \* those whose endpoint answers every request with an error
  Pages,        \* units of a backfill
  Interval,     \* incr_interval_s, in ticks
  Nightly,      \* audit_interval_hours, in ticks
  Cooldown,     \* DRIFT_AUDIT_MIN_INTERVAL_S, in ticks
  Backoff,      \* COLD_RETRY_S, in ticks
  MaxClicks,    \* bound on the operator's requests
  MaxFaults     \* bound on failed units of the others, and restarts

Resources == ToSet(Registry)

(* The rounds that may be in the ring, in its order.                       *)
Audit(r) == <<"audit", r>>
Walk(r) == <<"walk", r>>
Backfill(r) == <<"backfill", r>>
Rounds ==
  [i \in DOMAIN SelectSeq(Registry, LAMBDA r : r \in Audited) |->
     Audit(SelectSeq(Registry, LAMBDA r : r \in Audited)[i])]
  \o [i \in DOMAIN SelectSeq(Registry, LAMBDA r : r \in Walked) |->
        Walk(SelectSeq(Registry, LAMBDA r : r \in Walked)[i])]
Nothing == <<"none", "none">>
Keys == {Audit(r) : r \in Audited} \cup {Walk(r) : r \in Walked}
Units == Keys \cup {Backfill(r) : r \in Resources}

(* A drift request does not come back to the ring before every other round *)
(* has had its turn.                                                       *)
ASSUME SchedulerAssumption ==
  /\ Registry \in Seq(Resources) /\ IsInjective(Registry)
  /\ Walked \subseteq Resources /\ Audited \subseteq Resources \ Walked
  /\ Broken \subseteq Resources /\ Nothing \notin Units
  /\ {Pages, Backoff, MaxClicks, MaxFaults} \subseteq Nat
  /\ Cooldown \in Nat /\ Cooldown >= Len(Rounds)
  /\ Interval \in Nat /\ Interval >= Cooldown
  /\ Nightly \in Nat /\ Nightly >= Cooldown

VARIABLES
  scheduled,  \* audit_interval_hours is not 0, a setting
  left,     \* units of backfill left; backfill_completed_at is set at 0
  due,      \* ticks to next_run_at
  request,  \* audit_requested:<name>
  age,      \* ticks since the later of last_audit_started_at, _completed_at
  open,     \* the rounds in progress
  retry,    \* _cold_retry_at: ticks until a unit that failed is ready
  last,     \* _cold_ring_last
  cold,     \* what the cold lane is at: a unit, nothing, or its wait
  pass,     \* what is left of the hot lane's pass; <<>> between two passes
  seen,     \* resources whose next_run_at is not after this pass's `now'
  sweeping, \* the hot lane is inside the sweep of Head(pass)
  probe,    \* resources the drift probe has found wanting and not asked for
  asking,   \* the hot lane is inside request_audit, for Head(probe): it has
            \* read the request, and is overtaken when the operator clicks
  budget    \* what is left of the bounds

hot == <<pass, seen, sweeping, probe, asking>>
vars == <<scheduled, left, due, request, age, open, retry, last, cold, hot, budget>>

TypeOK ==
  /\ scheduled \in BOOLEAN
  /\ left \in [Resources -> 0 .. Pages] /\ due \in [Resources -> 0 .. Interval]
  /\ request \in [Audited -> {"none", "drift", "operator"}]
  /\ age \in [Audited -> 0 .. Nightly]
  /\ open \subseteq Keys /\ last \in Keys \cup {Nothing}
  /\ retry \in [Units -> 0 .. Backoff]
  /\ cold \in Units \cup {Nothing, <<"rest", "rest">>}
  /\ cold \in Keys => left[cold[2]] = 0
  /\ pass \in Seq(Resources) /\ seen \subseteq Resources
  /\ sweeping \in BOOLEAN
  /\ sweeping => pass # <<>> /\ left[Head(pass)] = 0 /\ Head(pass) \notin Walked
  /\ probe \in Seq(Audited) /\ asking \in {"no", "asking", "overtaken"}
  /\ asking # "no" => probe # <<>>
  /\ budget \in [clicks : 0 .. MaxClicks, faults : 0 .. MaxFaults]

(* next_run_at is born due; no audit has ever run.                         *)
Init ==
  /\ scheduled \in BOOLEAN
  /\ left \in [Resources -> {0, Pages}] /\ due = [r \in Resources |-> 0]
  /\ request = [r \in Audited |-> "none"] /\ age = [r \in Audited |-> Nightly]
  /\ open = {} /\ retry = [u \in Units |-> 0] /\ last = Nothing
  /\ cold = Nothing /\ pass = <<>> /\ seen = {} /\ sweeping = FALSE
  /\ probe = <<>> /\ asking = "no"
  /\ budget = [clicks |-> MaxClicks, faults |-> MaxFaults]

Spend(what) == budget[what] > 0 /\ budget' = [budget EXCEPT ![what] = @ - 1]

(* How a unit or a sweep of r ends: a broken endpoint never answers, any   *)
(* other now and then.                                                     *)
Outcome(r, ok) ==
  IF r \in Broken THEN ~ok /\ UNCHANGED budget
  ELSE IF ok THEN UNCHANGED budget ELSE Spend("faults")

Filled(r) == left[r] = 0

-----------------------------------------------------------------------------
(* The cold lane. *)

MutAuditDue(r) ==
  /\ Filled(r) /\ scheduled
  /\ request[r] = "operator" \/ age[r] >= Nightly
     \/ (request[r] # "none" /\ age[r] >= Cooldown)

AuditDue(r) ==
  /\ Filled(r)
  /\ \/ request[r] = "operator"
     \/ scheduled /\ age[r] >= Nightly
     \/ scheduled /\ request[r] # "none" /\ age[r] >= Cooldown

(* A round in progress is in the ring whatever the cadence says. *)
InRing(u) ==
  \/ /\ u[1] = "audit" /\ u[2] \in Audited
     /\ u \in open \/ AuditDue(u[2])
  \/ /\ u[1] = "walk" /\ u[2] \in Walked /\ Filled(u[2])
     /\ u \in open \/ due[u[2]] = 0

MutRotated(ring) == ring

(* The ring, starting just past the unit that ran last, if it is there. *)
Rotated(ring) ==
  LET at == {i \in DOMAIN ring : ring[i] = last}
  IN  IF at = {} THEN ring
      ELSE LET i == CHOOSE i \in at : TRUE
           IN  SubSeq(ring, i + 1, Len(ring)) \o SubSeq(ring, 1, i)

(* The units of this tick, in the order of preference, that may run now. *)
Unfilled == SelectSeq(Registry, LAMBDA r : ~Filled(r) /\ retry[Backfill(r)] = 0)
Ready == SelectSeq(Rotated(SelectSeq(Rounds, InRing)), LAMBDA u : retry[u] = 0)

(* An audit without a round opens one, and last_audit_started_at is set.   *)
ColdBegin ==
  /\ cold = Nothing /\ (Unfilled # <<>> \/ Ready # <<>>)
  /\ cold' = IF Unfilled # <<>> THEN Backfill(Head(Unfilled)) ELSE Head(Ready)
  /\ open' = IF cold' \in Keys THEN open \cup {cold'} ELSE open
  /\ age' = [r \in Audited |-> IF Audit(r) \in open' \ open THEN 0 ELSE age[r]]
  /\ UNCHANGED <<scheduled, left, due, request, retry, last, hot, budget>>

(* A unit ran, and its round goes on or is done.                           *)
Over(u, ok, done) ==
  /\ retry' = [retry EXCEPT ![u] = IF ok THEN 0 ELSE Backoff]
  /\ last' = IF u \in Keys THEN u ELSE last
  /\ open' = IF ok /\ done THEN open \ {u} ELSE open

(* The audit's completion answers whatever asked for it; the walk's puts   *)
(* the next round an interval away, as the end of its backfill does, which *)
(* for the other resources leaves next_run_at as it was born.              *)
ColdEnd(ok, done) ==
  /\ cold \in Units
  /\ LET r == cold[2]
         ended == ok /\ done
     IN  /\ Outcome(r, ok)
         /\ cold[1] = "backfill" => done = (left[r] <= 1)
         /\ Over(cold, ok, done)
         /\ left' = IF cold[1] = "backfill" /\ ok THEN [left EXCEPT ![r] = @ - 1] ELSE left
         /\ request' = IF cold[1] = "audit" /\ ended THEN [request EXCEPT ![r] = "none"] ELSE request
         /\ age' = IF cold[1] = "audit" /\ ended THEN [age EXCEPT ![r] = 0] ELSE age
         /\ due' = IF r \in Walked /\ ended THEN [due EXCEPT ![r] = Interval] ELSE due
  /\ cold' = <<"rest", "rest">>
  /\ UNCHANGED <<scheduled, hot>>

Sooner(n) == IF n = 0 THEN 0 ELSE n - 1

(* The wait between two units, during which time passes. *)
Rest ==
  /\ \/ cold = <<"rest", "rest">>
     \/ cold = Nothing /\ Unfilled = <<>> /\ Ready = <<>>
  /\ cold' = Nothing
  /\ due' = [r \in Resources |-> Sooner(due[r])]
  /\ age' = [r \in Audited |-> IF age[r] = Nightly THEN Nightly ELSE age[r] + 1]
  /\ retry' = [u \in Units |-> Sooner(retry[u])]
  /\ UNCHANGED <<scheduled, left, request, open, last, hot, budget>>

-----------------------------------------------------------------------------
(* The hot lane. *)

(* Nothing calls PCO before there is a backfill to build on. *)
PassBegin ==
  /\ pass = <<>> /\ probe = <<>> /\ \E r \in Resources : Filled(r)
  /\ pass' = Registry /\ seen' = {r \in Resources : due[r] = 0}
  /\ UNCHANGED <<scheduled, left, due, request, age, open, retry, last, cold>>
  /\ UNCHANGED <<sweeping, probe, asking, budget>>

ToSweep(r) == r \notin Walked /\ Filled(r) /\ r \in seen /\ due[r] = 0

(* On to the next resource that is due. *)
SweepBegin ==
  /\ pass # <<>> /\ ~sweeping
  /\ \E i \in DOMAIN pass :
       /\ ToSweep(pass[i]) /\ \A j \in 1 .. i - 1 : ~ToSweep(pass[j])
       /\ pass' = SubSeq(pass, i, Len(pass))
  /\ sweeping' = TRUE
  /\ UNCHANGED <<scheduled, left, due, request, age, open, retry, last, cold>>
  /\ UNCHANGED <<seen, probe, asking, budget>>

MutSweepEnd(ok) ==
  /\ sweeping /\ Outcome(Head(pass), ok)
  /\ due' = IF ok THEN [due EXCEPT ![Head(pass)] = Interval] ELSE due
  /\ pass' = (IF ok THEN Tail(pass) ELSE <<>>) /\ sweeping' = FALSE
  /\ UNCHANGED <<scheduled, left, request, age, open, retry, last, cold>>
  /\ UNCHANGED <<seen, probe, asking>>

(* _guard: a sweep that fails is still due, and costs the others nothing.  *)
(* A sweep that ends writes next_run_at over a request made meanwhile.     *)
SweepEnd(ok) ==
  /\ sweeping /\ Outcome(Head(pass), ok)
  /\ due' = IF ok THEN [due EXCEPT ![Head(pass)] = Interval] ELSE due
  /\ pass' = Tail(pass) /\ sweeping' = FALSE
  /\ UNCHANGED <<scheduled, left, request, age, open, retry, last, cold>>
  /\ UNCHANGED <<seen, probe, asking>>

(* The end of a pass.  When 900 seconds have gone by the drift probe       *)
(* counts the rows of what is filled, and may find `some' wanting.         *)
PassEnd ==
  /\ pass # <<>> /\ ~sweeping /\ \A i \in DOMAIN pass : ~ToSweep(pass[i])
  /\ \E some \in SUBSET Audited :
       /\ \A r \in some : Filled(r) /\ r \notin Broken
       /\ probe' = SelectSeq(Registry, LAMBDA r : r \in some)
  /\ pass' = <<>> /\ seen' = {}
  /\ UNCHANGED <<scheduled, left, due, request, age, open, retry, last, cold>>
  /\ UNCHANGED <<sweeping, asking, budget>>

MutStandsAside(r) == FALSE

(* request_audit(.., "drift") returns when it reads an operator's request. *)
StandsAside(r) == request[r] = "operator"

ProbeRead ==
  /\ probe # <<>> /\ asking = "no"
  /\ IF StandsAside(Head(probe)) THEN probe' = Tail(probe) /\ UNCHANGED asking
     ELSE asking' = "asking" /\ UNCHANGED probe
  /\ UNCHANGED <<scheduled, left, due, request, age, open, retry, last, cold>>
  /\ UNCHANGED <<pass, seen, sweeping, budget>>

(* Its set_meta is a statement of its own, and whatever was asked since it *)
(* read is written over.                                                   *)
ProbeWrite ==
  /\ asking # "no"
  /\ request' = [request EXCEPT ![Head(probe)] = "drift"]
  /\ probe' = Tail(probe) /\ asking' = "no"
  /\ UNCHANGED <<scheduled, left, due, age, open, retry, last, cold>>
  /\ UNCHANGED <<pass, seen, sweeping, budget>>

-----------------------------------------------------------------------------
(* The operator, and restarts. *)

(* request_sweep sets next_run_at to the present second: the pass's own    *)
(* second, or one the pass does not see.                                   *)
RequestSweep ==
  \E r \in Resources :
    /\ Spend("clicks")
    /\ due' = [due EXCEPT ![r] = 0]
    /\ IF pass = <<>> THEN seen' = seen ELSE seen' \in {seen \cup {r}, seen \ {r}}
    /\ UNCHANGED <<scheduled, left, request, age, open, retry, last, cold>>
    /\ UNCHANGED <<pass, sweeping, probe, asking>>

RequestAudit ==
  \E r \in Audited :
    /\ Spend("clicks")
    /\ request' = [request EXCEPT ![r] = "operator"]
    /\ asking' = IF asking # "no" /\ r = Head(probe) THEN "overtaken" ELSE asking
    /\ UNCHANGED <<scheduled, left, due, age, open, retry, last, cold>>
    /\ UNCHANGED <<pass, seen, sweeping, probe>>

Restart ==
  /\ Spend("faults")
  /\ retry' = [u \in Units |-> 0] /\ last' = Nothing /\ cold' = Nothing
  /\ pass' = <<>> /\ seen' = {} /\ sweeping' = FALSE
  /\ probe' = <<>> /\ asking' = "no"
  /\ UNCHANGED <<scheduled, left, due, request, age, open>>

Cold == ColdBegin \/ (\E ok, done \in BOOLEAN : ColdEnd(ok, done)) \/ Rest
Hot ==
  \/ PassBegin \/ SweepBegin \/ (\E ok \in BOOLEAN : SweepEnd(ok)) \/ PassEnd
  \/ ProbeRead \/ ProbeWrite

Next ==
  \/ ColdBegin \/ (\E ok, done \in BOOLEAN : ColdEnd(ok, done)) \/ Rest
  \/ PassBegin \/ SweepBegin \/ (\E ok \in BOOLEAN : SweepEnd(ok)) \/ PassEnd
  \/ ProbeRead \/ ProbeWrite
  \/ RequestSweep \/ RequestAudit \/ Restart

Spec == Init /\ [][Next]_vars

(* Two daemon threads that never stop looping.  That a round comes to its  *)
(* end is not assumed.                                                     *)
FairSpec == Spec /\ WF_vars(Cold) /\ WF_vars(Hot)

-----------------------------------------------------------------------------
(* A round in the ring gets its turn, however long the others go on, fail  *)
(* or come back (_rotated).                                                *)
NoUnitStarves == \A u \in Keys : InRing(u) ~> (cold = u \/ ~InRing(u))

(* What the operator asked for is taken up: behind no cadence, cooldown or *)
(* switch (_audit_due).  A probe that was asking when the operator clicked *)
(* may take the request for its own (ProbeWrite); it is then taken up      *)
(* after the cooldown, and never where scheduled audits are off.           *)
OperatorHeard ==
  \A r \in Audited \ Broken :
    request[r] = "operator"
    ~> (cold = Audit(r) \/ (request[r] = "drift" /\ ~scheduled))

(* The operator's request stands until a round of that resource completes, *)
(* through restarts and probes, but for the probe that was inside          *)
(* request_audit when it was made (request_audit, delete_audit_step).      *)
OperatorStands ==
  [][\A r \in Audited : request[r] = "operator" /\ request'[r] # "operator"
       => \/ cold = Audit(r) /\ Audit(r) \in open \ open'
          \/ asking = "overtaken" /\ r = Head(probe)]_vars

(* What request_audit says of itself (ingest.py:70): a request only ever   *)
(* escalates.  A probe overtaken by the operator demotes it.               *)
OnlyEscalates ==
  [][\A r \in Audited : request[r] = "operator" => request'[r] # "drift"]_vars

(* A resource that is filled and due is swept, whatever else fails         *)
(* (run_once, _guard).                                                     *)
SweepsGoOn ==
  \A r \in Resources \ (Broken \cup Walked) :
    (Filled(r) /\ due[r] = 0) ~> (due[r] > 0)
=============================================================================
