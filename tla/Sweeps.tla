------------------------------- MODULE Sweeps -------------------------------
(***************************************************************************)
(* How one resource of the mirror is filled and kept current by polling    *)
(* (pcomirror/ingest.py): the backfill, in bounded units, and then the     *)
(* incremental sweep, both from a persisted cursor, while Planning Center  *)
(* (PCO) edits, creates and deletes.  A resource is swept in one of two    *)
(* ways:                                                                   *)
(*   keyset      pages ordered by updated_at, from the cursor on; a second *)
(*               that fills a page is drained by offset                    *)
(*   descending  where[updated_at] is not supported: a backfill by offset, *)
(*               then pages newest first down to the watermark             *)
(* A page is fetched and written in one step: upsert keeps a page from     *)
(* taking back what came in since it was fetched, so what PCO changes, and *)
(* the webhooks and hydrations of the hot lane write, between the two might*)
(* as well come after.  A crash may leave any part of a page written.      *)
(*                                                                         *)
(* An operator named Mut... is a deliberately wrong variant of the one it  *)
(* precedes; nothing uses it but the checks that a property notices.       *)
(***************************************************************************)
EXTENDS Naturals, FiniteSetsExt

CONSTANTS
  Recs,         \* record ids, in PCO's default order
  Kinds,        \* the ways of sweeping
  PageSize,     \* 100 in the code
  Start, MaxTime,  \* PCO's clock, in seconds: where it starts, its bound
  MaxChanges,   \* bound on PCO's edits, creations and deletions
  MaxFaults     \* bound on error answers and crashes

SweepsAssumption ==
  /\ Recs \subseteq Nat /\ IsFiniteSet(Recs)
  /\ Kinds \subseteq {"keyset", "descending"}
  /\ {PageSize, Start, MaxTime} \subseteq Nat \ {0}
  /\ {MaxChanges, MaxFaults} \subseteq Nat

VARIABLES
  kind,     \* how this resource is swept
  clock,    \* PCO's clock
  pco,      \* PCO's records: second and number of the last change
  mirror,   \* the versions the mirror holds
  saved,    \* mirror_sync_state: phase, cursor or watermark, seen ids, offset
  job,      \* the sweep in progress
  torn,     \* seconds that were changed, or not answered, while being read
  budget    \* what is left of the bounds

vars == <<kind, clock, pco, mirror, saved, job, torn, budget>>

Absent == [uat |-> 0, rev |-> 0]
Version == [uat : 0 .. MaxTime, rev : 0 .. MaxChanges]

IdleJob == [at |-> "idle", cur |-> 0, seen |-> {}, off |-> 0, hi |-> 0]

TypeOK ==
  /\ kind \in Kinds /\ clock \in Start .. MaxTime
  /\ pco \in [Recs -> Version] /\ mirror \in [Recs -> Version]
  /\ saved \in [phase : {"backfilling", "streaming"}, cursor : 0 .. MaxTime + 1,
                seen : SUBSET Recs, off : Nat]
  /\ job \in [at : {"idle", "keyset", "drain", "offset", "measure", "newest"},
              cur : 0 .. MaxTime + 1, seen : SUBSET Recs, off : Nat, hi : 0 .. MaxTime]
  /\ torn \subseteq 0 .. MaxTime
  /\ budget \in [changes : 0 .. MaxChanges, faults : 0 .. MaxFaults]
  /\ saved.phase = "streaming" => saved.seen = {} /\ saved.off = 0

Init ==
  /\ kind \in Kinds
  /\ clock = Start
  /\ \E uat \in [Recs -> 0 .. Start] : pco = [r \in Recs |-> [uat |-> uat[r], rev |-> 0]]
  /\ mirror = [r \in Recs |-> Absent]
  /\ saved = [phase |-> "backfilling", cursor |-> 0, seen |-> {}, off |-> 0]
  /\ job = IdleJob
  /\ torn = {}
  /\ budget = [changes |-> MaxChanges, faults |-> MaxFaults]

Spend(what) == budget[what] > 0 /\ budget' = [budget EXCEPT ![what] = @ - 1]

Held == {r \in Recs : pco[r] # Absent}
Later(a, b) == IF a > b THEN a ELSE b

-----------------------------------------------------------------------------
(* What PCO answers: of the records asked for, in the order asked for, the *)
(* PageSize that come after the first `off'.                               *)
PageOf(ids, Before(_, _), off) ==
  {r \in ids : Cardinality({q \in ids : Before(q, r)}) \in off .. off + PageSize - 1}

Older(a, b) == pco[a].uat < pco[b].uat \/ (pco[a].uat = pco[b].uat /\ a < b)
Newer(a, b) == Older(b, a)

MutKeysetPage(from) == PageOf({r \in Held : pco[r].uat > from}, Older, 0)

KeysetPage(from) == PageOf({r \in Held : pco[r].uat >= from}, Older, 0)

DrainPage(second, off) == PageOf({r \in Held : pco[r].uat = second}, Older, off)

OffsetPage(off) == PageOf(Held, <, off)

NewestPage(off) == PageOf(Held, Newer, off)

Full(page) == Cardinality(page) = PageSize

(* upsert's guard. *)
Written(ids) ==
  [r \in Recs |-> IF r \in ids /\ pco[r].uat >= mirror[r].uat THEN pco[r] ELSE mirror[r]]

-----------------------------------------------------------------------------
Begin ==
  /\ job.at = "idle"
  /\ job' = CASE kind = "keyset" ->
                   [IdleJob EXCEPT !.at = "keyset", !.cur = saved.cursor, !.seen = saved.seen]
              [] kind # "keyset" /\ saved.phase = "backfilling" -> [IdleJob EXCEPT !.at = "offset", !.off = saved.off]
              [] OTHER -> [IdleJob EXCEPT !.at = "newest", !.hi = saved.cursor]
  /\ UNCHANGED <<kind, clock, pco, mirror, saved, torn, budget>>

(* The end of a backfill is the start of the sweeps, which need neither    *)
(* the seen ids nor an offset.                                             *)
Finish(cursor) ==
  /\ saved' = [phase |-> "streaming", cursor |-> cursor, seen |-> {}, off |-> 0]
  /\ job' = IdleJob

(* On to the next page, with the cursor committed. *)
Advance(cursor, seen) ==
  /\ saved' = [saved EXCEPT !.cursor = cursor,
                            !.seen = IF saved.phase = "backfilling" THEN seen ELSE {}]
  /\ job' = [IdleJob EXCEPT !.at = "keyset", !.cur = cursor, !.seen = seen]

(* A backfill ends at a short page of records it has seen; a sweep at any  *)
(* short page.                                                             *)
Exhausted(page) ==
  IF saved.phase = "backfilling" THEN ~ Full(page) /\ page \subseteq job.seen
  ELSE ~ Full(page)

Keyset ==
  /\ job.at = "keyset"
  /\ LET page == KeysetPage(job.cur)
         newest == Max({0} \cup {pco[r].uat : r \in page})
     IN  /\ mirror' = Written(page)
         /\ IF page = {} THEN Finish(job.cur)
            ELSE IF newest = job.cur /\ Full(page)
            THEN job' = [job EXCEPT !.at = "drain"] /\ UNCHANGED saved
            ELSE IF Exhausted(page) THEN Finish(newest)
            ELSE Advance(newest, {r \in page : pco[r].uat = newest})
  /\ UNCHANGED <<kind, clock, pco, torn, budget>>

(* _drain_second, and the step past the second. *)
Drain ==
  /\ job.at = "drain"
  /\ LET page == DrainPage(job.cur, job.off)
     IN  /\ mirror' = Written(page)
         /\ IF Full(page)
            THEN job' = [job EXCEPT !.off = @ + PageSize] /\ UNCHANGED saved
            ELSE Advance(job.cur + 1, {})
  /\ UNCHANGED <<kind, clock, pco, torn, budget>>

(* _offset_page_all is through: the offset is given up. *)
Paged ==
  /\ saved' = [saved EXCEPT !.off = 0]
  /\ job' = [IdleJob EXCEPT !.at = "measure"]

Offset ==
  /\ job.at = "offset"
  /\ LET page == OffsetPage(job.off)
     IN  /\ mirror' = Written(page)
         /\ IF Full(page)
            THEN job' = [job EXCEPT !.off = @ + PageSize] /\ UNCHANGED saved
            ELSE Paged
  /\ UNCHANGED <<kind, clock, pco, torn, budget>>

(* The watermark of the sweeps to come is the newest version in the table, *)
(* whoever wrote it.                                                       *)
Measure ==
  /\ job.at = "measure"
  /\ Finish(Max({0} \cup {mirror[r].uat : r \in Recs}))
  /\ UNCHANGED <<kind, clock, pco, mirror, torn, budget>>

(* The records of a page before the first one no newer than the watermark. *)
News(page) == {r \in page : pco[r].uat > saved.cursor \/ saved.cursor = 0}

(* A second page newer than the first has been pushed down by as many new  *)
(* changes: those of its second on the pages before it have not been read. *)
Newest ==
  /\ job.at = "newest"
  /\ LET page == NewestPage(job.off)
         hi == Max({job.hi} \cup {pco[r].uat : r \in News(page)})
     IN  /\ mirror' = Written(News(page))
         /\ IF Full(page) /\ News(page) = page
            THEN job' = [job EXCEPT !.off = @ + PageSize, !.hi = hi] /\ UNCHANGED saved
            ELSE Finish(hi)
         /\ torn' = torn \cup {s \in {hi} : s > job.hi /\ job.off > 0}
  /\ UNCHANGED <<kind, clock, pco, budget>>

(* The pages of a unit are spent: what is needed to go on is saved. *)
Yield ==
  /\ saved.phase = "backfilling"
  /\ \/ job.at = "keyset" /\ saved' = [saved EXCEPT !.cursor = job.cur, !.seen = job.seen]
     \/ job.at = "offset" /\ saved' = [saved EXCEPT !.off = job.off]
  /\ job' = IdleJob
  /\ UNCHANGED <<kind, clock, pco, mirror, torn, budget>>

(* An answer that is an error.  A keyset backfill raises; everything else  *)
(* takes the body for an empty page.                                       *)
ErrorAnswer ==
  /\ job.at \notin {"idle", "measure"} /\ Spend("faults")
  /\ CASE job.at = "keyset" ->
            /\ UNCHANGED torn
            /\ IF saved.phase = "backfilling" THEN job' = IdleJob /\ UNCHANGED saved
               ELSE Finish(job.cur)
       [] job.at = "drain" -> Advance(job.cur + 1, {}) /\ torn' = torn \cup {job.cur}
       [] job.at = "offset" -> Paged /\ torn' = torn \cup 0 .. clock
       [] job.at = "newest" -> /\ Finish(job.hi)
                               /\ torn' = torn \cup saved.cursor .. job.hi
  /\ UNCHANGED <<kind, clock, pco, mirror>>

(* The sweep dies, of a dropped socket or with the process, anywhere in    *)
(* the writing of the page it is at.                                       *)
Crash ==
  /\ job.at # "idle" /\ Spend("faults")
  /\ \E ids \in SUBSET (CASE job.at = "keyset" -> KeysetPage(job.cur)
                           [] job.at = "drain"  -> DrainPage(job.cur, job.off)
                           [] job.at = "offset" -> OffsetPage(job.off)
                           [] job.at = "measure" -> {}
                           [] job.at = "newest" -> News(NewestPage(job.off))) :
       mirror' = Written(ids)
  /\ job' = IdleJob
  /\ UNCHANGED <<kind, clock, pco, saved, torn>>

-----------------------------------------------------------------------------
(* The seconds a change now makes unreliable: those being read by offset,  *)
(* and this one, if the cursor is past it already or will be.              *)
Tears(old) ==
  IF kind = "keyset"
  THEN {s \in {old, clock} : \/ job.at = "drain" /\ s = job.cur
                             \/ s = clock /\ s < Later(saved.cursor, job.cur)}
  ELSE IF saved.phase = "backfilling"
  THEN {s \in {clock} : saved.off > 0 \/ job.off > 0 \/ job.at = "measure"}
  ELSE {s \in {clock} : s <= Later(saved.cursor, job.hi)}

PcoChange(r) ==
  /\ Spend("changes")
  /\ pco' = [pco EXCEPT ![r] = [uat |-> clock, rev |-> MaxChanges - budget.changes + 1]]
  /\ torn' = torn \cup Tears(pco[r].uat)
  /\ UNCHANGED <<kind, clock, mirror, saved, job>>

(* A deletion moves what comes after it up by one: an offset walk in       *)
(* progress may skip a record.                                             *)
PcoDelete(r) ==
  /\ r \in Held /\ Spend("changes")
  /\ pco' = [pco EXCEPT ![r] = Absent]
  /\ torn' = torn \cup (CASE job.at = "drain" -> {job.cur}
                          [] job.at = "offset" \/ (job.at # "drain" /\ saved.off > 0) -> 0 .. clock
                          [] job.at = "newest" /\ saved.off = 0 -> saved.cursor .. clock
                          [] OTHER -> {})
  /\ UNCHANGED <<kind, clock, mirror, saved, job>>

(* A webhook or a hydration on the hot lane writes a record. *)
HotWrite(r) ==
  /\ r \in Held
  /\ mirror' = Written({r})
  /\ UNCHANGED <<kind, clock, pco, saved, job, torn, budget>>

PcoTick ==
  /\ clock < MaxTime
  /\ clock' = clock + 1
  /\ UNCHANGED <<kind, pco, mirror, saved, job, torn, budget>>

-----------------------------------------------------------------------------
Page == Keyset \/ Drain \/ Offset \/ Measure \/ Newest

Next ==
  \/ Begin \/ Page \/ Yield \/ ErrorAnswer \/ Crash
  \/ PcoTick \/ \E r \in Recs : PcoChange(r) \/ PcoDelete(r) \/ HotWrite(r)

(* The scheduler never stops beginning sweeps, and a sweep goes on.  A     *)
(* unit reads at least one page before it yields, so pages are strongly    *)
(* fair.                                                                   *)
Spec == Init /\ [][Next]_vars
FairSpec == Spec /\ WF_vars(Begin) /\ SF_vars(Page)

-----------------------------------------------------------------------------
Current(r) == mirror[r] = pco[r] \/ r \notin Held

(* Everything PCO changed before the committed cursor is in the mirror, at *)
(* its latest version, wherever the sweep or a unit of the backfill died:  *)
(* only a second that was torn while it was read may be amiss.             *)
NoGap ==
  kind = "keyset" \/ saved.phase = "streaming"
  => \A r \in Held : pco[r].uat < saved.cursor /\ pco[r].uat \notin torn => Current(r)

(* Once PCO is quiet the sweeps catch up with it (the torn seconds apart). *)
CaughtUp == \A r \in Recs : pco[r].uat \notin torn => Current(r)

CatchesUp == <>[]CaughtUp

(* The cursor passes a second only once the whole of it has been read      *)
(* (comment in backfill, before its call of _drain_second).                *)
SecondsReadWhole ==
  kind = "keyset" => \A r \in Held : pco[r].uat < saved.cursor => mirror[r] # Absent
=============================================================================
