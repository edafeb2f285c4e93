------------------------------- MODULE Worlds -------------------------------
(***************************************************************************)
(* Four worlds around the mirror's rows, checked in one run; `part' is the *)
(* one a behaviour is of.                                                  *)
(*   restore   Writer: records that PCO destroys and brings back, told in  *)
(*             representations of several richnesses                       *)
(*   members   Writer: owners with untimed children, read one by one while *)
(*             webhooks arrive                                             *)
(*   sweeps    Sweeps: both ways of filling a resource and keeping it      *)
(*   audit     DeleteAudit: rounds over a resource                         *)
(* They share no state; the variables of the other worlds are 0.           *)
(***************************************************************************)
EXTENDS Naturals, FiniteSets

CONSTANTS
  BareDestroys,                                         \* of both parts of Writer
  Restored, Rels, RestoreSets, RestoreTime,             \* restore: Writer's Owners ...
  Heads, Kin, MemberTime, Nobody,                       \* members: owners and children
  Recs, Kinds, SweepPage, SweepStart, SweepTime, SweepChanges, SweepFaults,   \* sweeps
  Audited, AuditPage, RestoreLimit, AuditTime, AuditChanges, AuditFaults      \* audit

VARIABLES
  part,
  wClock, wPco, wSent, wSeen, wMirror, wCrossed,
  sKind, sClock, sPco, sMirror, sSaved, sJob, sTorn, sBudget,
  aHonours, aPco, aSent, aMirror, aRound, aAnswer, aOwed, aBudget

writerVars == <<wClock, wPco, wSent, wSeen, wMirror, wCrossed>>
sweepsVars == <<sKind, sClock, sPco, sMirror, sSaved, sJob, sTorn, sBudget>>
auditVars == <<aHonours, aPco, aSent, aMirror, aRound, aAnswer, aOwed, aBudget>>
vars == <<part, writerVars, sweepsVars, auditVars>>

Restore == INSTANCE Writer WITH
  Owners <- Restored, Children <- {}, Untimed <- {},
  MaxTime <- RestoreTime, RelSets <- RestoreSets, Backfilled <- {},
  Mergeable <- {}, Answers <- {}, Confirmed <- {}, BareDestroys <- BareDestroys,
  ChildEvents <- TRUE, Restores <- TRUE,
  clock <- wClock, pco <- wPco, sent <- wSent, seen <- wSeen, mirror <- wMirror,
  crossed <- wCrossed

Members == INSTANCE Writer WITH
  Owners <- Heads, Children <- Kin, Untimed <- Kin,
  MaxTime <- MemberTime, RelSets <- {{}}, Backfilled <- Heads \cup Kin,
  Mergeable <- {}, Answers <- Heads, Confirmed <- Heads, BareDestroys <- BareDestroys,
  ChildEvents <- FALSE, Restores <- FALSE,
  clock <- wClock, pco <- wPco, sent <- wSent, seen <- wSeen, mirror <- wMirror,
  crossed <- wCrossed

S == INSTANCE Sweeps WITH
  PageSize <- SweepPage, Start <- SweepStart, MaxTime <- SweepTime,
  MaxChanges <- SweepChanges, MaxFaults <- SweepFaults,
  kind <- sKind, clock <- sClock, pco <- sPco, mirror <- sMirror,
  saved <- sSaved, job <- sJob, torn <- sTorn, budget <- sBudget

A == INSTANCE DeleteAudit WITH
  Owners <- Audited, Children <- {}, Untimed <- {}, Rels <- {}, Nobody <- 0,
  MaxTime <- AuditTime, PageSize <- AuditPage, Honours <- BOOLEAN,
  MaxChanges <- AuditChanges, MaxFaults <- AuditFaults,
  honours <- aHonours, pco <- aPco, sent <- aSent, mirror <- aMirror,
  round <- aRound, answer <- aAnswer, owed <- aOwed, budget <- aBudget

ASSUME WorldsAssumption ==
  /\ BareDestroys \in BOOLEAN
  /\ IsFiniteSet(Rels) /\ RestoreSets \subseteq SUBSET Rels /\ RestoreSets # {}
  /\ {RestoreTime, MemberTime, AuditTime} \subseteq Nat \ {0}
  /\ Heads \cap Kin = {} /\ Nobody \notin Restored \cup Heads \cup Kin
  /\ 0 \notin Audited /\ A!AuditAssumption
  /\ S!SweepsAssumption

NoWriter == wClock = 0 /\ wPco = 0 /\ wSent = 0 /\ wSeen = 0 /\ wMirror = 0 /\ wCrossed = 0
NoSweeps == sKind = 0 /\ sClock = 0 /\ sPco = 0 /\ sMirror = 0 /\ sSaved = 0 /\ sJob = 0 /\ sTorn = 0 /\ sBudget = 0
NoAudit == aHonours = 0 /\ aPco = 0 /\ aSent = 0 /\ aMirror = 0 /\ aRound = 0 /\ aAnswer = 0 /\ aOwed = 0 /\ aBudget = 0

Init ==
  \/ part = "restore" /\ Restore!Init /\ NoSweeps /\ NoAudit
  \/ part = "members" /\ Members!Init /\ NoSweeps /\ NoAudit
  \/ part = "sweeps" /\ S!Init /\ NoWriter /\ NoAudit
  \/ part = "audit" /\ A!Init /\ NoWriter /\ NoSweeps

RestoreOnly == part = "restore" /\ UNCHANGED <<part, sweepsVars, auditVars>>
MembersOnly == part = "members" /\ UNCHANGED <<part, sweepsVars, auditVars>>
SweepsOnly == part = "sweeps" /\ UNCHANGED <<part, writerVars, auditVars>>
AuditOnly == part = "audit" /\ UNCHANGED <<part, writerVars, sweepsVars>>

(* Every action on its own, for the coverage. *)
Next ==
  \/ (RestoreOnly /\ \E id \in Restored, t \in 0 .. RestoreTime, rels \in RestoreSets :
                       Restore!PcoCreate(id, t, rels))
  \/ (RestoreOnly /\ \E id \in Restored, t \in 0 .. RestoreTime, rels \in RestoreSets :
                       Restore!PcoEdit(id, t, rels))
  \/ (RestoreOnly /\ \E id \in Restored : Restore!PcoDestroy(id))
  \/ (RestoreOnly /\ \E id \in Restored, rels \in RestoreSets : Restore!PcoRestore(id, rels))
  \/ (RestoreOnly /\ Restore!MirrorStep)
  \/ (MembersOnly /\ \E id \in Heads \cup Kin, t \in 0 .. MemberTime : Members!PcoEdit(id, t, {}))
  \/ (MembersOnly /\ \E id \in Heads \cup Kin : Members!PcoDestroy(id))
  \/ (MembersOnly /\ \E id \in Heads : Members!PcoAnswer(id, {}))
  \/ (MembersOnly /\ Members!MirrorStep)
  \/ (SweepsOnly /\ S!Begin) \/ (SweepsOnly /\ S!Page) \/ (SweepsOnly /\ S!Yield)
  \/ (SweepsOnly /\ S!ErrorAnswer) \/ (SweepsOnly /\ S!Crash) \/ (SweepsOnly /\ S!PcoTick)
  \/ (SweepsOnly /\ \E r \in Recs : S!PcoChange(r) \/ S!PcoDelete(r) \/ S!HotWrite(r))
  \/ (AuditOnly /\ A!Audit) \/ (AuditOnly /\ A!EnumerateError)
  \/ (AuditOnly /\ A!AskError) \/ (AuditOnly /\ A!Crash)
  \/ (AuditOnly /\ \E id \in Audited : A!PcoDestroy(id) \/ \E t \in 0 .. AuditTime : A!PcoChange(id, t))
  \/ (AuditOnly /\ \E f \in aSent : A!Deliver(f))

(* The fairness of Sweeps and DeleteAudit; Writer has none. *)
Spec ==
  /\ Init /\ [][Next]_vars
  /\ WF_vars(SweepsOnly /\ S!Begin) /\ SF_vars(SweepsOnly /\ S!Page)
  /\ WF_vars(AuditOnly /\ A!Audit)

-----------------------------------------------------------------------------
(* Writer's NothingLost where records come back: deleted and restored, a   *)
(* record is not missing once everything said of it has been applied,      *)
(* unless a destroyed webhook came after the news of its return.           *)
NothingLost == part = "restore" => Restore!NothingLost

(* Writer's NeverPoorer in the same world: at one updated_at a thinner     *)
(* copy takes no relationship away (docstring of writer.upsert).           *)
NeverPoorer == [][part = "restore" => Restore!KeepsRelationships]_vars

(* Writer's OrphansTrackOwner where owners are read one by one: a child is *)
(* buried for its owner's sake only under a buried owner.                  *)
OrphansTrackOwner == part = "members" => Members!OrphansTrackOwner

(* Sweeps' NoGap: what changed before the committed cursor is in the mirror*)
(* at its latest version, wherever the sweep died.                         *)
NoGap == part = "sweeps" => S!NoGap

(* Sweeps' CatchesUp: once Planning Center is quiet the sweeps bring the   *)
(* mirror up to it, the torn seconds apart.                                *)
CatchesUp == <>[](part = "sweeps" => S!CaughtUp)

(* DeleteAudit's AbsentIsGone: an audit, however torn by errors, changes   *)
(* and crashes, buries no record that Planning Center has.                 *)
AbsentIsGone == part = "audit" => A!AbsentIsGone

(* DeleteAudit's RoundSettles: a round settles every id on which mirror    *)
(* and Planning Center disagreed when it began and that it could settle.   *)
RoundSettles == [][part = "audit" => A!SettlesOwed]_vars

(* DeleteAudit's Converges: the rounds bring the mirror's live ids to      *)
(* Planning Center's.                                                      *)
Converges == <>[](part = "audit" => A!Disagreed = {})
=============================================================================
