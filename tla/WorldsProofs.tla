---------------------------- MODULE WorldsProofs ----------------------------
(***************************************************************************)
(* Theorems about the four worlds of Worlds, each for every value of its   *)
(* constants.  A behaviour of Worlds is one of a single world: no step     *)
(* changes `part', and every step of a world is one of its module's.  What *)
(* is proved of Writer and of DeleteAudit is used here through instances   *)
(* of their proofs, with the parameters Worlds gives the modules.          *)
(***************************************************************************)
EXTENDS Worlds, FiniteSetTheorems, TLAPS

Returned == INSTANCE WriterProofs WITH
  Owners <- Restored, Children <- {}, Untimed <- {},
  MaxTime <- RestoreTime, RelSets <- RestoreSets, Backfilled <- {},
  Mergeable <- {}, Answers <- {}, Confirmed <- {}, BareDestroys <- BareDestroys,
  ChildEvents <- TRUE, Restores <- TRUE,
  clock <- wClock, pco <- wPco, sent <- wSent, seen <- wSeen, mirror <- wMirror,
  crossed <- wCrossed

Family == INSTANCE WriterProofs WITH
  Owners <- Heads, Children <- Kin, Untimed <- Kin,
  MaxTime <- MemberTime, RelSets <- {{}}, Backfilled <- Heads \cup Kin,
  Mergeable <- {}, Answers <- Heads, Confirmed <- Heads, BareDestroys <- BareDestroys,
  ChildEvents <- FALSE, Restores <- FALSE,
  clock <- wClock, pco <- wPco, sent <- wSent, seen <- wSeen, mirror <- wMirror,
  crossed <- wCrossed

Rounds == INSTANCE DeleteAuditProofs WITH
  Owners <- Audited, Children <- {}, Untimed <- {}, Rels <- {}, Nobody <- 0,
  MaxTime <- AuditTime, PageSize <- AuditPage, Honours <- BOOLEAN,
  MaxChanges <- AuditChanges, MaxFaults <- AuditFaults,
  honours <- aHonours, pco <- aPco, sent <- aSent, mirror <- aMirror,
  round <- aRound, answer <- aAnswer, owed <- aOwed, budget <- aBudget

(* No step leaves its world. *)
LEMMA OneWorld ==
  ASSUME [Next]_vars
  PROVE  part' = part
  BY DEF Next, vars, RestoreOnly, MembersOnly, SweepsOnly, AuditOnly

-----------------------------------------------------------------------------
(* The audit. *)

LEMMA RoundsAssumptions == Rounds!MirrorAssumption /\ Rounds!AuditAssumption
<1>1. Rounds!MirrorAssumption
  BY WorldsAssumption, FS_EmptySet DEF WorldsAssumption, Rounds!MirrorAssumption,
     Rounds!IsFiniteSet, IsFiniteSet
<1>2. \A X : A!IsFiniteSet(X) => Rounds!IsFiniteSet(X)
  BY Zenon DEF A!IsFiniteSet, Rounds!IsFiniteSet
<1>3. Rounds!AuditAssumption
  BY <1>2, WorldsAssumption DEF WorldsAssumption, A!AuditAssumption, Rounds!AuditAssumption,
     A!Time, Rounds!Time, A!NoTime, Rounds!NoTime
<1> QED BY <1>1, <1>3

LEMMA AuditStep ==
  ASSUME part = "audit", [Next]_vars
  PROVE  [A!Next]_auditVars
<1>1. CASE UNCHANGED vars
  BY <1>1 DEF vars
<1>2. CASE Next
  <2>1. AuditOnly
    BY <1>2 DEF Next, RestoreOnly, MembersOnly, SweepsOnly, AuditOnly
  <2> QED BY <1>2, <2>1 DEF Next, RestoreOnly, MembersOnly, SweepsOnly, AuditOnly, A!Next, A!Time, A!NoTime
<1> QED BY <1>1, <1>2

(* The two instances of DeleteAudit are one text.                          *)
LEMMA SameRounds == (A!Init => Rounds!Init) /\ (A!Next => Rounds!Next)
<1>1. A!Init => Rounds!Init
  BY DEF A!Init, A!Inserted, A!Copy, A!NoRow, A!NoRound, A!NoAnswer, A!NoTime, Rounds!Init,
     Rounds!Inserted, Rounds!Copy, Rounds!NoRow, Rounds!NoRound, Rounds!NoAnswer,
     Rounds!NoTime
<1>2. A!Next => Rounds!Next
  BY DEF A!StartRound, A!NoRound, A!Disagreed, A!HasIt, A!Live, A!Known, A!Enumerate,
     A!PageOf, A!Listed, A!Elder, A!Newest, A!Max, A!Compared, A!NextPage,
     A!EnumerateError, A!Spend, A!Ask, A!Asking, A!Left, A!Min, A!NoAnswer, A!AskError,
     A!Write, A!Verdict, A!ConfirmLive, A!Tombstone, A!Buries, A!Coalesce, A!Gone,
     A!NoTime, A!Copy, A!Cascade, A!Uncascade, A!OwnedBy, A!Ids, A!Buried, A!Lifted,
     A!Holding, A!Inserted, A!Drop, A!Confirmed, A!FinishRound, A!Crash, A!PcoChange,
     A!Now, A!PcoDestroy, A!Deliver, A!Upsert, A!Upserted, A!Wins, A!NoPoorer,
     A!Revives, A!Audit, A!Next, A!Time, A!Cardinality, Rounds!StartRound,
     Rounds!NoRound, Rounds!Disagreed, Rounds!HasIt, Rounds!Live, Rounds!Known,
     Rounds!Enumerate, Rounds!PageOf, Rounds!Listed, Rounds!Elder, Rounds!Newest,
     Rounds!Max, Rounds!Compared, Rounds!NextPage, Rounds!EnumerateError, Rounds!Spend,
     Rounds!Ask, Rounds!Asking, Rounds!Left, Rounds!Min, Rounds!NoAnswer,
     Rounds!AskError, Rounds!Write, Rounds!Verdict, Rounds!ConfirmLive,
     Rounds!Tombstone, Rounds!Buries, Rounds!Coalesce, Rounds!Gone, Rounds!NoTime,
     Rounds!Copy, Rounds!Cascade, Rounds!Uncascade, Rounds!OwnedBy, Rounds!Ids,
     Rounds!Buried, Rounds!Lifted, Rounds!Holding, Rounds!Inserted, Rounds!Drop,
     Rounds!Confirmed, Rounds!FinishRound, Rounds!Crash, Rounds!PcoChange, Rounds!Now,
     Rounds!PcoDestroy, Rounds!Deliver, Rounds!Upsert, Rounds!Upserted, Rounds!Wins,
     Rounds!NoPoorer, Rounds!Revives, Rounds!Audit, Rounds!Next, Rounds!Time,
     Rounds!Cardinality
<1> QED BY <1>1, <1>2

(* A row the audit buried is of a record PCO has destroyed (DeleteAudit's  *)
(* AuditBuriesOnlyTheGone), in this world.                                 *)
THEOREM AuditsBuryTheGone == Spec => []AbsentIsGone
<1> DEFINE Inv == part = "audit" => Rounds!AuditInv
<1>1. Init => Inv
  <2> SUFFICES ASSUME A!Init PROVE Rounds!AuditInv
    BY DEF Init
  <2> QED BY RoundsAssumptions, SameRounds, Rounds!InitAudit
<1>2. Inv /\ [Next]_vars => Inv'
  <2> SUFFICES ASSUME part = "audit", Rounds!AuditInv, [Next]_vars PROVE Rounds!AuditInv'
    BY OneWorld
  <2>1. [Rounds!Next]_(Rounds!vars)
    BY AuditStep, SameRounds DEF auditVars, Rounds!vars
  <2> QED BY <2>1, RoundsAssumptions, Rounds!StepAudit
<1>3. Inv => AbsentIsGone
  BY DEF Rounds!AuditInv, Rounds!Absent, Rounds!Final, AbsentIsGone, A!AbsentIsGone, A!HasIt
<1> QED BY <1>1, <1>2, <1>3, PTL DEF Spec

(* What a round leaves when it ends (DeleteAudit's RoundsSettle), in this  *)
(* world: an id on which the mirror and Planning Center disagreed when the *)
(* round began is settled, with the exceptions `owed' makes.               *)
THEOREM AuditsSettle == Spec => RoundSettles
<1> DEFINE Inv == part = "audit" => Rounds!SettleInv
<1>1. Init => Inv
  <2> SUFFICES ASSUME A!Init PROVE Rounds!SettleInv
    BY DEF Init
  <2> QED BY RoundsAssumptions, SameRounds, Rounds!InitSettles
<1>2. Inv /\ [Next]_vars => Inv'
  <2> SUFFICES ASSUME part = "audit", Rounds!SettleInv, [Next]_vars PROVE Rounds!SettleInv'
    BY OneWorld
  <2>1. [Rounds!Next]_(Rounds!vars)
    BY AuditStep, SameRounds DEF auditVars, Rounds!vars
  <2> QED BY <2>1, RoundsAssumptions, Rounds!StepSettles
<1>3. Inv => (part = "audit" => A!SettlesOwed)
  <2> SUFFICES ASSUME Rounds!SettleInv, A!FinishRound, NEW id \in aOwed
               PROVE  \/ A!Live(aMirror, id) = A!HasIt(id)
                      \/ A!HasIt(id) /\ aRound.restored = RestoreLimit
    BY DEF A!SettlesOwed
  <2>1. Rounds!FinishRound
    BY DEF A!FinishRound, A!NoRound, A!NoAnswer, A!NoTime, A!Asking, A!Left,
       Rounds!FinishRound, Rounds!NoRound, Rounds!NoAnswer, Rounds!NoTime, Rounds!Asking,
       Rounds!Left
  <2>2. \/ Rounds!Live(aMirror, id) = Rounds!HasIt(id)
        \/ Rounds!HasIt(id) /\ aRound.restored = RestoreLimit
    BY <2>1, RoundsAssumptions, Rounds!RoundEnds
  <2> QED BY <2>2 DEF A!Live, A!HasIt, Rounds!Live, Rounds!HasIt
<1> QED BY <1>1, <1>2, <1>3, PTL DEF Spec, RoundSettles

-----------------------------------------------------------------------------
(* Records that come back. *)

LEMMA ReturnedAssumptions ==
  Returned!MirrorAssumption /\ Returned!WriterAssumption /\ Returned!Returning
<1>1. Returned!MirrorAssumption
  BY WorldsAssumption DEF WorldsAssumption, Returned!MirrorAssumption,
     Returned!IsFiniteSet, IsFiniteSet
<1>2. Returned!WriterAssumption /\ Returned!Returning
  BY WorldsAssumption DEF WorldsAssumption, Returned!WriterAssumption, Returned!Returning,
     Returned!Ids
<1> QED BY <1>1, <1>2

LEMMA RestoreStep ==
  ASSUME part = "restore", [Next]_vars
  PROVE  [Restore!Next]_writerVars
<1>1. CASE UNCHANGED vars
  BY <1>1 DEF vars
<1>2. CASE Next
  <2>1. RestoreOnly
    BY <1>2 DEF Next, RestoreOnly, MembersOnly, SweepsOnly, AuditOnly
  <2> QED BY <1>2, <2>1 DEF Next, RestoreOnly, MembersOnly, SweepsOnly, AuditOnly,
             Restore!Next, Restore!PcoStep, Restore!Time, Restore!NoTime, Restore!Ids
<1> QED BY <1>1, <1>2

(* The two instances of Writer are one text.                               *)
LEMMA SameReturned ==
  /\ Restore!Init => Returned!Init
  /\ Restore!Next => Returned!Next
  /\ Returned!NothingLost => Restore!NothingLost
  /\ Returned!KeepsRelationships => Restore!KeepsRelationships
<1>1. Restore!Init => Returned!Init
  BY DEF Restore!Init, Restore!Stamp, Restore!NoTime, Restore!Ids, Restore!Inserted,
     Restore!NoRow, Returned!Init, Returned!Stamp, Returned!NoTime, Returned!Ids,
     Returned!Inserted, Returned!NoRow
<1>2. Restore!Next => Returned!Next
  BY DEF Restore!RepeatedKinds, Restore!Seen, Restore!At, Restore!Under, Restore!Turned,
     Restore!Update, Restore!Live200, Restore!Absent, Restore!Destroyed, Restore!Merged,
     Restore!Stamp, Restore!Belongings, Restore!PcoCreate, Restore!PcoEdit,
     Restore!PcoDestroy, Restore!PcoMerge, Restore!PcoRestore, Restore!PcoAnswer,
     Restore!Applied, Restore!Carried, Restore!Met, Restore!Deliver, Restore!Receive, Restore!PcoStep,
     Restore!MirrorStep, Restore!Next, Restore!Ids, Restore!NoTime, Restore!Time,
     Restore!Payload, Restore!NoRow, Restore!Inserted, Restore!Holding, Restore!Lifted,
     Restore!Buried, Restore!Known, Restore!Live, Restore!NoPoorer, Restore!Wins,
     Restore!Revives, Restore!Upserted, Restore!OwnedBy, Restore!Coalesce,
     Restore!Cascade, Restore!Uncascade, Restore!Upsert, Restore!UpsertUntimed,
     Restore!Buries, Restore!Tombstone, Restore!ConfirmLive, Restore!Hinted,
     Restore!Route, Restore!Gone, Restore!Cardinality, Returned!RepeatedKinds,
     Returned!Seen, Returned!At, Returned!Under, Returned!Turned, Returned!Update,
     Returned!Live200, Returned!Absent, Returned!Destroyed, Returned!Merged,
     Returned!Stamp, Returned!Belongings, Returned!PcoCreate, Returned!PcoEdit,
     Returned!PcoDestroy, Returned!PcoMerge, Returned!PcoRestore, Returned!PcoAnswer,
     Returned!Applied, Returned!Carried, Returned!Met, Returned!Deliver, Returned!Receive, Returned!PcoStep,
     Returned!MirrorStep, Returned!Next, Returned!Ids, Returned!NoTime, Returned!Time,
     Returned!Payload, Returned!NoRow, Returned!Inserted, Returned!Holding,
     Returned!Lifted, Returned!Buried, Returned!Known, Returned!Live, Returned!NoPoorer,
     Returned!Wins, Returned!Revives, Returned!Upserted, Returned!OwnedBy,
     Returned!Coalesce, Returned!Cascade, Returned!Uncascade, Returned!Upsert,
     Returned!UpsertUntimed, Returned!Buries, Returned!Tombstone, Returned!ConfirmLive,
     Returned!Hinted, Returned!Route, Returned!Gone, Returned!Cardinality
<1>3. Returned!NothingLost => Restore!NothingLost
  BY DEF Restore!NothingLost, Restore!Settled, Restore!Ids, Restore!Known, Restore!Live,
     Returned!NothingLost, Returned!Settled, Returned!Ids, Returned!Known, Returned!Live
<1>4. Returned!KeepsRelationships => Restore!KeepsRelationships
  BY DEF Restore!KeepsRelationships, Restore!Ids, Restore!Known, Restore!Cardinality,
     Returned!KeepsRelationships, Returned!Ids, Returned!Known, Returned!Cardinality
<1> QED BY <1>1, <1>2, <1>3, <1>4

LEMMA ReturnedStep ==
  ASSUME part = "restore", [Next]_vars
  PROVE  [Returned!Next]_(Returned!vars)
  BY RestoreStep, SameReturned DEF writerVars, Returned!vars

(* What was destroyed and brought back is alive at its latest version once *)
(* everything said of it has been applied, unless a destroyed webhook came *)
(* after the news of the return (Writer's WhatComesBackIsNotLost), in this *)
(* world.                                                                  *)
THEOREM RestoredIsNotLost == Spec => []NothingLost
<1> DEFINE Inv == part = "restore" => Returned!ReturnInv
<1>1. Init => Inv
  <2> SUFFICES ASSUME Restore!Init PROVE Returned!ReturnInv
    BY DEF Init
  <2> QED BY ReturnedAssumptions, SameReturned, Returned!ReturnInit
<1>2. Inv /\ [Next]_vars => Inv'
  <2> SUFFICES ASSUME part = "restore", Returned!ReturnInv, [Next]_vars PROVE Returned!ReturnInv'
    BY OneWorld
  <2> QED BY ReturnedStep, ReturnedAssumptions, Returned!ReturnNext
<1>3. Inv => NothingLost
  BY SameReturned, ReturnedAssumptions, Returned!ReturnNothingLost DEF NothingLost
<1> QED BY <1>1, <1>2, <1>3, PTL DEF Spec

(* At one updated_at no thinner copy takes a relationship away (Writer's   *)
(* RowsNeverPoorer), in this world.                                        *)
THEOREM RestoredNeverPoorer == Spec => NeverPoorer
<1> DEFINE Inv == part = "restore" => Returned!History
           Keeps == part = "restore" => Restore!KeepsRelationships
<1>1. Init => Inv
  <2> SUFFICES ASSUME Restore!Init PROVE Returned!History
    BY DEF Init
  <2> QED BY ReturnedAssumptions, SameReturned, Returned!HistoryInit
<1>2. ASSUME Inv, [Next]_vars PROVE Inv' /\ [Keeps]_vars
  <2> SUFFICES ASSUME part = "restore" PROVE Returned!History' /\ Restore!KeepsRelationships
    BY <1>2, OneWorld
  <2> QED BY <1>2, ReturnedStep, ReturnedAssumptions, Returned!HistoryNext,
             Returned!StepKeepsRelationships, SameReturned
<1> QED BY <1>1, <1>2, PTL DEF Spec, NeverPoorer

-----------------------------------------------------------------------------
(* Owners read one by one, and their untimed children. *)

LEMMA FamilyAssumptions ==
  Family!MirrorAssumption /\ Family!WriterAssumption /\ Family!FixedFamilies
<1>1. Family!MirrorAssumption
  BY WorldsAssumption DEF WorldsAssumption, Family!MirrorAssumption,
     Family!IsFiniteSet, IsFiniteSet
<1>2. Family!WriterAssumption /\ Family!FixedFamilies
  BY WorldsAssumption DEF WorldsAssumption, Family!WriterAssumption, Family!FixedFamilies, Family!Ids
<1> QED BY <1>1, <1>2

LEMMA MembersStep ==
  ASSUME part = "members", [Next]_vars
  PROVE  [Members!Next]_writerVars
<1>1. CASE UNCHANGED vars
  BY <1>1 DEF vars
<1>2. CASE Next
  <2>1. MembersOnly
    BY <1>2 DEF Next, RestoreOnly, MembersOnly, SweepsOnly, AuditOnly
  <2> QED BY <1>2, <2>1 DEF Next, RestoreOnly, MembersOnly, SweepsOnly, AuditOnly,
             Members!Next, Members!PcoStep, Members!Time, Members!NoTime, Members!Ids
<1> QED BY <1>1, <1>2

LEMMA SameFamily ==
  /\ Members!Init => Family!Init
  /\ Members!Next => Family!Next
  /\ Family!OrphansTrackOwner => Members!OrphansTrackOwner
<1>1. Members!Init => Family!Init
  BY DEF Members!Init, Members!Stamp, Members!NoTime, Members!Ids, Members!Inserted,
     Members!NoRow, Family!Init, Family!Stamp, Family!NoTime, Family!Ids,
     Family!Inserted, Family!NoRow
<1>2. Members!Next => Family!Next
  BY DEF Members!RepeatedKinds, Members!Seen, Members!At, Members!Under, Members!Turned,
     Members!Update, Members!Live200, Members!Absent, Members!Destroyed, Members!Merged,
     Members!Stamp, Members!Belongings, Members!PcoCreate, Members!PcoEdit,
     Members!PcoDestroy, Members!PcoMerge, Members!PcoRestore, Members!PcoAnswer,
     Members!Applied, Members!Carried, Members!Met, Members!Deliver, Members!Receive, Members!PcoStep,
     Members!MirrorStep, Members!Next, Members!Ids, Members!NoTime, Members!Time,
     Members!Payload, Members!NoRow, Members!Inserted, Members!Holding, Members!Lifted,
     Members!Buried, Members!Known, Members!Live, Members!NoPoorer, Members!Wins,
     Members!Revives, Members!Upserted, Members!OwnedBy, Members!Coalesce,
     Members!Cascade, Members!Uncascade, Members!Upsert, Members!UpsertUntimed,
     Members!Buries, Members!Tombstone, Members!ConfirmLive, Members!Hinted,
     Members!Route, Members!Gone, Members!Cardinality, Family!RepeatedKinds,
     Family!Seen, Family!At, Family!Under, Family!Turned, Family!Update, Family!Live200,
     Family!Absent, Family!Destroyed, Family!Merged, Family!Stamp, Family!Belongings,
     Family!PcoCreate, Family!PcoEdit, Family!PcoDestroy, Family!PcoMerge,
     Family!PcoRestore, Family!PcoAnswer, Family!Applied, Family!Carried, Family!Met, Family!Deliver,
     Family!Receive, Family!PcoStep, Family!MirrorStep, Family!Next, Family!Ids,
     Family!NoTime, Family!Time, Family!Payload, Family!NoRow, Family!Inserted,
     Family!Holding, Family!Lifted, Family!Buried, Family!Known, Family!Live,
     Family!NoPoorer, Family!Wins, Family!Revives, Family!Upserted, Family!OwnedBy,
     Family!Coalesce, Family!Cascade, Family!Uncascade, Family!Upsert,
     Family!UpsertUntimed, Family!Buries, Family!Tombstone, Family!ConfirmLive,
     Family!Hinted, Family!Route, Family!Gone, Family!Cardinality
<1>3. Family!OrphansTrackOwner => Members!OrphansTrackOwner
  BY DEF Members!OrphansTrackOwner, Members!Dead, Family!OrphansTrackOwner, Family!Dead
<1> QED BY <1>1, <1>2, <1>3

FamilyInv == Family!History /\ Family!Parented /\ Family!OrphansTrackOwner

LEMMA FamilyInvHolds == Spec => [](part = "members" => FamilyInv)
<1> DEFINE Inv == part = "members" => FamilyInv
<1>1. Init => Inv
  <2> SUFFICES ASSUME Members!Init PROVE FamilyInv
    BY DEF Init
  <2> QED BY FamilyAssumptions, SameFamily, Family!HistoryInit, Family!ParentedInit
             DEF FamilyInv, Family!FixedFamilies
<1>2. Inv /\ [Next]_vars => Inv'
  <2> SUFFICES ASSUME part = "members", FamilyInv, [Next]_vars PROVE FamilyInv'
    BY OneWorld
  <2>1. [Family!Next]_(Family!vars)
    BY MembersStep, SameFamily DEF writerVars, Family!vars
  <2> QED BY <2>1, FamilyAssumptions, Family!HistoryNext, Family!ParentedStep,
             Family!OrphansStep DEF FamilyInv, Family!FixedFamilies
<1> QED BY <1>1, <1>2, PTL DEF Spec

(* A child is buried for its owner's sake only under a buried owner        *)
(* (Writer's OrphansHaveBuriedOwners), in this world.                      *)
THEOREM OrphansFollow == Spec => []OrphansTrackOwner
<1>1. (part = "members" => FamilyInv) => OrphansTrackOwner
  BY SameFamily DEF FamilyInv, OrphansTrackOwner
<1> QED BY <1>1, FamilyInvHolds, PTL

-----------------------------------------------------------------------------
(* The sweeps.  What a sweep has read is a prefix of a listing, so the     *)
(* argument is about ranks: first what a page of any listing holds, then   *)
(* the listings that Planning Center answers with, then the invariant and  *)
(* one lemma for every action.                                             *)

(* The listings of Rounds, here without an instance's names.               *)
Listing(T, below) ==
  /\ IsFiniteSet(T)
  /\ \A r \in T : below[r] \subseteq T /\ r \notin below[r]
  /\ \A q, r \in T : q \in below[r] => below[q] \subseteq below[r]
  /\ \A q, r \in T : q = r \/ q \in below[r] \/ r \in below[q]

LEMMA SameListings ==
  /\ \A X : Rounds!Cardinality(X) = Cardinality(X)
  /\ \A T, below : Listing(T, below) => Rounds!Listing(T, below)
<1>1. \A X : Rounds!Cardinality(X) = Cardinality(X)
  BY Zenon DEF Rounds!Cardinality, Cardinality
<1>2. \A X : Rounds!IsFiniteSet(X) = IsFiniteSet(X)
  BY Zenon DEF Rounds!IsFiniteSet, IsFiniteSet
<1> QED BY <1>1, <1>2 DEF Listing, Rounds!Listing

(* The ranks are numbers, in the order of the listing.                     *)
LEMMA RanksOrdered ==
  ASSUME NEW T, NEW below, Listing(T, below)
  PROVE  /\ \A r \in T : Cardinality(below[r]) \in Nat
         /\ \A q, r \in T : q \in below[r] <=> Cardinality(below[q]) < Cardinality(below[r])
<1>1. Rounds!Listing(T, below)
  BY SameListings
<1>2. /\ \A r \in T : Rounds!Cardinality(below[r]) \in Nat
      /\ \A q, r \in T : q \in below[r] <=> Rounds!Cardinality(below[q]) < Rounds!Cardinality(below[r])
  BY <1>1, RoundsAssumptions, Rounds!RanksOrdered
<1> QED BY <1>2, SameListings

(* A page that is not full is the last.                                    *)
LEMMA LastPage ==
  ASSUME NEW T, NEW below, Listing(T, below), NEW off \in Nat, NEW n \in Nat,
         Cardinality({q \in T : Cardinality(below[q]) \in off .. off + n - 1}) # n
  PROVE  \A r \in T : Cardinality(below[r]) < off + n
<1>1. Rounds!Listing(T, below)
  BY SameListings
<1>2. Rounds!Cardinality({q \in T : Rounds!Cardinality(below[q]) \in off .. off + n - 1}) # n
  BY SameListings
<1>3. \A r \in T : Rounds!Cardinality(below[r]) < off + n
  BY <1>1, <1>2, RoundsAssumptions, Rounds!LastPage
<1> QED BY <1>3, SameListings

(* Oldest change first; newest first; by id.                               *)
Elders(T) == [r \in T |-> {q \in T : S!Older(q, r)}]
Fresher(T) == [r \in T |-> {q \in T : S!Newer(q, r)}]
Lesser(T) == [r \in T |-> {q \in T : q < r}]
(* What a drain lists.                                                     *)
Second == {r \in S!Held : sPco[r].uat = sJob.cur}

SweepTyped ==
  /\ sKind \in {"keyset", "descending"} /\ sClock \in Nat \ {0} /\ sTorn \subseteq Nat
  /\ sPco \in [Recs -> [uat : 0 .. sClock, rev : Nat]]
  /\ sMirror \in [Recs -> [uat : 0 .. sClock, rev : Nat]]
  /\ sSaved \in [phase : {"backfilling", "streaming"}, cursor : Nat, seen : SUBSET Recs, off : Nat]
  /\ sJob \in [at : {"idle", "keyset", "drain", "offset", "measure", "newest"},
               cur : Nat, seen : SUBSET Recs, off : Nat, hi : Nat]
  /\ sBudget \in [changes : 0 .. SweepChanges, faults : Nat]

LEMMA SweepFacts ==
  /\ SweepPage \in Nat \ {0} /\ Recs \subseteq Nat /\ IsFiniteSet(Recs)
  /\ SweepStart \in Nat \ {0} /\ SweepChanges \in Nat
  /\ \A X : S!Cardinality(X) = Cardinality(X)
<1>1. \A X : S!Cardinality(X) = Cardinality(X)
  BY Zenon DEF S!Cardinality, Cardinality
<1>2. \A X : S!IsFiniteSet(X) = IsFiniteSet(X)
  BY Zenon DEF S!IsFiniteSet, IsFiniteSet
<1> QED BY <1>1, <1>2, WorldsAssumption DEF WorldsAssumption, S!SweepsAssumption

LEMMA Listings ==
  ASSUME SweepTyped, NEW T, T \subseteq Recs
  PROVE  Listing(T, Elders(T)) /\ Listing(T, Fresher(T)) /\ Listing(T, Lesser(T))
<1>0. IsFiniteSet(T)
  BY SweepFacts, FS_Subset
<1>1. IsFiniteSet(T) /\ \A r \in T : r \in Nat /\ sPco[r].uat \in Nat
  BY <1>0, SweepFacts DEF SweepTyped
<1>2. Listing(T, Elders(T))
  BY <1>1 DEF Listing, Elders, S!Older
<1>3. Listing(T, Fresher(T))
  BY <1>1 DEF Listing, Fresher, S!Newer, S!Older
<1>4. Listing(T, Lesser(T))
  BY <1>1 DEF Listing, Lesser
<1> QED BY <1>2, <1>3, <1>4

(* Every page is a range of ranks.                                         *)
LEMMA PagesRanked ==
  ASSUME NEW off \in Nat
  PROVE  /\ \A c : LET T == {r \in S!Held : sPco[r].uat >= c}
                   IN  S!KeysetPage(c) = {r \in T : Cardinality(Elders(T)[r]) \in 0 .. 0 + SweepPage - 1}
         /\ S!DrainPage(sJob.cur, off) =
              {r \in Second : Cardinality(Elders(Second)[r]) \in off .. off + SweepPage - 1}
         /\ S!OffsetPage(off) =
              {r \in S!Held : Cardinality(Lesser(S!Held)[r]) \in off .. off + SweepPage - 1}
         /\ S!NewestPage(off) =
              {r \in S!Held : Cardinality(Fresher(S!Held)[r]) \in off .. off + SweepPage - 1}
<1> USE SweepFacts
<1>1. ASSUME NEW c, NEW T, T = {r \in S!Held : sPco[r].uat >= c}
      PROVE  S!KeysetPage(c) = {r \in T : Cardinality(Elders(T)[r]) \in 0 .. 0 + SweepPage - 1}
  BY <1>1 DEF S!KeysetPage, S!PageOf, Elders
<1>2. S!DrainPage(sJob.cur, off) =
              {r \in Second : Cardinality(Elders(Second)[r]) \in off .. off + SweepPage - 1}
  BY DEF S!DrainPage, S!PageOf, Elders, Second
<1>3. S!OffsetPage(off) =
              {r \in S!Held : Cardinality(Lesser(S!Held)[r]) \in off .. off + SweepPage - 1}
  BY DEF S!OffsetPage, S!PageOf, Lesser
<1>4. S!NewestPage(off) =
              {r \in S!Held : Cardinality(Fresher(S!Held)[r]) \in off .. off + SweepPage - 1}
  BY DEF S!NewestPage, S!PageOf, Fresher
<1> QED BY <1>1, <1>2, <1>3, <1>4

(* A page from a cursor is a prefix of what is there from the cursor on:   *)
(* with a record it has all of the seconds before the record's.            *)
LEMMA KeysetShows ==
  ASSUME SweepTyped, NEW c \in Nat
  PROVE  /\ S!KeysetPage(c) \subseteq S!Held
         /\ S!KeysetPage(c) = {} => \A r \in S!Held : sPco[r].uat < c
         /\ \A q \in S!KeysetPage(c), r \in S!Held :
              c <= sPco[r].uat /\ sPco[r].uat < sPco[q].uat => r \in S!KeysetPage(c)
<1> DEFINE T == {r \in S!Held : sPco[r].uat >= c}
           page == S!KeysetPage(c)
<1>1. page = {r \in T : Cardinality(Elders(T)[r]) \in 0 .. 0 + SweepPage - 1}
  BY PagesRanked, 0 \in Nat
<1>2. T \subseteq Recs /\ Listing(T, Elders(T))
  BY Listings DEF S!Held
<1>3. page = {} => \A r \in T : r \in page
  <2>1. SUFFICES ASSUME page = {} PROVE \A r \in T : Cardinality(Elders(T)[r]) < 0 + SweepPage
    BY <1>1, <1>2, RanksOrdered, SweepFacts
  <2>2. Cardinality({r \in T : Cardinality(Elders(T)[r]) \in 0 .. 0 + SweepPage - 1}) # SweepPage
    BY <1>1, <2>1, FS_EmptySet, SweepFacts
  <2> HIDE DEF T
  <2> QED BY <1>2, <2>2, LastPage, SweepFacts
<1>4. ASSUME NEW q \in page, NEW r \in T, sPco[r].uat < sPco[q].uat PROVE r \in page
  <2>1. q \in T /\ r \in Elders(T)[q]
    BY <1>1, <1>4 DEF Elders, S!Older
  <2>2. /\ Cardinality(Elders(T)[r]) < Cardinality(Elders(T)[q])
        /\ Cardinality(Elders(T)[r]) \in Nat /\ Cardinality(Elders(T)[q]) \in Nat
    BY <1>2, <2>1, RanksOrdered
  <2> QED BY <1>1, <2>1, <2>2, SweepFacts
<1>5. \A r \in S!Held : sPco[r].uat \in Nat
  BY DEF SweepTyped, S!Held
<1>6. page \subseteq S!Held
  BY <1>1
<1>7. ASSUME page = {}, NEW r \in S!Held PROVE sPco[r].uat < c
  BY <1>3, <1>5, <1>7
<1>8. ASSUME NEW q \in page, NEW r \in S!Held, c <= sPco[r].uat, sPco[r].uat < sPco[q].uat
      PROVE  r \in page
  <2>1. r \in T
    BY <1>5, <1>8
  <2> HIDE DEF T, page
  <2> QED BY <1>4, <1>8, <2>1
<1> QED BY <1>6, <1>7, <1>8

(* What a page by offset shows, and that a page that is not full is the    *)
(* last one.                                                               *)
Shows(page, T, below, off) ==
  /\ page \subseteq T
  /\ \A r \in T : /\ Cardinality(below[r]) \in Nat
                  /\ r \in page => Cardinality(below[r]) >= off /\ Cardinality(below[r]) < off + SweepPage
                  /\ \/ Cardinality(below[r]) < off
                     \/ r \in page
                     \/ Cardinality(below[r]) >= off + SweepPage
  /\ ~ S!Full(page) => \A r \in T : Cardinality(below[r]) < off + SweepPage

LEMMA PageShows ==
  ASSUME NEW T, NEW below, Listing(T, below), NEW off \in Nat, NEW page,
         page = {r \in T : Cardinality(below[r]) \in off .. off + SweepPage - 1}
  PROVE  Shows(page, T, below, off)
<1>1. \A r \in T : Cardinality(below[r]) \in Nat
  BY RanksOrdered
<1>2. \A r \in T : /\ r \in page => Cardinality(below[r]) >= off /\ Cardinality(below[r]) < off + SweepPage
                   /\ \/ Cardinality(below[r]) < off
                      \/ r \in page
                      \/ Cardinality(below[r]) >= off + SweepPage
  BY <1>1, SweepFacts
<1>3. ~ S!Full(page) => \A r \in T : Cardinality(below[r]) < off + SweepPage
  BY LastPage, SweepFacts DEF S!Full
<1> QED BY <1>1, <1>2, <1>3 DEF Shows

LEMMA OffsetPagesShow ==
  ASSUME SweepTyped, NEW off \in Nat
  PROVE  /\ Shows(S!DrainPage(sJob.cur, off), Second, Elders(Second), off)
         /\ Shows(S!OffsetPage(off), S!Held, Lesser(S!Held), off)
         /\ Shows(S!NewestPage(off), S!Held, Fresher(S!Held), off)
<1>1. Second \subseteq Recs /\ S!Held \subseteq Recs
  BY DEF Second, S!Held
<1> QED BY <1>1, Listings, PageShows, PagesRanked

(* On the pages of the newest, what comes first is no older.               *)
LEMMA NewestDescends ==
  ASSUME SweepTyped, NEW q \in S!Held, NEW r \in S!Held,
         sPco[q].uat > sPco[r].uat
  PROVE  Cardinality(Fresher(S!Held)[q]) < Cardinality(Fresher(S!Held)[r])
<1>1. q \in Fresher(S!Held)[r]
  BY DEF Fresher, S!Newer, S!Older
<1>2. S!Held \subseteq Recs
  BY DEF S!Held
<1> QED BY <1>1, <1>2, Listings, RanksOrdered

(* The mirror has it as it is, or its second is torn.                      *)
Fine(r) == sPco[r].uat \in sTorn \/ S!Current(r)

(* The mirror is never ahead of Planning Center.                           *)
SweepDated ==
  \A r \in Recs : /\ sPco[r].uat = 0 => r \notin S!Held
                  /\ r \in S!Held => sMirror[r].uat <= sPco[r].uat

SweepPlaced ==
  /\ sKind = "keyset" => sJob.at \in {"idle", "keyset", "drain"}
  /\ sKind = "descending" => sJob.at \in {"idle", "offset", "measure", "newest"}
  /\ sJob.at \in {"keyset", "drain"} => sJob.cur = sSaved.cursor
  /\ sJob.at = "keyset" => sJob.off = 0
  /\ sJob.at = "offset" => sSaved.phase = "backfilling" /\ sSaved.off <= sJob.off
  /\ sJob.at = "measure" => sSaved.phase = "backfilling"
  /\ sJob.at = "newest" => sSaved.phase = "streaming" /\ sSaved.cursor <= sJob.hi
  /\ sSaved.phase = "streaming" => sSaved.off = 0

(* By keyset: all behind the cursor, and of a second that is drained all   *)
(* on the pages that were read.                                            *)
Behind ==
  sKind = "keyset" =>
    /\ \A r \in S!Held : sPco[r].uat < sSaved.cursor => Fine(r)
    /\ sJob.at = "drain" =>
         \A r \in Second : Cardinality(Elders(Second)[r]) < sJob.off => Fine(r)

(* Backfill by offset: all on the pages that were read, and all of it when *)
(* the last one has been.                                                  *)
Place == IF sJob.at = "offset" THEN sJob.off ELSE sSaved.off

Walked ==
  sKind = "descending" /\ sSaved.phase = "backfilling" =>
    \A r \in S!Held :
      Cardinality(Lesser(S!Held)[r]) < Place \/ sJob.at = "measure" => Fine(r)

(* Newest first: all up to the watermark, and of what is newer all on the  *)
(* pages that were read, but for what is newer than all that was read.     *)
Watched ==
  sKind = "descending" /\ sSaved.phase = "streaming" =>
    /\ \A r \in S!Held : sPco[r].uat <= sSaved.cursor => Fine(r)
    /\ sJob.at = "newest" =>
         \A r \in S!Held : Cardinality(Fresher(S!Held)[r]) < sJob.off =>
                             Fine(r) \/ sPco[r].uat > sJob.hi

SweepShape == SweepTyped /\ SweepDated /\ SweepPlaced
SweepInv == SweepShape /\ Behind /\ Walked /\ Watched

LEMMA SweepInit == S!Init => SweepInv
<1> SUFFICES ASSUME S!Init PROVE SweepInv
  OBVIOUS
<1> USE SweepFacts
<1>1. PICK uat \in [Recs -> 0 .. SweepStart] :
         sPco = [r \in Recs |-> [uat |-> uat[r], rev |-> 0]]
  BY DEF S!Init
<1>2. SweepTyped
  BY <1>1, WorldsAssumption DEF S!Init, SweepTyped, S!Absent, S!IdleJob, WorldsAssumption,
     S!SweepsAssumption
<1>3. SweepDated
  BY <1>1 DEF S!Init, SweepDated, S!Held, S!Absent
<1>4. SweepPlaced
  BY DEF S!Init, SweepPlaced, S!IdleJob
<1>5. Behind
  BY <1>2 DEF S!Init, Behind, S!IdleJob, SweepTyped, S!Held
<1>6. Walked
  <2>1. \A r \in S!Held : Cardinality(Lesser(S!Held)[r]) \in Nat
    <3>1. S!Held \subseteq Recs
      BY DEF S!Held
    <3> QED BY <3>1, <1>2, Listings, RanksOrdered
  <2> QED BY <2>1 DEF Walked, Place, S!Init, S!IdleJob
<1>7. Watched
  BY DEF Watched, S!Init
<1> QED BY <1>2, <1>3, <1>4, <1>5, <1>6, <1>7 DEF SweepInv, SweepShape

(* What upsert leaves: the page current, and nothing that was current less so. *)
LEMMA WrittenFacts ==
  ASSUME SweepTyped, SweepDated, NEW ids, ids \subseteq S!Held, sMirror' = S!Written(ids),
         UNCHANGED <<sPco, sClock>>
  PROVE  /\ sMirror' \in [Recs -> [uat : 0 .. sClock, rev : Nat]]
         /\ SweepDated'
         /\ \A r \in ids : S!Current(r)'
         /\ \A r \in Recs : S!Current(r) => S!Current(r)'
<1>0. S!Held' = S!Held /\ S!Held \subseteq Recs
  BY DEF S!Held
<1>1. \A r \in Recs : /\ sPco[r] \in [uat : 0 .. sClock, rev : Nat] /\ sMirror[r] \in [uat : 0 .. sClock, rev : Nat]
                      /\ sMirror'[r] = sPco[r] \/ sMirror'[r] = sMirror[r]
  BY DEF S!Written, SweepTyped
<1>2. sMirror' \in [Recs -> [uat : 0 .. sClock, rev : Nat]]
  <2>1. sMirror' = [r \in Recs |-> sMirror'[r]]
    BY DEF S!Written
  <2>2. \A r \in Recs : sMirror'[r] \in [uat : 0 .. sClock, rev : Nat]
    BY <1>1
  <2> QED BY <2>1, <2>2
<1>3. SweepDated'
  BY <1>0, <1>1 DEF SweepDated, SweepTyped
<1>4. \A r \in ids : sMirror'[r] = sPco[r]
  BY <1>0 DEF SweepDated, S!Written, SweepTyped
<1>5. \A r \in ids : S!Current(r)'
  BY <1>4 DEF S!Current
<1>6. \A r \in Recs : S!Current(r) => S!Current(r)'
  BY <1>0, <1>1 DEF S!Current
<1> QED BY <1>2, <1>3, <1>5, <1>6

LEMMA FineKept ==
  ASSUME UNCHANGED sPco, sTorn \subseteq sTorn', NEW r, S!Current(r) => S!Current(r)', Fine(r)
  PROVE  Fine(r)'
  BY DEF Fine

LEMMA LatestTime ==
  ASSUME NEW top \in Nat, NEW times, times \subseteq 0 .. top, times # {}
  PROVE  /\ S!Max(times) \in times /\ S!Max(times) \in Nat
         /\ \A t \in times : t <= S!Max(times)
<1>1. S!Max(times) = Rounds!Max(times)
  BY Zenon DEF S!Max, Rounds!Max
<1> QED BY <1>1, RoundsAssumptions, Rounds!MaxIn

(* The parts of the invariant of the way of sweeping that is not in use    *)
(* hold of themselves.                                                     *)
LEMMA SweepByKind ==
  ASSUME SweepShape', sKind' = "keyset" => Behind', sKind' = "descending" => Walked' /\ Watched'
  PROVE  SweepInv'
  BY DEF SweepInv, Behind, Walked, Watched

LEMMA Behindhand ==
  ASSUME SweepInv, sKind = "keyset", UNCHANGED sPco, sTorn \subseteq sTorn',
         \A r \in Recs : S!Current(r) => S!Current(r)',
         NEW r \in S!Held, sPco[r].uat < sSaved.cursor
  PROVE  Fine(r)'
<1>1. Fine(r) /\ r \in Recs
  BY DEF SweepInv, Behind, S!Held
<1> QED BY <1>1, FineKept

LEMMA StepBegin ==
  ASSUME SweepInv, S!Begin
  PROVE  SweepInv'
<1> USE DEF SweepInv, SweepShape, S!Begin, S!IdleJob
<1>1. CASE sKind = "keyset"
  <2>1. sJob' = [at |-> "keyset", cur |-> sSaved.cursor, seen |-> sSaved.seen, off |-> 0, hi |-> 0]
    BY <1>1
  <2>2. SweepShape'
    BY <1>1, <2>1 DEF SweepTyped, SweepDated, SweepPlaced, S!Held
  <2>3. Behind'
    BY <1>1, <2>1 DEF Behind, S!Held, Fine, S!Current
  <2> QED BY <1>1, <2>2, <2>3, SweepByKind
<1>2. CASE sKind = "descending"
  <2>1. \/ sSaved.phase = "backfilling" /\ sJob' = [at |-> "offset", cur |-> 0, seen |-> {}, off |-> sSaved.off, hi |-> 0]
        \/ sSaved.phase = "streaming" /\ sJob' = [at |-> "newest", cur |-> 0, seen |-> {}, off |-> 0, hi |-> sSaved.cursor]
    BY <1>2 DEF SweepTyped
  <2>2. SweepShape'
    BY <1>2, <2>1 DEF SweepTyped, SweepDated, SweepPlaced, S!Held
  <2>3. Walked'
    BY <1>2, <2>1 DEF Walked, Place, Lesser, S!Held, Fine, S!Current
  <2>4. Watched'
    <3>1. S!Held' = S!Held /\ Fresher(S!Held)' = Fresher(S!Held) /\ S!Held \subseteq Recs
      BY DEF Fresher, S!Held, S!Newer, S!Older
    <3>2. \A r \in S!Held : Cardinality(Fresher(S!Held)[r]) \in Nat
      BY <3>1, Listings, RanksOrdered
    <3> QED BY <1>2, <2>1, <3>1, <3>2 DEF Watched, Fine, S!Current
  <2> QED BY <1>2, <2>2, <2>3, <2>4, SweepByKind
<1> QED BY <1>1, <1>2 DEF SweepTyped

(* The cursor goes to the newest second of the page, and the page has all  *)
(* of the seconds before it.                                               *)
LEMMA StepKeyset ==
  ASSUME SweepInv, S!Keyset
  PROVE  SweepInv'
<1> DEFINE page == S!KeysetPage(sJob.cur)
           times == {0} \cup {sPco[r].uat : r \in page}
           newest == S!Max(times)
<1>1. /\ sJob.at = "keyset" /\ sMirror' = S!Written(page) /\ UNCHANGED <<sKind, sClock, sPco, sTorn, sBudget>>
      /\ \/ page = {} /\ S!Finish(sJob.cur)
         \/ page # {} /\ newest = sJob.cur /\ sJob' = [sJob EXCEPT !.at = "drain"] /\ UNCHANGED sSaved
         \/ page # {} /\ S!Finish(newest)
         \/ page # {} /\ S!Advance(newest, {r \in page : sPco[r].uat = newest})
  BY DEF S!Keyset
<1>2. /\ sKind = "keyset" /\ sJob.cur = sSaved.cursor /\ sJob.off = 0
      /\ SweepTyped /\ SweepDated /\ SweepPlaced /\ sJob.cur \in Nat
  BY <1>1 DEF SweepInv, SweepShape, SweepPlaced, SweepTyped
<1>3. /\ page \subseteq S!Held /\ S!Held \subseteq Recs
      /\ page = {} => \A r \in S!Held : sPco[r].uat < sJob.cur
      /\ \A q \in page, r \in S!Held :
           sJob.cur <= sPco[r].uat /\ sPco[r].uat < sPco[q].uat => r \in page
  BY <1>2, KeysetShows DEF S!Held
<1>4. newest \in times /\ newest \in Nat
  <2>1. times \subseteq 0 .. sClock /\ times # {} /\ sClock \in Nat
    BY <1>2, <1>3 DEF SweepTyped
  <2> HIDE DEF times
  <2> QED BY <2>1, LatestTime
<1> HIDE DEF newest
<1>5. /\ sMirror' \in [Recs -> [uat : 0 .. sClock, rev : Nat]]
      /\ SweepDated'
      /\ \A r \in page : S!Current(r)'
      /\ \A r \in Recs : S!Current(r) => S!Current(r)'
  BY <1>1, <1>2, <1>3, WrittenFacts
<1>6. ASSUME NEW r \in S!Held, sPco[r].uat < sJob.cur PROVE Fine(r)'
  BY <1>1, <1>2, <1>5, <1>6, Behindhand
<1>7. ASSUME page # {}, NEW r \in S!Held, sPco[r].uat < newest PROVE Fine(r)'
  <2>1. PICK q \in page : newest = sPco[q].uat
    <3>1. sPco[r].uat \in Nat
      BY <1>2 DEF SweepTyped, S!Held
    <3> QED BY <1>4, <1>7, <3>1
  <2>2. CASE sPco[r].uat < sJob.cur
    BY <1>6, <2>2
  <2>3. CASE sJob.cur <= sPco[r].uat
    BY <1>3, <1>5, <1>7, <2>1, <2>3 DEF Fine
  <2>4. sPco[r].uat \in Nat
    BY <1>2 DEF SweepTyped, S!Held
  <2> QED BY <1>2, <2>2, <2>3, <2>4
<1> HIDE DEF page, times, newest
<1>8. S!Held' = S!Held
  BY <1>1 DEF S!Held
<1>9. SweepShape'
  <2>1. CASE S!Finish(sJob.cur) \/ S!Finish(newest)
    BY <1>1, <1>2, <1>4, <1>5, <2>1 DEF SweepShape, S!Finish, S!IdleJob, SweepTyped, SweepPlaced
  <2>2. CASE sJob' = [sJob EXCEPT !.at = "drain"] /\ UNCHANGED sSaved
    BY <1>1, <1>2, <1>5, <2>2 DEF SweepShape, SweepTyped, SweepPlaced
  <2>3. CASE S!Advance(newest, {r \in page : sPco[r].uat = newest})
    <3>1. {r \in page : sPco[r].uat = newest} \subseteq Recs
      BY <1>3
    <3> QED BY <1>1, <1>2, <1>4, <1>5, <2>3, <3>1 DEF SweepShape, S!Advance, S!IdleJob, SweepTyped, SweepPlaced
  <2> QED BY <1>1, <2>1, <2>2, <2>3
<1>10. Behind'
  <2>1. CASE page = {} /\ S!Finish(sJob.cur)
    BY <1>6, <1>8, <2>1, <1>1 DEF Behind, S!Finish, S!IdleJob
  <2>2. CASE page # {} /\ newest = sJob.cur /\ sJob' = [sJob EXCEPT !.at = "drain"] /\ UNCHANGED sSaved
    <3>1. Second' \subseteq Recs /\ SweepTyped'
      BY <1>9 DEF SweepShape, Second, S!Held
    <3>2. Second' = Second /\ Elders(Second)' = Elders(Second)
      BY <1>1, <1>2, <1>8, <2>2 DEF Second, Elders, S!Older, SweepTyped
    <3>3. \A r \in Second' : Cardinality(Elders(Second)'[r]) \in Nat
      BY <1>2, <3>1, <3>2, Listings, RanksOrdered
    <3>4. sJob'.off = 0 /\ sSaved'.cursor = sJob.cur
      BY <1>2, <2>2 DEF SweepTyped
    <3> QED BY <1>6, <1>8, <1>1, <3>3, <3>4 DEF Behind
  <2>3. CASE page # {} /\ (S!Finish(newest) \/ S!Advance(newest, {r \in page : sPco[r].uat = newest}))
    <3>1. sSaved'.cursor = newest /\ sJob'.at # "drain"
      <4>1. CASE S!Finish(newest)
        BY <4>1 DEF S!Finish, S!IdleJob
      <4>2. CASE S!Advance(newest, {r \in page : sPco[r].uat = newest})
        BY <1>2, <4>2 DEF S!Advance, S!IdleJob, SweepTyped
      <4> QED BY <2>3, <4>1, <4>2
    <3> QED BY <1>1, <1>7, <1>8, <2>3, <3>1 DEF Behind
  <2> QED BY <1>1, <2>1, <2>2, <2>3
<1> QED BY <1>1, <1>2, <1>9, <1>10, SweepByKind

LEMMA HeldRecs ==
  ASSUME SweepInv
  PROVE  /\ S!Held \subseteq Recs /\ SweepTyped /\ SweepDated /\ SweepPlaced
         /\ \A r \in S!Held : sPco[r].uat \in 0 .. sClock /\ sPco[r].uat # 0
         /\ sJob.cur \in Nat /\ sJob.off \in Nat /\ sJob.hi \in Nat
         /\ sSaved.cursor \in Nat /\ sSaved.off \in Nat
         /\ sSaved.phase \in {"backfilling", "streaming"}
         /\ \A T : T \subseteq Recs =>
              \A r \in T : /\ Cardinality(Elders(T)[r]) \in Nat
                           /\ Cardinality(Lesser(T)[r]) \in Nat
                           /\ Cardinality(Fresher(T)[r]) \in Nat
<1>1. S!Held \subseteq Recs /\ SweepTyped /\ SweepDated /\ SweepPlaced
  BY DEF SweepInv, SweepShape, S!Held
<1>2. \A r \in S!Held : sPco[r].uat \in 0 .. sClock /\ sPco[r].uat # 0
  BY <1>1 DEF SweepTyped, SweepDated
<1>3. /\ sJob.cur \in Nat /\ sJob.off \in Nat /\ sJob.hi \in Nat
      /\ sSaved.cursor \in Nat /\ sSaved.off \in Nat
      /\ sSaved.phase \in {"backfilling", "streaming"}
  BY <1>1 DEF SweepTyped
<1>4. ASSUME NEW T, T \subseteq Recs, NEW r \in T
      PROVE  /\ Cardinality(Elders(T)[r]) \in Nat
             /\ Cardinality(Lesser(T)[r]) \in Nat
             /\ Cardinality(Fresher(T)[r]) \in Nat
  BY <1>1, <1>4, Listings, RanksOrdered
<1> QED BY <1>1, <1>2, <1>3, <1>4

LEMMA StepDrain ==
  ASSUME SweepInv, S!Drain
  PROVE  SweepInv'
<1> DEFINE page == S!DrainPage(sJob.cur, sJob.off)
<1>1. /\ sJob.at = "drain" /\ sMirror' = S!Written(page) /\ UNCHANGED <<sKind, sClock, sPco, sTorn, sBudget>>
      /\ \/ S!Full(page) /\ sJob' = [sJob EXCEPT !.off = @ + SweepPage] /\ UNCHANGED sSaved
         \/ ~ S!Full(page) /\ S!Advance(sJob.cur + 1, {})
  BY DEF S!Drain
<1>2. sKind = "keyset" /\ sJob.cur = sSaved.cursor
  BY <1>1, HeldRecs DEF SweepPlaced, SweepTyped
<1>3. /\ Shows(page, Second, Elders(Second), sJob.off) /\ page \subseteq S!Held
      /\ Second \subseteq Recs
  BY HeldRecs, OffsetPagesShow DEF Shows, Second
<1>4. \A r \in Second : Cardinality(Elders(Second)[r]) \in Nat
  BY <1>3, HeldRecs, Listings, RanksOrdered
<1>5. /\ sMirror' \in [Recs -> [uat : 0 .. sClock, rev : Nat]]
      /\ SweepDated'
      /\ \A r \in page : S!Current(r)'
      /\ \A r \in Recs : S!Current(r) => S!Current(r)'
  BY <1>1, <1>3, HeldRecs, WrittenFacts
<1> HIDE DEF page
<1>6. ASSUME NEW r \in S!Held, sPco[r].uat < sJob.cur PROVE Fine(r)'
  BY <1>1, <1>2, <1>5, <1>6, Behindhand
<1>7. ASSUME NEW r \in Second,
             Cardinality(Elders(Second)[r]) < sJob.off + SweepPage
      PROVE  Fine(r)'
  <2>1. CASE Cardinality(Elders(Second)[r]) < sJob.off
    <3>1. Fine(r) /\ r \in Recs
      BY <1>1, <1>2, <1>3, <2>1 DEF SweepInv, Behind
    <3> QED BY <1>1, <1>5, <3>1, FineKept
  <2>2. CASE r \in page
    BY <1>5, <2>2 DEF Fine
  <2>3. Cardinality(Elders(Second)[r]) \in Nat /\ sJob.off + SweepPage \in Nat
    BY <1>4, HeldRecs, SweepFacts
  <2> QED BY <1>3, <1>7, <2>1, <2>2, <2>3 DEF Shows
<1>8. S!Held' = S!Held
  BY <1>1 DEF S!Held
<1>9. CASE S!Full(page) /\ sJob' = [sJob EXCEPT !.off = @ + SweepPage] /\ UNCHANGED sSaved
  <2>1. SweepShape'
    BY <1>1, <1>2, <1>5, <1>9, HeldRecs, SweepFacts DEF SweepShape, SweepTyped, SweepPlaced
  <2>2. Second' = Second /\ Elders(Second)' = Elders(Second) /\ sJob'.off = sJob.off + SweepPage
    BY <1>1, <1>8, <1>9, HeldRecs DEF Second, Elders, S!Older, SweepTyped
  <2>3. Behind'
    BY <1>1, <1>2, <1>6, <1>7, <1>8, <1>9, <2>2 DEF Behind
  <2> QED BY <1>1, <1>2, <2>1, <2>3, SweepByKind
<1>10. CASE ~ S!Full(page) /\ S!Advance(sJob.cur + 1, {})
  <2>0. /\ sJob' = [at |-> "keyset", cur |-> sJob.cur + 1, seen |-> {}, off |-> 0, hi |-> 0]
        /\ sSaved' = [sSaved EXCEPT !.cursor = sJob.cur + 1, !.seen = {}]
    BY <1>10 DEF S!Advance, S!IdleJob
  <2>1. SweepShape'
    <3>1. SweepTyped'
      <4>1. sSaved \in [phase : {"backfilling", "streaming"}, cursor : Nat, seen : SUBSET Recs, off : Nat]
        BY HeldRecs DEF SweepTyped
      <4>2. sSaved' \in [phase : {"backfilling", "streaming"}, cursor : Nat, seen : SUBSET Recs, off : Nat]
        <5>1. sJob.cur + 1 \in Nat /\ {} \in SUBSET Recs
          BY HeldRecs
        <5> HIDE DEF page
        <5> QED BY ONLY <2>0, <4>1, <5>1
      <4>3. sJob' \in [at : {"idle", "keyset", "drain", "offset", "measure", "newest"},
                        cur : Nat, seen : SUBSET Recs, off : Nat, hi : Nat]
        BY <2>0, HeldRecs
      <4> QED BY <1>1, <1>5, <4>2, <4>3, HeldRecs DEF SweepTyped
    <3>2. sSaved'.cursor = sJob.cur + 1 /\ sSaved'.phase = sSaved.phase /\ sSaved'.off = sSaved.off
      BY <2>0, HeldRecs DEF SweepTyped
    <3>3. SweepPlaced'
      BY <1>1, <1>2, <2>0, <3>2, HeldRecs DEF SweepPlaced
    <3> QED BY <1>5, <3>1, <3>3 DEF SweepShape
  <2>2. \A r \in Second : Fine(r)'
    BY <1>3, <1>7, <1>10 DEF Shows
  <2>3. sSaved'.cursor = sJob.cur + 1 /\ sJob'.at = "keyset"
    BY <1>10, HeldRecs DEF S!Advance, S!IdleJob, SweepTyped
  <2>4. \A r \in S!Held : sPco[r].uat < sJob.cur + 1 => sPco[r].uat < sJob.cur \/ r \in Second
    BY HeldRecs DEF Second
  <2>5. Behind'
    BY <1>1, <1>6, <1>8, <2>2, <2>3, <2>4 DEF Behind
  <2> QED BY <1>1, <1>2, <2>1, <2>5, SweepByKind
<1> QED BY <1>1, <1>9, <1>10

LEMMA StepOffset ==
  ASSUME SweepInv, S!Offset
  PROVE  SweepInv'
<1> DEFINE page == S!OffsetPage(sJob.off)
<1>1. /\ sJob.at = "offset" /\ sMirror' = S!Written(page) /\ UNCHANGED <<sKind, sClock, sPco, sTorn, sBudget>>
      /\ \/ S!Full(page) /\ sJob' = [sJob EXCEPT !.off = @ + SweepPage] /\ UNCHANGED sSaved
         \/ ~ S!Full(page) /\ S!Paged
  BY DEF S!Offset
<1>2. sKind = "descending" /\ sSaved.phase = "backfilling" /\ sSaved.off <= sJob.off
  BY <1>1, HeldRecs DEF SweepPlaced, SweepTyped
<1>3. Shows(page, S!Held, Lesser(S!Held), sJob.off)
  BY HeldRecs, OffsetPagesShow
<1>4. page \subseteq S!Held
  BY <1>3 DEF Shows
<1>5. /\ sMirror' \in [Recs -> [uat : 0 .. sClock, rev : Nat]]
      /\ SweepDated'
      /\ \A r \in page : S!Current(r)'
      /\ \A r \in Recs : S!Current(r) => S!Current(r)'
  BY <1>1, <1>4, HeldRecs, WrittenFacts
<1> HIDE DEF page
<1>7. ASSUME NEW r \in S!Held,
             Cardinality(Lesser(S!Held)[r]) < sJob.off + SweepPage
      PROVE  Fine(r)'
  <2>1. CASE Cardinality(Lesser(S!Held)[r]) < sJob.off
    <3>1. Fine(r) /\ r \in Recs
      BY <1>1, <1>2, <2>1, HeldRecs DEF SweepInv, Walked, Place
    <3> QED BY <1>1, <1>5, <3>1, FineKept
  <2>2. CASE r \in page
    BY <1>5, <2>2 DEF Fine
  <2>3. Cardinality(Lesser(S!Held)[r]) \in Nat /\ sJob.off + SweepPage \in Nat
    BY HeldRecs, SweepFacts
  <2> QED BY <1>3, <1>7, <2>1, <2>2, <2>3 DEF Shows
<1>8. S!Held' = S!Held /\ Lesser(S!Held)' = Lesser(S!Held)
  BY <1>1 DEF S!Held, Lesser
<1>9. CASE S!Full(page) /\ sJob' = [sJob EXCEPT !.off = @ + SweepPage] /\ UNCHANGED sSaved
  <2>1. SweepShape'
    BY <1>1, <1>2, <1>5, <1>9, HeldRecs, SweepFacts DEF SweepShape, SweepTyped, SweepPlaced
  <2>2. sJob'.off = sJob.off + SweepPage /\ sJob'.at = "offset" /\ sSaved' = sSaved
    BY <1>1, <1>9, HeldRecs DEF SweepTyped
  <2>3. Walked' /\ Watched'
    BY <1>1, <1>2, <1>7, <1>8, <2>2 DEF Walked, Watched, Place
  <2> QED BY <1>1, <1>2, <2>1, <2>3, SweepByKind
<1>10. CASE ~ S!Full(page) /\ S!Paged
  <2>2. /\ sSaved' \in [phase : {"backfilling", "streaming"}, cursor : Nat, seen : SUBSET Recs, off : Nat]
        /\ sSaved'.phase = "backfilling" /\ sSaved'.off = 0
        /\ sJob' = [at |-> "measure", cur |-> 0, seen |-> {}, off |-> 0, hi |-> 0]
    BY <1>2, <1>10, HeldRecs DEF S!Paged, S!IdleJob, SweepTyped
  <2>3. SweepShape'
    BY <1>1, <1>2, <1>5, <2>2, HeldRecs DEF SweepShape, SweepTyped, SweepPlaced
  <2>4. \A r \in S!Held : Fine(r)'
    BY <1>3, <1>7, <1>10 DEF Shows
  <2>5. Walked' /\ Watched'
    BY <1>8, <2>2, <2>4 DEF Walked, Watched
  <2> QED BY <1>1, <1>2, <2>3, <2>5, SweepByKind
<1> QED BY <1>1, <1>9, <1>10

(* All was read: the watermark may be any second.                          *)
LEMMA StepMeasure ==
  ASSUME SweepInv, S!Measure
  PROVE  SweepInv'
<1> DEFINE times == {0} \cup {sMirror[r].uat : r \in Recs}
           top == S!Max(times)
<1>1. /\ sJob.at = "measure" /\ S!Finish(top)
      /\ UNCHANGED <<sKind, sClock, sPco, sMirror, sTorn, sBudget>>
  BY DEF S!Measure
<1>2. sKind = "descending" /\ sSaved.phase = "backfilling"
  BY <1>1, HeldRecs DEF SweepPlaced, SweepTyped
<1>3. top \in Nat
  <2>1. times \subseteq 0 .. sClock /\ times # {} /\ sClock \in Nat
    BY HeldRecs DEF SweepTyped
  <2> HIDE DEF times
  <2> QED BY <2>1, LatestTime
<1> HIDE DEF top
<1>4. /\ sSaved' = [phase |-> "streaming", cursor |-> top, seen |-> {}, off |-> 0]
      /\ sJob' = [at |-> "idle", cur |-> 0, seen |-> {}, off |-> 0, hi |-> 0]
  BY <1>1 DEF S!Finish, S!IdleJob
<1>5. S!Held' = S!Held /\ \A r \in Recs : S!Current(r)' = S!Current(r)
  BY <1>1 DEF S!Held, S!Current
<1>6. SweepShape'
  BY <1>1, <1>2, <1>3, <1>4, <1>5, HeldRecs DEF SweepShape, SweepTyped, SweepDated, SweepPlaced
<1>7. \A r \in S!Held : Fine(r)'
  BY <1>1, <1>2, <1>5, HeldRecs DEF SweepInv, Walked, Fine
<1>8. Walked' /\ Watched'
  BY <1>4, <1>5, <1>7 DEF Walked, Watched
<1> QED BY <1>1, <1>2, <1>6, <1>8, SweepByKind

(* Whoever writes a record as it is, nothing gets worse.                   *)
LEMMA StepHotWrite ==
  ASSUME SweepInv, NEW r \in Recs, S!HotWrite(r)
  PROVE  SweepInv'
<1>1. /\ r \in S!Held /\ sMirror' = S!Written({r})
      /\ UNCHANGED <<sKind, sClock, sPco, sSaved, sJob, sTorn, sBudget>>
  BY DEF S!HotWrite
<1>2. /\ sMirror' \in [Recs -> [uat : 0 .. sClock, rev : Nat]]
      /\ SweepDated'
      /\ \A q \in Recs : S!Current(q) => S!Current(q)'
  BY <1>1, HeldRecs, WrittenFacts
<1>3. /\ S!Held' = S!Held /\ Place' = Place /\ Second' = Second
      /\ Lesser(S!Held)' = Lesser(S!Held) /\ Fresher(S!Held)' = Fresher(S!Held)
      /\ Elders(Second)' = Elders(Second)
  BY <1>1 DEF S!Held, Place, Second, Lesser, Fresher, Elders, S!Older, S!Newer
<1>4. /\ \A q \in S!Held : Fine(q) => Fine(q)'
      /\ \A q \in Second : Fine(q) => Fine(q)'
  BY <1>1, <1>2, HeldRecs, FineKept DEF Second
<1>5. SweepShape'
  BY <1>1, <1>2, HeldRecs DEF SweepShape, SweepTyped, SweepPlaced
<1>6. Behind'
  BY <1>1, <1>3, <1>4 DEF Behind, SweepInv
<1>7. Walked' /\ Watched'
  BY <1>1, <1>3, <1>4 DEF Walked, Watched, SweepInv
<1> QED BY <1>5, <1>6, <1>7 DEF SweepInv

LEMMA StepNewest ==
  ASSUME SweepInv, S!Newest
  PROVE  SweepInv'
<1> DEFINE page == S!NewestPage(sJob.off)
           news == S!News(page)
           times == {sJob.hi} \cup {sPco[r].uat : r \in news}
           hi == S!Max(times)
           Rank(r) == Cardinality(Fresher(S!Held)[r])
<1>1. /\ sJob.at = "newest" /\ sMirror' = S!Written(news) /\ UNCHANGED <<sKind, sClock, sPco, sBudget>>
      /\ \/ /\ S!Full(page) /\ news = page
            /\ sJob' = [sJob EXCEPT !.off = @ + SweepPage, !.hi = hi] /\ UNCHANGED sSaved
         \/ (~ S!Full(page) \/ news # page) /\ S!Finish(hi)
      /\ sTorn' = sTorn \cup {s \in {hi} : s > sJob.hi /\ sJob.off > 0}
  BY DEF S!Newest
<1>2. sKind = "descending" /\ sSaved.phase = "streaming" /\ sSaved.cursor <= sJob.hi
  BY <1>1, HeldRecs DEF SweepPlaced, SweepTyped
<1>3. Shows(page, S!Held, Fresher(S!Held), sJob.off)
  BY HeldRecs, OffsetPagesShow
<1>4. /\ page \subseteq S!Held /\ news \subseteq page
      /\ \A r \in page : r \in news \/ sPco[r].uat <= sSaved.cursor
  BY <1>3, HeldRecs DEF Shows, S!News
<1>5. /\ sMirror' \in [Recs -> [uat : 0 .. sClock, rev : Nat]]
      /\ SweepDated'
      /\ \A r \in news : S!Current(r)'
      /\ \A r \in Recs : S!Current(r) => S!Current(r)'
  BY <1>1, <1>4, HeldRecs, WrittenFacts
<1>6. hi \in Nat /\ hi \in times /\ sJob.hi <= hi
  <2>1. times \subseteq 0 .. sClock + sJob.hi /\ sJob.hi \in times /\ sClock + sJob.hi \in Nat
    BY <1>4, HeldRecs DEF SweepTyped
  <2> HIDE DEF times
  <2> QED BY <2>1, LatestTime
<1>7. hi = sJob.hi \/ \E q \in news : hi = sPco[q].uat
  BY <1>6
<1>8. \A r \in S!Held : Rank(r) \in Nat /\ sPco[r].uat \in Nat
  BY HeldRecs, Listings, RanksOrdered
<1>9. \A q, r \in S!Held : sPco[q].uat > sPco[r].uat => Rank(q) < Rank(r)
  BY HeldRecs, NewestDescends
<1> HIDE DEF hi, times, page, news
<1>10. /\ sTorn \subseteq sTorn' /\ sTorn' \subseteq Nat
       /\ \A r \in S!Held : Fine(r) => Fine(r)'
       /\ \A r \in S!Held : sPco[r].uat <= sSaved.cursor => Fine(r)'
  <2>1. sTorn \subseteq sTorn' /\ sTorn' \subseteq Nat
    BY <1>1, <1>6, HeldRecs DEF SweepTyped
  <2>2. \A r \in S!Held : Fine(r) => Fine(r)'
    BY <1>1, <1>5, <2>1, FineKept, HeldRecs
  <2> QED BY <1>2, <2>1, <2>2 DEF SweepInv, Watched
<1>11. ASSUME NEW r \in page PROVE Fine(r)'
  <2>1. CASE r \in news
    BY <1>5, <2>1 DEF Fine
  <2> QED BY <1>4, <1>10, <1>11, <2>1
(* A change since pushed it to the pages that were read: it is newer than  *)
(* they showed, and torn if it is of the second now taken as the newest.   *)
<1>12. ASSUME NEW r \in S!Held, Rank(r) < sJob.off PROVE Fine(r)' \/ sPco[r].uat > hi
  <2>1. Fine(r) \/ sPco[r].uat > sJob.hi
    BY <1>1, <1>2, <1>12 DEF SweepInv, Watched
  <2>2. CASE hi = sJob.hi
    BY <1>10, <2>1, <2>2
  <2>3. ASSUME NEW q \in news, hi = sPco[q].uat, sPco[r].uat > sJob.hi PROVE Fine(r)' \/ sPco[r].uat > hi
    <3>1. q \in S!Held /\ Rank(q) >= sJob.off
      BY <1>3, <1>4, <2>3 DEF Shows
    <3>2. ~ (hi > sPco[r].uat)
      <4>1. ~ (Rank(q) < Rank(r))
        BY <1>8, <1>12, <3>1, HeldRecs
      <4> QED BY <1>9, <2>3, <3>1, <4>1
    <3>3. CASE hi = sPco[r].uat
      <4>1. sJob.off > 0
        BY <1>8, <1>12, HeldRecs
      <4>2. hi \in sTorn'
        BY <1>1, <2>3, <3>3, <4>1
      <4> QED BY <1>1, <3>3, <4>2 DEF Fine
    <3> QED BY <1>6, <1>8, <3>2, <3>3
  <2> QED BY <1>7, <1>10, <2>1, <2>2, <2>3
<1>13. S!Held' = S!Held /\ Fresher(S!Held)' = Fresher(S!Held)
  BY <1>1 DEF S!Held, Fresher, S!Newer, S!Older
<1>14. CASE /\ S!Full(page) /\ news = page
            /\ sJob' = [sJob EXCEPT !.off = @ + SweepPage, !.hi = hi] /\ UNCHANGED sSaved
  <2>1. sJob.off + SweepPage \in Nat
    BY HeldRecs, SweepFacts
  <2>2. SweepTyped'
    <3>1. sJob' \in [at : {"idle", "keyset", "drain", "offset", "measure", "newest"},
                     cur : Nat, seen : SUBSET Recs, off : Nat, hi : Nat]
      BY <1>6, <1>14, <2>1, HeldRecs DEF SweepTyped
    <3> QED BY <1>1, <1>5, <1>10, <1>14, <3>1, HeldRecs DEF SweepTyped
  <2>3. sJob'.at = "newest" /\ sJob'.hi = hi /\ sJob'.off = sJob.off + SweepPage
    BY <1>1, <1>14, HeldRecs DEF SweepTyped
  <2>4. SweepPlaced'
    BY <1>1, <1>2, <1>6, <1>14, <2>3, HeldRecs DEF SweepPlaced
  <2>5. ASSUME NEW r \in S!Held, Rank(r) < sJob.off + SweepPage PROVE Fine(r)' \/ sPco[r].uat > hi
    <3>1. Rank(r) < sJob.off \/ r \in page
      BY <1>3, <1>8, <2>1, <2>5 DEF Shows
    <3> QED BY <1>11, <1>12, <3>1
  <2>6. Walked' /\ Watched'
    BY <1>1, <1>2, <1>10, <1>13, <1>14, <2>3, <2>5 DEF Walked, Watched
  <2> QED BY <1>1, <1>2, <1>5, <2>2, <2>4, <2>6, SweepByKind DEF SweepShape
<1>15. CASE (~ S!Full(page) \/ news # page) /\ S!Finish(hi)
  <2>1. /\ sSaved' = [phase |-> "streaming", cursor |-> hi, seen |-> {}, off |-> 0]
        /\ sJob' = [at |-> "idle", cur |-> 0, seen |-> {}, off |-> 0, hi |-> 0]
    BY <1>15 DEF S!Finish, S!IdleJob
  <2>2. SweepShape'
    BY <1>1, <1>2, <1>5, <1>6, <1>10, <2>1, HeldRecs DEF SweepShape, SweepTyped, SweepPlaced
  <2>3. ASSUME NEW r \in S!Held, sPco[r].uat <= hi PROVE Fine(r)'
    <3>1. CASE Rank(r) < sJob.off
      BY <1>6, <1>8, <1>12, <2>3, <3>1
    <3>2. CASE r \in page
      BY <1>11, <3>2
    <3>3. CASE Rank(r) >= sJob.off + SweepPage
      <4>1. PICK q \in page : q \notin news
        BY <1>3, <1>4, <1>8, <1>15, <3>3, HeldRecs, SweepFacts DEF Shows
      <4>2. q \in S!Held /\ Rank(q) < sJob.off + SweepPage /\ sPco[q].uat <= sSaved.cursor
        BY <1>3, <1>4, <4>1 DEF Shows
      <4>3. ~ (Rank(r) < Rank(q))
        BY <1>8, <3>3, <4>2, HeldRecs, SweepFacts
      <4>4. sPco[r].uat <= sSaved.cursor
        BY <1>8, <1>9, <4>2, <4>3, HeldRecs
      <4> QED BY <1>10, <4>4
    <3> QED BY <1>3, <1>8, <3>1, <3>2, <3>3, HeldRecs, SweepFacts DEF Shows
  <2>4. Walked' /\ Watched'
    BY <1>13, <1>1, <2>1, <2>3 DEF Walked, Watched
  <2> QED BY <1>1, <1>2, <2>2, <2>4, SweepByKind
<1> QED BY <1>1, <1>14, <1>15

LEMMA StepYield ==
  ASSUME SweepInv, S!Yield
  PROVE  SweepInv'
<1>1. /\ sSaved.phase = "backfilling" /\ UNCHANGED <<sKind, sClock, sPco, sMirror, sTorn, sBudget>>
      /\ sJob' = [at |-> "idle", cur |-> 0, seen |-> {}, off |-> 0, hi |-> 0]
      /\ \/ sJob.at = "keyset" /\ sSaved' = [sSaved EXCEPT !.cursor = sJob.cur, !.seen = sJob.seen]
         \/ sJob.at = "offset" /\ sSaved' = [sSaved EXCEPT !.off = sJob.off]
  BY DEF S!Yield, S!IdleJob
<1>2. S!Held' = S!Held /\ Lesser(S!Held)' = Lesser(S!Held) /\ \A r \in S!Held : Fine(r)' = Fine(r)
  BY <1>1 DEF S!Held, Lesser, Fine, S!Current
<1>3. CASE sJob.at = "keyset" /\ sSaved' = [sSaved EXCEPT !.cursor = sJob.cur, !.seen = sJob.seen]
  <2>1. sKind = "keyset" /\ sJob.cur = sSaved.cursor
    BY <1>3, HeldRecs DEF SweepPlaced, SweepTyped
  <2>2. sSaved'.cursor = sSaved.cursor /\ sSaved'.phase = sSaved.phase /\ sSaved'.off = sSaved.off
    BY <1>3, <2>1, HeldRecs DEF SweepTyped
  <2>3. SweepShape'
    BY <1>1, <1>2, <1>3, <2>1, <2>2, HeldRecs DEF SweepShape, SweepTyped, SweepDated, SweepPlaced
  <2>4. Behind'
    BY <1>1, <1>2, <2>1, <2>2 DEF Behind, SweepInv
  <2> QED BY <1>1, <2>1, <2>3, <2>4, SweepByKind
<1>4. CASE sJob.at = "offset" /\ sSaved' = [sSaved EXCEPT !.off = sJob.off]
  <2>1. sKind = "descending"
    BY <1>4, HeldRecs DEF SweepPlaced, SweepTyped
  <2>2. sSaved'.cursor = sSaved.cursor /\ sSaved'.phase = sSaved.phase /\ sSaved'.off = sJob.off
    BY <1>4, <2>1, HeldRecs DEF SweepTyped
  <2>3. SweepShape'
    BY <1>1, <1>2, <1>4, <2>1, <2>2, HeldRecs DEF SweepShape, SweepTyped, SweepDated, SweepPlaced
  <2>4. Place' = Place
    BY <1>1, <1>4, <2>2 DEF Place
  <2>5. Walked' /\ Watched'
    BY <1>1, <1>2, <2>1, <2>2, <2>4 DEF Walked, Watched, SweepInv
  <2> QED BY <1>1, <2>1, <2>3, <2>5, SweepByKind
<1> QED BY <1>1, <1>3, <1>4

(* The job is dropped: what was committed stays as good as it was.         *)
LEMMA JobDropped ==
  ASSUME SweepInv, UNCHANGED <<sKind, sClock, sPco, sSaved>>,
         sTorn \subseteq sTorn', sTorn' \subseteq Nat,
         sJob' = S!IdleJob, sBudget' \in [changes : 0 .. SweepChanges, faults : Nat],
         sMirror' \in [Recs -> [uat : 0 .. sClock, rev : Nat]], SweepDated',
         \A r \in Recs : S!Current(r) => S!Current(r)'
  PROVE  SweepInv'
<1>1. S!Held' = S!Held /\ Lesser(S!Held)' = Lesser(S!Held)
  BY DEF S!Held, Lesser
<1>2. \A r \in S!Held : Fine(r) => Fine(r)'
  BY HeldRecs, FineKept
<1>3. sJob' = [at |-> "idle", cur |-> 0, seen |-> {}, off |-> 0, hi |-> 0]
  BY DEF S!IdleJob
<1>4. SweepShape'
  BY <1>3, HeldRecs DEF SweepShape, SweepTyped, SweepPlaced
<1>5. Behind'
  BY <1>1, <1>2, <1>3 DEF Behind, SweepInv
<1>6. Walked'
  <2>1. Place' = sSaved.off /\ (sKind = "descending" /\ sSaved.phase = "backfilling" => sSaved.off <= Place)
    BY <1>3, HeldRecs DEF Place, SweepPlaced
  <2>2. Place \in Nat
    BY HeldRecs DEF Place
  <2>3. \A r \in S!Held : Cardinality(Lesser(S!Held)[r]) \in Nat
    BY HeldRecs
  <2>4. sJob'.at # "measure" /\ sSaved.off \in Nat
    BY <1>3, HeldRecs
  <2>5. ASSUME sKind = "descending", sSaved.phase = "backfilling",
               NEW r \in S!Held, Cardinality(Lesser(S!Held)[r]) < sSaved.off
        PROVE  Fine(r)'
    <3>1. Cardinality(Lesser(S!Held)[r]) < Place
      BY <2>1, <2>2, <2>3, <2>4, <2>5
    <3> QED BY <1>2, <2>5, <3>1 DEF Walked, SweepInv
  <2> QED BY <1>1, <2>1, <2>4, <2>5 DEF Walked
<1>7. Watched'
  BY <1>1, <1>2, <1>3 DEF Watched, SweepInv
<1> QED BY <1>4, <1>5, <1>6, <1>7 DEF SweepInv

LEMMA StepCrash ==
  ASSUME SweepInv, S!Crash
  PROVE  SweepInv'
<1>1. PICK ids \in SUBSET (CASE sJob.at = "keyset" -> S!KeysetPage(sJob.cur)
                             [] sJob.at = "drain"  -> S!DrainPage(sJob.cur, sJob.off)
                             [] sJob.at = "offset" -> S!OffsetPage(sJob.off)
                             [] sJob.at = "measure" -> {}
                             [] sJob.at = "newest" -> S!News(S!NewestPage(sJob.off))) :
        sMirror' = S!Written(ids)
  BY DEF S!Crash
<1>2. sJob.at \in {"keyset", "drain", "offset", "measure", "newest"} /\ S!Spend("faults")
  BY HeldRecs DEF S!Crash, SweepTyped
<1>3. /\ S!KeysetPage(sJob.cur) \subseteq S!Held /\ S!DrainPage(sJob.cur, sJob.off) \subseteq S!Held
      /\ S!OffsetPage(sJob.off) \subseteq S!Held /\ S!News(S!NewestPage(sJob.off)) \subseteq S!Held
  BY HeldRecs, KeysetShows, OffsetPagesShow DEF Shows, Second, S!News
<1>4. ids \subseteq S!Held
  BY <1>1, <1>2, <1>3
<1>5. UNCHANGED <<sKind, sClock, sPco, sSaved, sTorn>> /\ sJob' = S!IdleJob
  BY DEF S!Crash
<1>6. sBudget' \in [changes : 0 .. SweepChanges, faults : Nat]
  BY <1>2, HeldRecs DEF S!Spend, SweepTyped
<1>7. /\ sMirror' \in [Recs -> [uat : 0 .. sClock, rev : Nat]] /\ SweepDated'
      /\ \A r \in Recs : S!Current(r) => S!Current(r)'
  BY <1>1, <1>4, <1>5, HeldRecs, WrittenFacts
<1>8. sTorn' \subseteq Nat
  BY <1>5, HeldRecs DEF SweepTyped
<1> QED BY <1>5, <1>6, <1>7, <1>8, JobDropped

LEMMA StepErrorAnswer ==
  ASSUME SweepInv, S!ErrorAnswer
  PROVE  SweepInv'
<1>1. /\ UNCHANGED <<sKind, sClock, sPco, sMirror>> /\ S!Spend("faults")
      /\ sJob.at \in {"keyset", "drain", "offset", "newest"}
  BY HeldRecs DEF S!ErrorAnswer, SweepTyped
<1>2. sBudget' \in [changes : 0 .. SweepChanges, faults : Nat]
  BY <1>1, HeldRecs DEF S!Spend, SweepTyped
<1>3. S!Held' = S!Held /\ \A r \in Recs : S!Current(r)' = S!Current(r)
  BY <1>1 DEF S!Held, S!Current
<1>4. SweepDated' /\ sMirror' \in [Recs -> [uat : 0 .. sClock, rev : Nat]]
  BY <1>1, <1>3, HeldRecs DEF SweepDated, SweepTyped
<1>5. CASE sJob.at = "keyset"
  <2>1. sKind = "keyset" /\ sJob.cur = sSaved.cursor /\ sTorn' = sTorn
    BY <1>5, HeldRecs DEF SweepPlaced, SweepTyped, S!ErrorAnswer
  <2>2. CASE sJob' = S!IdleJob /\ UNCHANGED sSaved
    BY <1>1, <1>2, <1>3, <1>4, <2>1, <2>2, HeldRecs, JobDropped DEF SweepTyped
  <2>3. CASE S!Finish(sJob.cur)
    <3>1. /\ sSaved' = [phase |-> "streaming", cursor |-> sSaved.cursor, seen |-> {}, off |-> 0]
          /\ sJob' = [at |-> "idle", cur |-> 0, seen |-> {}, off |-> 0, hi |-> 0]
      BY <2>1, <2>3 DEF S!Finish, S!IdleJob
    <3>2. SweepShape'
      BY <1>1, <1>2, <1>4, <2>1, <3>1, HeldRecs DEF SweepShape, SweepTyped, SweepPlaced
    <3>3. Behind'
      BY <1>1, <1>3, <2>1, <3>1, HeldRecs DEF Behind, SweepInv, Fine
    <3> QED BY <1>1, <2>1, <3>2, <3>3, SweepByKind
  <2> QED BY <1>5, <2>2, <2>3 DEF S!ErrorAnswer
<1>6. CASE sJob.at = "drain"
  <2>1. /\ sKind = "keyset" /\ sJob.cur = sSaved.cursor
        /\ S!Advance(sJob.cur + 1, {}) /\ sTorn' = sTorn \cup {sJob.cur}
    BY <1>6, HeldRecs DEF SweepPlaced, SweepTyped, S!ErrorAnswer
  <2>2. /\ sJob' = [at |-> "keyset", cur |-> sJob.cur + 1, seen |-> {}, off |-> 0, hi |-> 0]
        /\ sSaved' = [sSaved EXCEPT !.cursor = sJob.cur + 1, !.seen = {}]
    BY <2>1 DEF S!Advance, S!IdleJob
  <2>3. /\ sSaved' \in [phase : {"backfilling", "streaming"}, cursor : Nat, seen : SUBSET Recs, off : Nat]
        /\ sSaved'.cursor = sJob.cur + 1 /\ sSaved'.phase = sSaved.phase /\ sSaved'.off = sSaved.off
    <3>1. sSaved \in [phase : {"backfilling", "streaming"}, cursor : Nat, seen : SUBSET Recs, off : Nat]
      BY HeldRecs DEF SweepTyped
    <3>2. sJob.cur + 1 \in Nat /\ {} \in SUBSET Recs
      BY HeldRecs
    <3> QED BY ONLY <2>2, <3>1, <3>2
  <2>4. SweepShape'
    <3>1. SweepTyped'
      BY <1>1, <1>2, <1>4, <2>1, <2>2, <2>3, HeldRecs DEF SweepTyped
    <3>2. SweepPlaced'
      BY <1>1, <2>1, <2>2, <2>3, HeldRecs DEF SweepPlaced
    <3> QED BY <1>4, <3>1, <3>2 DEF SweepShape
  <2>5. \A r \in S!Held : sPco[r].uat < sJob.cur + 1 => sPco[r].uat < sSaved.cursor \/ sPco[r].uat \in sTorn'
    BY <2>1, HeldRecs
  <2>6. Behind'
    BY <1>1, <1>3, <2>1, <2>2, <2>3, <2>5, HeldRecs DEF Behind, SweepInv, Fine
  <2> QED BY <1>1, <2>1, <2>4, <2>6, SweepByKind
<1>7. CASE sJob.at = "offset"
  <2>1. /\ sKind = "descending" /\ sSaved.phase = "backfilling"
        /\ S!Paged /\ sTorn' = sTorn \cup 0 .. sClock
    BY <1>7, HeldRecs DEF SweepPlaced, SweepTyped, S!ErrorAnswer
  <2>3. /\ sSaved' \in [phase : {"backfilling", "streaming"}, cursor : Nat, seen : SUBSET Recs, off : Nat]
        /\ sSaved'.phase = "backfilling" /\ sSaved'.off = 0
        /\ sJob' = [at |-> "measure", cur |-> 0, seen |-> {}, off |-> 0, hi |-> 0]
    BY <2>1, HeldRecs DEF S!Paged, S!IdleJob, SweepTyped
  <2>4. SweepShape'
    BY <1>1, <1>2, <1>4, <2>1, <2>3, HeldRecs DEF SweepShape, SweepTyped, SweepPlaced
  <2>5. \A r \in S!Held : Fine(r)'
    BY <1>1, <2>1, HeldRecs DEF Fine
  <2>6. Walked' /\ Watched'
    BY <1>3, <2>3, <2>5 DEF Walked, Watched
  <2> QED BY <1>1, <2>1, <2>4, <2>6, SweepByKind
<1>8. CASE sJob.at = "newest"
  <2>1. /\ sKind = "descending" /\ sSaved.phase = "streaming" /\ sSaved.cursor <= sJob.hi
        /\ S!Finish(sJob.hi) /\ sTorn' = sTorn \cup sSaved.cursor .. sJob.hi
    BY <1>8, HeldRecs DEF SweepPlaced, SweepTyped, S!ErrorAnswer
  <2>2. /\ sSaved' = [phase |-> "streaming", cursor |-> sJob.hi, seen |-> {}, off |-> 0]
        /\ sJob' = [at |-> "idle", cur |-> 0, seen |-> {}, off |-> 0, hi |-> 0]
    BY <2>1 DEF S!Finish, S!IdleJob
  <2>3. SweepShape'
    BY <1>1, <1>2, <1>4, <2>1, <2>2, HeldRecs DEF SweepShape, SweepTyped, SweepPlaced
  <2>4. \A r \in S!Held : sPco[r].uat <= sJob.hi => sPco[r].uat <= sSaved.cursor \/ sPco[r].uat \in sTorn'
    BY <2>1, HeldRecs
  <2>5. Walked' /\ Watched'
    BY <1>1, <1>3, <2>1, <2>2, <2>4, HeldRecs DEF Walked, Watched, SweepInv, Fine
  <2> QED BY <1>1, <2>1, <2>3, <2>5, SweepByKind
<1> QED BY <1>1, <1>5, <1>6, <1>7, <1>8

LEMMA StepTick ==
  ASSUME SweepInv, S!PcoTick
  PROVE  SweepInv'
<1>1. /\ sClock' = sClock + 1
      /\ UNCHANGED <<sKind, sPco, sMirror, sSaved, sJob, sTorn, sBudget>>
  BY DEF S!PcoTick
<1>2. /\ S!Held' = S!Held /\ \A r \in S!Held : Fine(r)' = Fine(r)
      /\ Place' = Place /\ Second' = Second
      /\ Lesser(S!Held)' = Lesser(S!Held) /\ Fresher(S!Held)' = Fresher(S!Held)
      /\ Elders(Second)' = Elders(Second)
  BY <1>1 DEF S!Held, Fine, S!Current, Place, Second, Lesser, Fresher, Elders, S!Older, S!Newer
<1>3. SweepTyped'
  <2>1. sClock' \in Nat \ {0} /\ 0 .. sClock \subseteq 0 .. sClock'
    BY <1>1, HeldRecs DEF SweepTyped
  <2>2. \A r \in Recs : sPco[r] \in [uat : 0 .. sClock', rev : Nat] /\ sMirror[r] \in [uat : 0 .. sClock', rev : Nat]
    BY <2>1, HeldRecs DEF SweepTyped
  <2>3. sPco = [r \in Recs |-> sPco[r]] /\ sMirror = [r \in Recs |-> sMirror[r]]
    BY HeldRecs DEF SweepTyped
  <2>4. sPco' \in [Recs -> [uat : 0 .. sClock', rev : Nat]] /\ sMirror' \in [Recs -> [uat : 0 .. sClock', rev : Nat]]
    BY <1>1, <2>2, <2>3
  <2> QED BY <1>1, <2>1, <2>4, HeldRecs DEF SweepTyped
<1>4. SweepDated' /\ SweepPlaced'
  BY <1>1, <1>2, HeldRecs DEF SweepDated, SweepPlaced
<1>5. Behind'
  BY <1>1, <1>2 DEF Behind, SweepInv, Second
<1>6. Walked' /\ Watched'
  BY <1>1, <1>2 DEF Walked, Watched, SweepInv
<1> QED BY <1>3, <1>4, <1>5, <1>6 DEF SweepInv, SweepShape

(* Nothing that is not changed comes to stand earlier, when one record     *)
(* takes the newest place.                                                 *)
LEMMA RanksGrow ==
  ASSUME SweepInv, SweepTyped', NEW r \in Recs, NEW rev \in Nat,
         sPco' = [sPco EXCEPT ![r] = [uat |-> sClock, rev |-> rev]],
         NEW q \in S!Held', q # r
  PROVE  /\ q \in S!Held /\ sPco'[q] = sPco[q]
         /\ Cardinality(Lesser(S!Held)[q]) <= Cardinality(Lesser(S!Held)'[q])
         /\ Cardinality(Fresher(S!Held)[q]) <= Cardinality(Fresher(S!Held)'[q])
<1>1. /\ sPco'[r] = [uat |-> sClock, rev |-> rev]
      /\ \A x \in Recs : x # r => sPco'[x] = sPco[x]
      /\ sClock \in Nat \ {0}
  BY HeldRecs DEF SweepTyped
<1>2. S!Held \subseteq S!Held' /\ S!Held' \subseteq Recs /\ q \in S!Held
  BY <1>1 DEF S!Held, S!Absent
<1>3. IsFiniteSet(S!Held')
  BY <1>2, SweepFacts, FS_Subset
<1>4. Lesser(S!Held)[q] \subseteq Lesser(S!Held)'[q] /\ Lesser(S!Held)'[q] \subseteq S!Held'
  BY <1>2 DEF Lesser
<1>5. Fresher(S!Held)[q] \subseteq Fresher(S!Held)'[q] /\ Fresher(S!Held)'[q] \subseteq S!Held'
  <2>1. ASSUME NEW x \in S!Held, S!Newer(x, q) PROVE S!Newer(x, q)'
    <3>1. CASE x # r
      BY <1>1, <1>2, <2>1, <3>1 DEF S!Newer, S!Older
    <3>2. CASE x = r
      <4>1. sPco[r].uat <= sClock /\ sPco[q].uat <= sClock /\ sPco[r].uat \in Nat /\ sPco[q].uat \in Nat
        BY <1>2, HeldRecs DEF SweepTyped
      <4>2. sPco'[r].uat = sClock /\ sPco'[q].uat = sPco[q].uat
        BY <1>1, <1>2
      <4> QED BY <1>1, <2>1, <3>2, <4>1, <4>2 DEF S!Newer, S!Older
    <3> QED BY <3>1, <3>2
  <2>2. q \in S!Held /\ q \in S!Held'
    BY <1>2
  <2>3. /\ Fresher(S!Held)[q] = {x \in S!Held : S!Newer(x, q)}
        /\ Fresher(S!Held)'[q] = {x \in S!Held' : S!Newer(x, q)'}
    BY <2>2 DEF Fresher
  <2> QED BY <1>2, <2>1, <2>3
<1>6. IsFiniteSet(Lesser(S!Held)'[q]) /\ IsFiniteSet(Fresher(S!Held)'[q])
  BY <1>3, <1>4, <1>5, FS_Subset
<1> QED BY <1>1, <1>2, <1>4, <1>5, <1>6, FS_Subset

(* A change before the cursor, or in a second being drained, tears it.     *)
LEMMA StepPcoChange ==
  ASSUME SweepInv, NEW r \in Recs, S!PcoChange(r)
  PROVE  SweepInv'
<1> DEFINE rev == SweepChanges - sBudget.changes + 1
<1>1. /\ UNCHANGED <<sKind, sClock, sMirror, sSaved, sJob>> /\ S!Spend("changes")
      /\ sPco' = [sPco EXCEPT ![r] = [uat |-> sClock, rev |-> rev]]
      /\ sTorn' = sTorn \cup S!Tears(sPco[r].uat)
  BY DEF S!PcoChange
<1>2. sBudget' \in [changes : 0 .. SweepChanges, faults : Nat] /\ rev \in Nat
  BY <1>1, HeldRecs, SweepFacts DEF S!Spend, SweepTyped
<1> HIDE DEF rev
<1>3. /\ sPco'[r] = [uat |-> sClock, rev |-> rev] /\ sClock \in Nat \ {0}
      /\ \A q \in Recs : q # r => sPco'[q] = sPco[q]
  BY <1>1, HeldRecs DEF SweepTyped
<1>4. S!Held' = S!Held \cup {r}
  BY <1>3 DEF S!Held, S!Absent
<1>5. sTorn \subseteq sTorn' /\ sTorn' \subseteq Nat
  BY <1>1, <1>3, HeldRecs DEF S!Tears, SweepTyped
<1>6. SweepTyped'
  <2>1. sPco' \in [Recs -> [uat : 0 .. sClock, rev : Nat]]
    <3>1. [uat |-> sClock, rev |-> rev] \in [uat : 0 .. sClock, rev : Nat]
      BY <1>2, <1>3
    <3> QED BY <1>1, <3>1, HeldRecs DEF SweepTyped
  <2> QED BY <1>1, <1>2, <1>5, <2>1, HeldRecs DEF SweepTyped
<1>7. SweepDated'
  <2>1. sMirror[r].uat <= sClock /\ sPco'[r].uat = sClock /\ sClock # 0
    BY <1>3, HeldRecs DEF SweepTyped
  <2>2. \A q \in Recs : q # r => (sPco'[q].uat = 0 => q \notin S!Held') /\ (q \in S!Held' => sMirror[q].uat <= sPco'[q].uat)
    BY <1>3, <1>4, HeldRecs DEF SweepDated
  <2> QED BY <1>1, <2>1, <2>2 DEF SweepDated
<1>8. SweepPlaced'
  BY <1>1, HeldRecs DEF SweepPlaced
<1>9. SweepShape'
  BY <1>6, <1>7, <1>8 DEF SweepShape
<1>10. ASSUME NEW q \in S!Held', q # r, Fine(q) PROVE Fine(q)'
  <2>1. q \in Recs /\ q \in S!Held
    BY <1>4, <1>10, HeldRecs
  <2> QED BY <1>1, <1>3, <1>5, <1>10, <2>1 DEF Fine, S!Current
<1>11. sPco'[r].uat = sClock /\ (sClock \in sTorn' => Fine(r)')
  BY <1>3 DEF Fine
<1>12. CASE sKind = "keyset"
  <2>1. ASSUME NEW q \in S!Held', sPco'[q].uat < sSaved.cursor PROVE Fine(q)'
    <3>1. CASE q # r
      BY <1>3, <1>4, <1>10, <1>12, <2>1, <3>1, HeldRecs DEF SweepInv, Behind
    <3>2. CASE q = r
      <4>1. sClock \in S!Tears(sPco[r].uat)
        BY <1>11, <1>12, <2>1, <3>2, HeldRecs DEF S!Tears, S!Later, SweepTyped
      <4> QED BY <1>1, <1>11, <3>2, <4>1
    <3> QED BY <3>1, <3>2
  <2>2. ASSUME sJob.at = "drain", NEW q \in Second',
               Cardinality(Elders(Second)'[q]) < sJob.off
        PROVE  Fine(q)'
    <3>1. q \in S!Held' /\ sPco'[q].uat = sJob.cur
      BY <1>1, <2>2 DEF Second
    <3>2. CASE sJob.cur \in sTorn'
      BY <3>1, <3>2 DEF Fine
    <3>3. CASE sJob.cur \notin sTorn'
      <4>1. sClock # sJob.cur /\ sPco[r].uat # sJob.cur
        BY <1>1, <1>12, <2>2, <3>3 DEF S!Tears
      <4>2. Second' = Second /\ r \notin Second
        BY <1>1, <1>3, <1>4, <4>1, HeldRecs DEF Second
      <4>3. Elders(Second)' = Elders(Second)
        <5>1. \A x, y \in Second : S!Older(x, y)' = S!Older(x, y)
          BY <1>3, <4>2, HeldRecs DEF Second, S!Older
        <5> QED BY <4>2, <5>1 DEF Elders
      <4>4. Fine(q)
        BY <1>12, <2>2, <4>2, <4>3 DEF SweepInv, Behind
      <4> QED BY <1>10, <2>2, <3>1, <4>2, <4>4
    <3> QED BY <3>2, <3>3
  <2>3. Behind'
    BY <1>1, <2>1, <2>2 DEF Behind
  <2> QED BY <1>1, <1>9, <1>12, <2>3, SweepByKind
<1>13. CASE sKind = "descending" /\ sSaved.phase = "backfilling"
  <2>1. ASSUME NEW q \in S!Held',
               Cardinality(Lesser(S!Held)'[q]) < Place \/ sJob.at = "measure"
        PROVE  Fine(q)'
    <3>1. Place \in Nat /\ S!Held' \subseteq Recs
      BY <1>4, HeldRecs DEF Place
    <3>2. Cardinality(Lesser(S!Held)'[q]) \in Nat
      <4>1. Lesser(S!Held)'[q] = Lesser(S!Held')[q]
        BY DEF Lesser
      <4> QED BY <3>1, <4>1, HeldRecs
    <3>3. CASE q # r
      <4>1. /\ q \in S!Held
            /\ Cardinality(Lesser(S!Held)[q]) <= Cardinality(Lesser(S!Held)'[q])
        BY <1>1, <1>2, <1>6, <3>3, RanksGrow
      <4>2. Cardinality(Lesser(S!Held)[q]) \in Nat
        BY <4>1, HeldRecs
      <4>3. Cardinality(Lesser(S!Held)[q]) < Place \/ sJob.at = "measure"
        BY <2>1, <3>1, <3>2, <4>1, <4>2
      <4>4. Fine(q)
        BY <1>13, <4>1, <4>3 DEF SweepInv, Walked
      <4> QED BY <1>10, <3>3, <4>4
    <3>4. CASE q = r
      <4>1. Place > 0 \/ sJob.at = "measure"
        BY <2>1, <3>1, <3>2
      <4>2. sClock \in S!Tears(sPco[r].uat)
        BY <1>13, <4>1 DEF S!Tears, Place
      <4> QED BY <1>1, <1>11, <3>4, <4>2
    <3> QED BY <3>3, <3>4
  <2>2. Place' = Place
    BY <1>1 DEF Place
  <2>3. Walked' /\ Watched'
    BY <1>1, <1>13, <2>1, <2>2 DEF Walked, Watched
  <2> QED BY <1>1, <1>9, <1>13, <2>3, SweepByKind
<1>14. CASE sKind = "descending" /\ sSaved.phase = "streaming"
  <2>0. sClock > S!Later(sSaved.cursor, sJob.hi) \/ sClock \in sTorn'
    BY <1>1, <1>3, <1>14, HeldRecs DEF S!Tears, S!Later
  <2>1. ASSUME NEW q \in S!Held', sPco'[q].uat <= sSaved.cursor PROVE Fine(q)'
    <3>1. CASE q # r
      BY <1>3, <1>4, <1>10, <1>14, <2>1, <3>1, HeldRecs DEF SweepInv, Watched
    <3>2. CASE q = r
      BY <1>11, <1>3, <2>0, <2>1, <3>2, HeldRecs DEF S!Later
    <3> QED BY <3>1, <3>2
  <2>2. ASSUME sJob.at = "newest", NEW q \in S!Held', Cardinality(Fresher(S!Held)'[q]) < sJob.off
        PROVE  Fine(q)' \/ sPco'[q].uat > sJob.hi
    <3>1. CASE q # r
      <4>1. /\ q \in S!Held /\ sPco'[q] = sPco[q]
            /\ Cardinality(Fresher(S!Held)[q]) <= Cardinality(Fresher(S!Held)'[q])
        BY <1>1, <1>2, <1>6, <3>1, RanksGrow
      <4>2. Cardinality(Fresher(S!Held)[q]) \in Nat /\ Cardinality(Fresher(S!Held)'[q]) \in Nat
        <5>1. Fresher(S!Held)'[q] \subseteq S!Held' /\ S!Held' \subseteq Recs
          BY <1>4, HeldRecs DEF Fresher
        <5>2. IsFiniteSet(Fresher(S!Held)'[q])
          BY <5>1, SweepFacts, FS_Subset
        <5> QED BY <4>1, <5>2, HeldRecs, FS_CardinalityType
      <4>3. Cardinality(Fresher(S!Held)[q]) < sJob.off
        BY <2>2, <4>1, <4>2, HeldRecs
      <4>4. Fine(q) \/ sPco[q].uat > sJob.hi
        BY <1>14, <2>2, <4>1, <4>3 DEF SweepInv, Watched
      <4> QED BY <1>10, <3>1, <4>1, <4>4
    <3>2. CASE q = r
      BY <1>11, <1>3, <2>0, <3>2, HeldRecs DEF S!Later
    <3> QED BY <3>1, <3>2
  <2>3. Walked' /\ Watched'
    BY <1>1, <1>14, <2>1, <2>2 DEF Walked, Watched
  <2> QED BY <1>1, <1>9, <1>14, <2>3, SweepByKind
<1> QED BY <1>12, <1>13, <1>14, HeldRecs DEF SweepTyped

(* What comes after a deleted record moves up, past an offset walk.        *)
LEMMA StepPcoDelete ==
  ASSUME SweepInv, NEW r \in Recs, S!PcoDelete(r)
  PROVE  SweepInv'
<1>1. /\ UNCHANGED <<sKind, sClock, sMirror, sSaved, sJob>> /\ S!Spend("changes")
      /\ sPco' = [sPco EXCEPT ![r] = [uat |-> 0, rev |-> 0]]
      /\ sTorn' = sTorn \cup (CASE sJob.at = "drain" -> {sJob.cur}
                                [] sJob.at = "offset" \/ (sJob.at # "drain" /\ sSaved.off > 0) -> 0 .. sClock
                                [] sJob.at = "newest" /\ sSaved.off = 0 -> sSaved.cursor .. sClock
                                [] OTHER -> {})
  BY DEF S!PcoDelete, S!Absent
<1>2. sBudget' \in [changes : 0 .. SweepChanges, faults : Nat]
  BY <1>1, HeldRecs, SweepFacts DEF S!Spend, SweepTyped
<1>3. /\ sPco'[r] = [uat |-> 0, rev |-> 0] /\ sClock \in Nat \ {0}
      /\ \A q \in Recs : q # r => sPco'[q] = sPco[q]
  BY <1>1, HeldRecs DEF SweepTyped
<1>4. S!Held' = S!Held \ {r}
  BY <1>3 DEF S!Held, S!Absent
<1>5. /\ sTorn \subseteq sTorn' /\ sTorn' \subseteq Nat
      /\ sJob.at = "drain" => sJob.cur \in sTorn'
      /\ sJob.at = "offset" \/ (sJob.at # "drain" /\ sSaved.off > 0) => 0 .. sClock \subseteq sTorn'
      /\ sJob.at = "newest" /\ sSaved.off = 0 => sSaved.cursor .. sClock \subseteq sTorn'
  <2>1. sTorn \subseteq Nat /\ sJob.cur \in Nat /\ 0 .. sClock \subseteq Nat /\ sSaved.cursor .. sClock \subseteq Nat
    BY <1>3, HeldRecs DEF SweepTyped
  <2>2. CASE sJob.at = "drain"
    BY <1>1, <2>1, <2>2
  <2>3. CASE sJob.at = "offset" \/ (sJob.at # "drain" /\ sSaved.off > 0)
    BY <1>1, <2>1, <2>3, HeldRecs
  <2>4. CASE sJob.at = "newest" /\ sSaved.off = 0
    BY <1>1, <2>1, <2>4
  <2>5. CASE ~ (sJob.at = "drain") /\ ~ (sJob.at = "offset" \/ (sJob.at # "drain" /\ sSaved.off > 0))
             /\ ~ (sJob.at = "newest" /\ sSaved.off = 0)
    BY <1>1, <2>1, <2>5
  <2> QED BY <2>2, <2>3, <2>4, <2>5
<1>6. SweepTyped'
  <2>1. [uat |-> 0, rev |-> 0] \in [uat : 0 .. sClock, rev : Nat]
    BY <1>3
  <2>2. sPco' \in [Recs -> [uat : 0 .. sClock, rev : Nat]]
    BY <1>1, <2>1, HeldRecs DEF SweepTyped
  <2> QED BY <1>1, <1>2, <1>5, <2>2, HeldRecs DEF SweepTyped
<1>7. SweepDated' /\ SweepPlaced'
  BY <1>1, <1>3, <1>4, HeldRecs DEF SweepDated, SweepPlaced
<1>8. ASSUME NEW q \in S!Held'
      PROVE  /\ q \in S!Held /\ q # r /\ sPco'[q] = sPco[q] /\ sPco'[q].uat \in 0 .. sClock
             /\ Fine(q) => Fine(q)'
  BY <1>1, <1>3, <1>4, <1>5, <1>8, HeldRecs DEF Fine, S!Current
<1>9. CASE sKind = "keyset"
  <2>1. ASSUME NEW q \in Second', sJob.at = "drain" PROVE Fine(q)'
    BY <1>1, <1>5, <2>1 DEF Fine, Second
  <2>2. Behind'
    BY <1>1, <1>8, <1>9, <2>1 DEF Behind, SweepInv
  <2> QED BY <1>1, <1>6, <1>7, <1>9, <2>2, SweepByKind DEF SweepShape
<1>10. CASE sKind = "descending" /\ sSaved.phase = "backfilling"
  <2>0. ASSUME NEW q \in S!Held', sJob.at = "measure" PROVE Fine(q)'
    BY <1>8, <1>10, <2>0 DEF SweepInv, Walked
  <2>1. ASSUME NEW q \in S!Held', Cardinality(Lesser(S!Held)'[q]) < Place PROVE Fine(q)'
    <3>1. Cardinality(Lesser(S!Held)'[q]) \in Nat
      <4>1. Lesser(S!Held)'[q] \subseteq S!Held' /\ S!Held' \subseteq Recs
        BY <1>4, HeldRecs DEF Lesser
      <4> QED BY <4>1, SweepFacts, FS_Subset, FS_CardinalityType
    <3>2. sJob.at = "offset" \/ (sJob.at # "drain" /\ sSaved.off > 0)
      BY <1>10, <2>1, <3>1, HeldRecs DEF Place, SweepPlaced
    <3> QED BY <1>5, <1>8, <3>2 DEF Fine
  <2>2. Walked' /\ Watched'
    BY <1>1, <1>10, <2>0, <2>1 DEF Walked, Watched, Place
  <2> QED BY <1>1, <1>6, <1>7, <1>10, <2>2, SweepByKind DEF SweepShape
<1>11. CASE sKind = "descending" /\ sSaved.phase = "streaming"
  <2>1. ASSUME NEW q \in S!Held', sPco'[q].uat <= sSaved.cursor PROVE Fine(q)'
    BY <1>8, <1>11, <2>1 DEF Watched, SweepInv
  <2>2. ASSUME NEW q \in S!Held', sJob.at = "newest" PROVE Fine(q)'
    <3>1. CASE sPco'[q].uat <= sSaved.cursor
      BY <2>1, <3>1
    <3>2. CASE sPco'[q].uat \in sSaved.cursor .. sClock
      BY <1>5, <1>11, <2>2, <3>2, HeldRecs DEF Fine, SweepPlaced
    <3> QED BY <1>8, <3>1, <3>2, HeldRecs
  <2>3. Walked' /\ Watched'
    BY <1>1, <1>11, <2>1, <2>2 DEF Walked, Watched
  <2> QED BY <1>1, <1>6, <1>7, <1>11, <2>3, SweepByKind DEF SweepShape
<1> QED BY <1>9, <1>10, <1>11, HeldRecs DEF SweepTyped

LEMMA SweepStep ==
  ASSUME SweepInv, [S!Next]_sweepsVars
  PROVE  SweepInv'
<1>1. CASE UNCHANGED sweepsVars
  <2>1. UNCHANGED <<sKind, sClock, sPco, sMirror, sSaved, sJob, sTorn, sBudget>>
    BY <1>1 DEF sweepsVars
  <2>2. SweepShape'
    BY <2>1, HeldRecs DEF SweepShape, SweepTyped, SweepDated, SweepPlaced, S!Held
  <2>3. S!Held' = S!Held /\ Second' = Second /\ Place' = Place
        /\ \A r : Fine(r)' = Fine(r)
    BY <2>1 DEF S!Held, Second, Place, Fine, S!Current
  <2>4. /\ Lesser(S!Held)' = Lesser(S!Held) /\ Fresher(S!Held)' = Fresher(S!Held)
        /\ Elders(Second)' = Elders(Second)
    BY <2>1, <2>3 DEF Lesser, Fresher, Elders, S!Older, S!Newer
  <2>5. Behind' /\ Walked' /\ Watched'
    BY <2>1, <2>3, <2>4 DEF Behind, Walked, Watched, SweepInv
  <2> QED BY <2>2, <2>5 DEF SweepInv
<1>2. CASE S!Next
  BY <1>2, StepBegin, StepKeyset, StepDrain, StepOffset, StepNewest, StepYield, StepErrorAnswer,
     StepCrash, StepTick, StepPcoChange, StepPcoDelete, StepMeasure, StepHotWrite DEF S!Next, S!Page
<1> QED BY <1>1, <1>2

SweepsInv == part = "sweeps" => SweepInv

(* What Planning Center changed before the committed cursor is in the      *)
(* mirror at its latest version, the torn seconds apart, wherever a sweep  *)
(* or a unit of a backfill failed, yielded or died (docstring of backfill: *)
(* the cursor is persisted page by page, so that a crash can resume).      *)
THEOREM SweepsLeaveNoGap == Spec => []NoGap
<1>1. Init => SweepsInv
  BY SweepInit DEF Init, SweepsInv
<1>2. SweepsInv /\ [Next]_vars => SweepsInv'
  <2> SUFFICES ASSUME SweepsInv, [Next]_vars, part' = "sweeps" PROVE SweepInv'
    BY DEF SweepsInv
  <2>1. part = "sweeps" /\ [S!Next]_sweepsVars
    BY DEF Next, S!Next, vars, RestoreOnly, MembersOnly, SweepsOnly, AuditOnly
  <2> QED BY <2>1, SweepStep DEF SweepsInv
<1>3. SweepsInv => NoGap
  <2> SUFFICES ASSUME SweepInv, sKind = "keyset" \/ sSaved.phase = "streaming",
                      NEW r \in S!Held, sPco[r].uat < sSaved.cursor, sPco[r].uat \notin sTorn
               PROVE  S!Current(r)
    BY DEF SweepsInv, NoGap, S!NoGap
  <2>1. Fine(r)
    BY HeldRecs DEF SweepInv, Behind, Watched, SweepTyped
  <2> QED BY <2>1 DEF Fine
<1> QED BY <1>1, <1>2, <1>3, PTL DEF Spec
=============================================================================
