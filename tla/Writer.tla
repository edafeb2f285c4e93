------------------------------- MODULE Writer -------------------------------
(***************************************************************************)
(* The mirror fed by everything Planning Center (PCO) ever says about its  *)
(* records.  PCO's changes send facts; webhooks, sweeps and read-throughs  *)
(* hand facts to the canonical writer late, in any order and more than     *)
(* once.  A fact is one call of the writer:                                *)
(*   update     a representation of the record, through route              *)
(*   destroyed  a destroyed webhook                                        *)
(*   merged     a person_merger                                            *)
(*   live       the answer 200 to a GET of one record, through confirm_live*)
(*   absent     the answer 404 to a GET of one record                      *)
(* The two answers are about the moment PCO gave them: each is applied     *)
(* once, but other facts may be applied between the answer and its use.    *)
(* (The hydration of a person writes its 200 through route: an update.)    *)
(***************************************************************************)
EXTENDS Mirror

CONSTANTS
  RelSets,        \* the relationship sets a representation may carry
  Backfilled,     \* the records that exist, mirrored, when a behaviour starts
  Mergeable,      \* the owners that can be merged away: people, not households
  Answers,        \* ids some thread reads one by one: hydration, audit
  Confirmed,      \* of these, the ones whose 200 is written by confirm_live
  BareDestroys,   \* destroyed webhooks carry no updated_at, as the real ones
  ChildEvents,    \* PCO says destroyed for the children a record takes with it
  Restores        \* PCO may bring a destroyed record back under its id

ASSUME WriterAssumption ==
  /\ RelSets \subseteq SUBSET Rels /\ RelSets # {}
  /\ Backfilled \subseteq Ids /\ Confirmed \subseteq Answers /\ Answers \subseteq Ids
  /\ Mergeable \subseteq Owners
  /\ {BareDestroys, ChildEvents, Restores} \subseteq BOOLEAN

VARIABLES
  clock,   \* PCO's clock
  pco,     \* PCO's records
  sent,    \* facts PCO has given out
  seen,    \* webhook and page facts applied at least once
  mirror,  \* the mirror's rows
  crossed  \* history: how the last destroyed webhook of a record met its row

vars == <<clock, pco, sent, seen, mirror, crossed>>

Fact == [kind : {"update", "destroyed", "merged", "live", "absent"},
         id : Ids, raw : Payload, into : Owners \cup {Nobody}]

RepeatedKinds == {"update", "destroyed", "merged"}

Record == [st : {"unborn", "live", "gone", "merged"}, raw : Payload]

(* A representation of a record: a reader sees some of its relationships.  *)
Seen(raw, rels) == [uat |-> raw.uat, rels |-> rels, owner |-> raw.owner]
At(raw, t) == [uat |-> t, rels |-> raw.rels, owner |-> raw.owner]
Under(raw, o) == [uat |-> raw.uat, rels |-> raw.rels, owner |-> o]
Turned(record, st) == [st |-> st, raw |-> record.raw]

Update(id, raw, rels) ==
  [kind |-> "update", id |-> id, raw |-> Seen(raw, rels), into |-> Nobody]

Live200(id, raw, rels) ==
  [kind |-> "live", id |-> id, raw |-> Seen(raw, rels), into |-> Nobody]

Absent(id) == [kind |-> "absent", id |-> id, raw |-> NoRow.raw, into |-> Nobody]

(* The fact names the version that was destroyed, whether or not its       *)
(* payload says so (Carried).                                              *)
Destroyed(id, t) ==
  [kind |-> "destroyed", id |-> id, into |-> Nobody,
   raw |-> [uat |-> t, rels |-> {}, owner |-> Nobody]]

Merged(id, into) ==
  [kind |-> "merged", id |-> id, into |-> into, raw |-> NoRow.raw]

Stamp(id, t) == IF id \in Untimed THEN NoTime ELSE t

(* The children PCO holds under a record. *)
Belongings(o) == {c \in Children : pco[c].st = "live" /\ pco[c].raw.owner = o}

-----------------------------------------------------------------------------
Init ==
  /\ clock = 1
  /\ \E owner \in [Children -> Owners], rels \in [Ids -> RelSets] :
       LET raw(id) == [uat |-> Stamp(id, 1), rels |-> rels[id],
                       owner |-> IF id \in Children THEN owner[id] ELSE Nobody]
       IN  /\ \A c \in Children \cap Backfilled : owner[c] \in Backfilled
           /\ pco = [id \in Ids |-> [st  |-> IF id \in Backfilled THEN "live"
                                             ELSE "unborn", raw |-> raw(id)]]
           /\ mirror = [id \in Ids |-> IF id \in Backfilled
                                       THEN Inserted(raw(id)) ELSE NoRow]
  /\ sent = {}
  /\ seen = {}
  /\ crossed = [id \in Ids |-> "no"]

(* Several edits may fall in one second, but a record that comes into      *)
(* being or comes back does so after everything said of it before.         *)
PcoCreate(id, t, rels) ==
  /\ pco[id].st = "unborn"
  /\ id \in Children => pco[pco[id].raw.owner].st = "live"
  /\ t \in clock .. MaxTime
  /\ clock' = t
  /\ LET raw == At(pco[id].raw, Stamp(id, t))
     IN  /\ pco' = [pco EXCEPT ![id] = [st |-> "live", raw |-> raw]]
         /\ sent' = sent \cup {Update(id, raw, rels)}
  /\ UNCHANGED <<seen, mirror, crossed>>

PcoEdit(id, t, rels) ==
  /\ pco[id].st = "live"
  /\ t \in clock .. MaxTime
  /\ clock' = t
  /\ LET raw == At(pco[id].raw, Stamp(id, t))
     IN  /\ pco' = [pco EXCEPT ![id] = [st |-> "live", raw |-> raw]]
         /\ sent' = sent \cup {Update(id, raw, rels)}
  /\ UNCHANGED <<seen, mirror, crossed>>

PcoDestroy(id) ==
  /\ pco[id].st = "live"
  /\ LET lost == {id} \cup Belongings(id)
         told == IF ChildEvents THEN lost ELSE {id}
     IN  /\ pco' = [x \in Ids |-> IF x \in lost THEN Turned(pco[x], "gone")
                                  ELSE pco[x]]
         /\ sent' = sent \cup {Destroyed(x, pco[x].raw.uat) : x \in told}
  /\ UNCHANGED <<clock, seen, mirror, crossed>>

(* A merge retires a person; some of the children move to the survivor at  *)
(* the timestamp they had, the others go.                                  *)
PcoMerge(a, b, moved) ==
  /\ a \in Mergeable /\ a # b
  /\ pco[a].st = "live" /\ pco[b].st = "live"
  /\ moved \subseteq Belongings(a)
  /\ LET lost == Belongings(a) \ moved
     IN  /\ pco' = [x \in Ids |->
                      IF x = a THEN Turned(pco[x], "merged")
                      ELSE IF x \in moved
                      THEN [st |-> pco[x].st, raw |-> Under(pco[x].raw, b)]
                      ELSE IF x \in lost THEN Turned(pco[x], "gone")
                      ELSE pco[x]]
         /\ sent' = sent \cup {Merged(a, b)}
                         \cup {Update(c, Under(pco[c].raw, b), pco[c].raw.rels) : c \in moved}
                         \cup {Destroyed(c, pco[c].raw.uat) :
                                 c \in IF ChildEvents THEN lost ELSE {}}
  /\ UNCHANGED <<clock, seen, mirror, crossed>>

PcoRestore(id, rels) ==
  /\ Restores /\ id \in Owners
  /\ pco[id].st = "gone" /\ clock < MaxTime
  /\ clock' = clock + 1
  /\ LET raw == At(pco[id].raw, clock + 1)
     IN  /\ pco' = [x \in Ids |->
                      IF x = id THEN [st |-> "live", raw |-> raw]
                      ELSE IF x \in Children /\ pco[x].st = "gone" /\ pco[x].raw.owner = id
                      THEN Turned(pco[x], "live") ELSE pco[x]]
         /\ sent' = sent \cup {Update(id, raw, rels)}
  /\ UNCHANGED <<seen, mirror, crossed>>

(* PCO answers a GET for one record: the answer is on its way. *)
PcoAnswer(id, rels) ==
  /\ id \in Answers /\ pco[id].st # "unborn"
  /\ \A f \in sent : f.id = id => f.kind \in RepeatedKinds
  /\ sent' = sent \cup
       {IF pco[id].st # "live" THEN Absent(id)
        ELSE IF id \in Confirmed THEN Live200(id, pco[id].raw, rels)
        ELSE Update(id, pco[id].raw, rels)}
  /\ UNCHANGED <<clock, pco, seen, mirror, crossed>>

-----------------------------------------------------------------------------
(* The updated_at of a destroyed payload, all that is read of it. *)
Carried(f) == IF BareDestroys THEN NoTime ELSE f.raw.uat

(* One call of the canonical writer. *)
Applied(m, f) ==
  CASE f.kind = "update"    -> Route(m, f.id, f.raw, Nobody)
    [] f.kind = "destroyed" -> Tombstone(m, f.id, Carried(f), "destroyed", Nobody)
    [] f.kind = "merged"    -> Tombstone(m, f.id, NoTime, "merged", f.into)
    [] f.kind = "live"      -> ConfirmLive(m, f.id, f.raw)
    [] f.kind = "absent"    -> Tombstone(m, f.id, NoTime, "audit_absent", Nobody)

(* How a destroyed webhook about version t left the row: without a stone,  *)
(* or under one that an older version lifts, it came early; under one that *)
(* buries a newer version with it, late.                                   *)
Met(row, t) ==
  IF row.why = "none" \/ (row.why # "live" /\ row.tuat < t) THEN "early"
  ELSE IF row.why # "live" /\ row.tuat > t THEN "late"
  ELSE "no"

(* A webhook or a page, which will be delivered again. *)
Deliver(f) ==
  /\ f \in sent /\ f.kind \in RepeatedKinds
  /\ mirror' = Applied(mirror, f)
  /\ seen' = seen \cup {f}
  /\ crossed' = IF f.kind = "destroyed"
                THEN [crossed EXCEPT ![f.id] = Met(mirror'[f.id], f.raw.uat)]
                ELSE crossed
  /\ UNCHANGED <<clock, pco, sent>>

(* The answer to a GET, consumed by the thread that asked. *)
Receive(f) ==
  /\ f \in sent /\ f.kind \notin RepeatedKinds
  /\ mirror' = Applied(mirror, f)
  /\ sent' = sent \ {f}
  /\ UNCHANGED <<clock, pco, seen, crossed>>

PcoStep ==
  \/ \E id \in Ids, t \in Time, rels \in RelSets :
       PcoCreate(id, t, rels) \/ PcoEdit(id, t, rels)
  \/ \E id \in Ids : PcoDestroy(id)
  \/ \E a, b \in Owners, moved \in SUBSET Children : PcoMerge(a, b, moved)
  \/ \E id \in Ids, rels \in RelSets : PcoRestore(id, rels) \/ PcoAnswer(id, rels)

MirrorStep == \E f \in sent : Deliver(f) \/ Receive(f)

Next == PcoStep \/ MirrorStep

Spec == Init /\ [][Next]_vars

-----------------------------------------------------------------------------
(* Types, and the three tombstone columns agree with one another. *)
TypeOK ==
  /\ clock \in Time
  /\ pco \in [Ids -> Record]
  /\ sent \subseteq Fact
  /\ seen \subseteq {f \in sent : f.kind \in RepeatedKinds}
  /\ mirror \in [Ids -> Row]
  /\ crossed \in [Ids -> {"no", "early", "late"}]
  /\ \A id \in Ids : ~ Dead(mirror, id) => mirror[id].tuat = NoTime

(* Everything PCO said has been applied at least once. *)
Settled == sent = seen

(* Whatever the order facts were applied in, and however often, once each  *)
(* has been applied every row the mirror holds is alive exactly if PCO's   *)
(* record is, and a live row holds PCO's latest version (DESIGN 3.3).      *)
(* Only a record whose destroyed webhook overtook an older version, or the *)
(* other way round, may be amiss: the tombstone does not know what version *)
(* was destroyed (webhooks.process_event finds no updated_at).             *)
Agreement ==
  Settled => \A id \in Ids : Known(mirror, id) /\ crossed[id] = "no" =>
    /\ Live(mirror, id) <=> pco[id].st = "live"
    /\ Live(mirror, id) => mirror[id].raw.uat = pco[id].raw.uat

(* No call of the writer takes a row back to an older version, whichever   *)
(* thread's copy lands last (writer.upsert's guard).                       *)
MonotonicRows ==
  [][\A id \in Ids : Known(mirror, id) => mirror'[id].raw.uat >= mirror[id].raw.uat]_vars

(* At one updated_at a row never loses relationships to a thinner copy,    *)
(* nor swaps them for as many others (docstring of writer.upsert).         *)
KeepsRelationships ==
  \A id \in Ids \ Untimed :
    LET old == mirror[id].raw.rels
        new == mirror'[id].raw.rels
    IN  Known(mirror, id) /\ mirror'[id].raw.uat = mirror[id].raw.uat
        => old = new \/ Cardinality(new) > Cardinality(old)

NeverPoorer == [][KeepsRelationships]_vars

(* A row buried on its own evidence, a merge or a destroyed webhook that   *)
(* met the version destroyed, is never dug up by what PCO said before, nor *)
(* given another reason (DESIGN 3.2: "same updated_at").                   *)
TombstonesStick ==
  [][\A id \in Ids : mirror[id].why \in {"destroyed", "merged"} /\ crossed[id] = "no"
                     => mirror'[id].why = mirror[id].why]_vars

(* Whatever the tombstone's evidence, a buried row comes back only with a  *)
(* version newer than the one held, and an untimed row not at all          *)
(* (DESIGN 3.2).  Children buried for their owner's sake follow the owner. *)
DugUpOnlyByNews ==
  [][\A id \in Ids : mirror[id].why \in Reasons /\ Live(mirror', id)
                     => mirror'[id].raw.uat > mirror[id].raw.uat]_vars

(* Once everything has been applied, nothing PCO has is missing for having *)
(* been deleted and brought back: only a destroyed webhook that came after *)
(* the news of the return can take the returned record with it.            *)
NothingLost ==
  Settled => \A id \in Ids :
    Known(mirror, id) /\ pco[id].st = "live" /\ crossed[id] # "late"
    => Live(mirror, id) /\ mirror[id].raw.uat = pco[id].raw.uat

(* A child buried for its owner's sake has a buried owner: the cascade and *)
(* its undoing never come apart.                                           *)
OrphansTrackOwner ==
  \A c \in Children : mirror[c].why = "owner_deleted"
                       => Dead(mirror, mirror[c].raw.owner)

(* Once everything has been applied no live child is held under a record   *)
(* the mirror has buried as gone (docstring of writer._cascade).           *)
NoChildOutlivesOwner ==
  Settled => \A c \in Children : Live(mirror, c) =>
               mirror[mirror[c].raw.owner].why \notin Gone
=============================================================================
