------------------------------- MODULE Mirror -------------------------------
(***************************************************************************)
(* The canonical writer of pcomirror (pcomirror/writer.py) as operators on *)
(* the whole mirror: every mutation of a mirrored row goes through one of  *)
(* Upsert, UpsertUntimed, Tombstone and ConfirmLive, or through Route,     *)
(* which picks one of the first two.  Each takes the mirror before the     *)
(* call and returns the mirror after it, cascades included.                *)
(*                                                                         *)
(* A row is abstracted to what its rules tell apart: the payload held      *)
(* verbatim (its updated_at, the relationships it carries, the record it   *)
(* names as owner), why the row is tombstoned, and the tombstone's own     *)
(* timestamp.  deleted_at and tombstone_reason are NULL together in every  *)
(* statement of the writer, so `why' stands for both.                      *)
(*                                                                         *)
(* An operator named Mut... is a deliberately wrong variant of the one it  *)
(* precedes; nothing uses it but the checks that a property notices.       *)
(***************************************************************************)
EXTENDS Naturals, FiniteSets

CONSTANTS
  Owners,     \* records that own others: people, households
  Children,   \* records owned by one of them: emails, memberships ...
  Untimed,    \* the ids whose table has no updated_at
  Rels,       \* relationship names a payload may carry
  Nobody,     \* the owner a payload does not name
  MaxTime     \* bound on timestamps, in seconds

ASSUME MirrorAssumption ==
  /\ Owners \cap Children = {}
  /\ Untimed \subseteq Children
  /\ Nobody \notin Owners \cup Children
  /\ IsFiniteSet(Rels)
  /\ MaxTime \in Nat \ {0}

Ids == Owners \cup Children

NoTime == 0                         \* SQL NULL in a timestamp column
Time == NoTime .. MaxTime

(* The reasons that mean the record is gone, not folded into another one.  *)
Gone == {"destroyed", "audit_absent", "absent"}
Reasons == Gone \cup {"merged"}
Why == Reasons \cup {"owner_deleted", "live", "none"}   \* "none": no such row

Payload == [uat : Time, rels : SUBSET Rels, owner : Owners \cup {Nobody}]
Row == [raw : Payload, why : Why, tuat : Time, into : Owners \cup {Nobody}]

NoRow == [raw  |-> [uat |-> NoTime, rels |-> {}, owner |-> Nobody],
          why  |-> "none", tuat |-> NoTime, into |-> Nobody]

Inserted(raw) == [raw |-> raw, why |-> "live", tuat |-> NoTime, into |-> Nobody]

(* What the statements set of a row that is held. *)
Holding(row, raw) == [raw |-> raw, why |-> row.why, tuat |-> row.tuat, into |-> row.into]
Lifted(row) == [raw |-> row.raw, why |-> "live", tuat |-> NoTime, into |-> row.into]
Buried(row, why, tuat, into) ==
  [raw |-> row.raw, why |-> why, tuat |-> tuat, into |-> into]

Known(m, id) == m[id].why # "none"
Live(m, id) == m[id].why = "live"
Dead(m, id) == m[id].why \notin {"none", "live"}

MutNoPoorer(held, new) == Cardinality(new.rels) >= Cardinality(held.rels)

(* At an equal updated_at a payload may replace the held one if it carries *)
(* every relationship the held one carries, or strictly more of them.      *)
NoPoorer(held, new) ==
  \/ held.rels \subseteq new.rels
  \/ Cardinality(new.rels) > Cardinality(held.rels)

MutWins(held, new) == NoPoorer(held, new)

Wins(held, new) ==
  \/ new.uat > held.uat
  \/ new.uat = held.uat /\ NoPoorer(held, new)

MutRevivesMerged(row, new) == row.why # "live" /\ new.uat > row.tuat

MutRevivesEqual(row, new) ==
  row.why \notin {"live", "merged"} /\ new.uat >= row.tuat

MutRevivesDestroyed(row, new) ==
  row.why \notin {"live", "merged", "destroyed"} /\ new.uat > row.tuat

Revives(row, new) ==
  /\ row.why \notin {"live", "merged"}
  /\ new.uat > row.tuat

MutUpserted(row, new) ==
  LET lifted == IF Revives(row, new) THEN [row EXCEPT !.why = "live"] ELSE row
  IN  IF Wins(row.raw, new) THEN Holding(lifted, new) ELSE lifted

(* The ON CONFLICT clause of upsert, on a row that is held. *)
Upserted(row, new) ==
  LET lifted == IF Revives(row, new) THEN Lifted(row) ELSE row
  IN  IF Wins(row.raw, new) THEN Holding(lifted, new) ELSE lifted

(* Which children the owner's death buried, or would bury. *)
OwnedBy(m, o) == {c \in Children : Known(m, c) /\ m[c].raw.owner = o}

Coalesce(t, held) == IF t # NoTime THEN t ELSE held

(* Bury what is still alive among the rows o owns, at their own timestamp. *)
Cascade(m, o) ==
  [c \in Ids |-> IF c \in OwnedBy(m, o) /\ Live(m, c)
                 THEN Buried(m[c], "owner_deleted", m[c].raw.uat, m[c].into)
                 ELSE m[c]]

(* Dig up what only the owner's death buried, if the owner is alive. *)
Uncascade(m, o) ==
  [c \in Ids |-> IF /\ c \in OwnedBy(m, o)
                    /\ m[c].why = "owner_deleted"
                    /\ Live(m, o)
                 THEN Lifted(m[c])
                 ELSE m[c]]

Upsert(m, id, raw) ==
  Uncascade([m EXCEPT ![id] = IF Known(m, id) THEN Upserted(@, raw)
                              ELSE Inserted(raw)], id)

(* Never clears a tombstone, and changes nothing of a tombstoned row. *)
UpsertUntimed(m, id, raw) ==
  [m EXCEPT ![id] = IF ~ Known(m, id) THEN Inserted(raw)
                    ELSE IF Live(m, id) THEN Holding(@, raw)
                    ELSE @]

MutBuriesStrict(row, uat, why) ==
  \/ why = "merged" \/ row.why # "live" \/ row.raw.uat = NoTime
  \/ Coalesce(uat, row.raw.uat) > row.raw.uat

(* The WHERE of tombstone's UPDATE.  An untimed row's updated_at is NULL. *)
Buries(row, uat, why) ==
  \/ why = "merged"
  \/ row.why # "live"
  \/ row.raw.uat = NoTime
  \/ Coalesce(uat, row.raw.uat) >= row.raw.uat

(* tombstone_uat falls back to the row's updated_at; for an untimed row it *)
(* is the wall clock, which nothing compares, and stays NoTime here.  The  *)
(* cascade follows whether or not the UPDATE matched a row.                *)
Tombstone(m, id, uat, why, into) ==
  LET buried == IF Known(m, id) /\ Buries(m[id], uat, why)
                THEN [m EXCEPT ![id] =
                        Buried(@, why, Coalesce(uat, @.raw.uat),
                               IF into # Nobody THEN into ELSE @.into)]
                ELSE m
  IN  IF why \in Gone THEN Cascade(buried, id) ELSE buried

MutConfirmLive(m, id, raw) == [m EXCEPT ![id] = Inserted(raw)]

ConfirmLive(m, id, raw) == Uncascade([m EXCEPT ![id] = Inserted(raw)], id)

(* The sideload router: a timestamped record without its updated_at is a   *)
(* partial representation and is ignored; a hint names the owner of a      *)
(* child whose payload does not.                                           *)
Hinted(raw, hint) ==
  [uat |-> raw.uat, rels |-> raw.rels,
   owner |-> IF raw.owner = Nobody THEN hint ELSE raw.owner]

Route(m, id, raw, hint) ==
  IF id \in Untimed THEN UpsertUntimed(m, id, Hinted(raw, hint))
  ELSE IF raw.uat = NoTime THEN m
  ELSE Upsert(m, id, IF id \in Children THEN Hinted(raw, hint) ELSE raw)
=============================================================================
