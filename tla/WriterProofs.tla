---------------------------- MODULE WriterProofs ----------------------------
(***************************************************************************)
(* Theorems about Writer, for every set of records, clock and relationship *)
(* and every order of deliveries: the types of its rows, what the writer   *)
(* promises about one row, and the agreement of the mirror with PCO.       *)
(***************************************************************************)
EXTENDS Writer, FiniteSetTheorems, TLAPS

(* The writer's calls, as facts about one mirror m. *)
Mirrors == [Ids -> Row]
Coherent(m) == \A id \in Ids : ~ Dead(m, id) => m[id].tuat = NoTime

LEMMA TimeFacts == NoTime \in Time /\ Time \subseteq Nat /\ 1 \in Time
  BY MirrorAssumption DEF Time, NoTime

LEMMA NoRowType == NoRow \in Row /\ NoRow.raw \in Payload
  BY TimeFacts DEF NoRow, Row, Payload, Why

LEMMA InsertedType == ASSUME NEW raw \in Payload PROVE Inserted(raw) \in Row
  BY TimeFacts DEF Inserted, Row, Why

LEMMA UncascadeType ==
  ASSUME NEW m \in Mirrors, NEW o \in Ids
  PROVE  /\ Uncascade(m, o) \in Mirrors
         /\ Coherent(m) => Coherent(Uncascade(m, o))
<1>1. ASSUME NEW c \in Ids PROVE Uncascade(m, o)[c] \in Row
  BY TimeFacts DEF Uncascade, Lifted, Mirrors, Row, Why
<1>2. Uncascade(m, o) \in Mirrors
  BY <1>1 DEF Uncascade, Mirrors
<1>3. ASSUME NEW c \in Ids, Coherent(m), ~ Dead(Uncascade(m, o), c)
      PROVE  Uncascade(m, o)[c].tuat = NoTime
  BY <1>3 DEF Uncascade, Lifted, Mirrors, Row, Coherent, Dead
<1> QED BY <1>2, <1>3 DEF Coherent

LEMMA CascadeType ==
  ASSUME NEW m \in Mirrors, NEW o \in Ids
  PROVE  /\ Cascade(m, o) \in Mirrors
         /\ Coherent(m) => Coherent(Cascade(m, o))
<1>1. ASSUME NEW c \in Ids PROVE Cascade(m, o)[c] \in Row
  BY DEF Cascade, Buried, Mirrors, Row, Payload, Why
<1>2. Cascade(m, o) \in Mirrors
  BY <1>1 DEF Cascade, Mirrors
<1>3. ASSUME NEW c \in Ids, Coherent(m), ~ Dead(Cascade(m, o), c)
      PROVE  Cascade(m, o)[c].tuat = NoTime
  BY <1>3 DEF Cascade, Buried, Mirrors, Row, Coherent, Dead
<1> QED BY <1>2, <1>3 DEF Coherent

LEMMA UpsertedType ==
  ASSUME NEW row \in Row, NEW raw \in Payload
  PROVE  /\ Upserted(row, raw) \in Row
         /\ row.why # "none" => Upserted(row, raw).why # "none"
         /\ row.why = "live" /\ row.tuat = NoTime =>
              Upserted(row, raw).why = "live" /\ Upserted(row, raw).tuat = NoTime
         /\ Upserted(row, raw).why \in {row.why, "live"}
         /\ Upserted(row, raw).why # row.why => Upserted(row, raw).tuat = NoTime
  BY TimeFacts DEF Upserted, Lifted, Holding, Row, Why, Revives

LEMMA UpsertType ==
  ASSUME NEW m \in Mirrors, NEW id \in Ids, NEW raw \in Payload
  PROVE  /\ Upsert(m, id, raw) \in Mirrors
         /\ Coherent(m) => Coherent(Upsert(m, id, raw))
<1> DEFINE w == [m EXCEPT ![id] = IF Known(m, id) THEN Upserted(m[id], raw)
                                  ELSE Inserted(raw)]
<1>0. m[id] \in Row
  BY DEF Mirrors
<1>1. w \in Mirrors
  BY <1>0, UpsertedType, InsertedType DEF Mirrors
<1>2. Coherent(m) => Coherent(w)
  BY <1>0, UpsertedType, InsertedType DEF Mirrors, Coherent, Dead, Known, Inserted
<1>3. Upsert(m, id, raw) = Uncascade(w, id)
  BY DEF Upsert
<1> HIDE DEF w
<1> QED BY <1>1, <1>2, <1>3, UncascadeType

LEMMA UpsertUntimedType ==
  ASSUME NEW m \in Mirrors, NEW id \in Ids, NEW raw \in Payload
  PROVE  /\ UpsertUntimed(m, id, raw) \in Mirrors
         /\ Coherent(m) => Coherent(UpsertUntimed(m, id, raw))
<1>0. m[id] \in Row
  BY DEF Mirrors
<1>1. Holding(m[id], raw) \in Row
  BY <1>0 DEF Holding, Row
<1>2. UpsertUntimed(m, id, raw) \in Mirrors
  BY <1>0, <1>1, InsertedType DEF UpsertUntimed, Mirrors
<1>3. Coherent(m) => Coherent(UpsertUntimed(m, id, raw))
  BY <1>0 DEF UpsertUntimed, Mirrors, Coherent, Dead, Live, Known, Inserted, Holding
<1> QED BY <1>2, <1>3

LEMMA TombstoneType ==
  ASSUME NEW m \in Mirrors, NEW id \in Ids, NEW uat \in Time,
         NEW why \in Reasons, NEW into \in Owners \cup {Nobody}
  PROVE  /\ Tombstone(m, id, uat, why, into) \in Mirrors
         /\ Coherent(m) => Coherent(Tombstone(m, id, uat, why, into))
<1> DEFINE grave == Buried(m[id], why, Coalesce(uat, m[id].raw.uat),
                           IF into # Nobody THEN into ELSE m[id].into)
           w == IF Known(m, id) /\ Buries(m[id], uat, why)
                THEN [m EXCEPT ![id] = grave] ELSE m
<1>0. m[id] \in Row
  BY DEF Mirrors
<1>1. grave \in Row
  BY <1>0 DEF Buried, Coalesce, Row, Why, Payload
<1>2. grave.why \notin {"none", "live"}
  BY DEF Buried, Reasons, Gone
<1>3. w \in Mirrors
  BY <1>1 DEF Mirrors
<1>4. Coherent(m) => Coherent(w)
  BY <1>1, <1>2 DEF Mirrors, Coherent, Dead
<1>5. Tombstone(m, id, uat, why, into) = IF why \in Gone THEN Cascade(w, id) ELSE w
  BY DEF Tombstone
<1> HIDE DEF w
<1> QED BY <1>3, <1>4, <1>5, CascadeType

LEMMA ConfirmLiveType ==
  ASSUME NEW m \in Mirrors, NEW id \in Ids, NEW raw \in Payload
  PROVE  /\ ConfirmLive(m, id, raw) \in Mirrors
         /\ Coherent(m) => Coherent(ConfirmLive(m, id, raw))
<1> DEFINE w == [m EXCEPT ![id] = Inserted(raw)]
<1>1. w \in Mirrors
  BY InsertedType DEF Mirrors
<1>2. Coherent(m) => Coherent(w)
  BY DEF Mirrors, Coherent, Dead, Inserted
<1>3. ConfirmLive(m, id, raw) = Uncascade(w, id)
  BY DEF ConfirmLive
<1> HIDE DEF w
<1> QED BY <1>1, <1>2, <1>3, UncascadeType

LEMMA RouteType ==
  ASSUME NEW m \in Mirrors, NEW id \in Ids, NEW raw \in Payload,
         NEW hint \in Owners \cup {Nobody}
  PROVE  /\ Route(m, id, raw, hint) \in Mirrors
         /\ Coherent(m) => Coherent(Route(m, id, raw, hint))
<1>1. Hinted(raw, hint) \in Payload
  BY DEF Hinted, Payload
<1> QED BY <1>1, UpsertType, UpsertUntimedType DEF Route

(* One call of the writer keeps the mirror well formed. *)
LEMMA AppliedType ==
  ASSUME NEW m \in Mirrors, NEW f \in Fact
  PROVE  /\ Applied(m, f) \in Mirrors
         /\ Coherent(m) => Coherent(Applied(m, f))
<1>0. /\ f.id \in Ids /\ f.raw \in Payload /\ f.raw.uat \in Time
      /\ f.into \in Owners \cup {Nobody} /\ Nobody \in Owners \cup {Nobody}
      /\ f.kind \in {"update", "destroyed", "merged", "live", "absent"}
  BY DEF Fact, Payload
<1>1. CASE f.kind = "update"
  BY <1>0, <1>1, RouteType DEF Applied
<1>2. CASE f.kind = "destroyed"
  BY <1>0, <1>2, TombstoneType, TimeFacts DEF Applied, Carried, Reasons, Gone
<1>3. CASE f.kind = "merged"
  BY <1>0, <1>3, TombstoneType, TimeFacts DEF Applied, Reasons, Gone
<1>4. CASE f.kind = "live"
  BY <1>0, <1>4, ConfirmLiveType DEF Applied
<1>5. CASE f.kind = "absent"
  BY <1>0, <1>5, TombstoneType, TimeFacts DEF Applied, Reasons, Gone
<1> QED BY <1>0, <1>1, <1>2, <1>3, <1>4, <1>5

-----------------------------------------------------------------------------
(* What PCO says is well formed. *)
LEMMA SaidType ==
  /\ \A id \in Ids, raw \in Payload, rels \in SUBSET Rels :
       Update(id, raw, rels) \in Fact /\ Live200(id, raw, rels) \in Fact
  /\ \A id \in Ids, t \in Time : Destroyed(id, t) \in Fact
  /\ \A id \in Ids, into \in Owners : Merged(id, into) \in Fact
  /\ \A id \in Ids : Absent(id) \in Fact
<1>1. ASSUME NEW id \in Ids, NEW raw \in Payload, NEW rels \in SUBSET Rels
      PROVE  Update(id, raw, rels) \in Fact /\ Live200(id, raw, rels) \in Fact
  BY DEF Update, Live200, Seen, Fact, Payload
<1>2. ASSUME NEW id \in Ids, NEW t \in Time PROVE Destroyed(id, t) \in Fact
  BY TimeFacts DEF Destroyed, Fact, Payload
<1>3. ASSUME NEW id \in Ids, NEW into \in Owners PROVE Merged(id, into) \in Fact
  BY NoRowType DEF Merged, Fact
<1>4. ASSUME NEW id \in Ids PROVE Absent(id) \in Fact
  BY NoRowType DEF Absent, Fact
<1> QED BY <1>1, <1>2, <1>3, <1>4

LEMMA RedatedType ==
  ASSUME NEW raw \in Payload, NEW id \in Ids, NEW t \in Time
  PROVE  At(raw, Stamp(id, t)) \in Payload
  BY TimeFacts DEF At, Stamp, Payload

LEMMA TurnedType ==
  ASSUME NEW r \in Record, NEW st \in {"unborn", "live", "gone", "merged"}
  PROVE  Turned(r, st) \in Record
  BY DEF Turned, Record

LEMMA InitType == Init => TypeOK
<1> SUFFICES ASSUME Init PROVE TypeOK
  OBVIOUS
<1> PICK owner \in [Children -> Owners], rels \in [Ids -> RelSets] :
      LET raw(id) == [uat |-> Stamp(id, 1), rels |-> rels[id],
                      owner |-> IF id \in Children THEN owner[id] ELSE Nobody]
      IN  /\ pco = [id \in Ids |-> [st |-> IF id \in Backfilled THEN "live"
                                          ELSE "unborn", raw |-> raw(id)]]
          /\ mirror = [id \in Ids |-> IF id \in Backfilled
                                      THEN Inserted(raw(id)) ELSE NoRow]
  BY DEF Init
<1> DEFINE raw(id) == [uat |-> Stamp(id, 1), rels |-> rels[id],
                       owner |-> IF id \in Children THEN owner[id] ELSE Nobody]
<1>1. ASSUME NEW id \in Ids PROVE raw(id) \in Payload
  BY TimeFacts, WriterAssumption DEF Payload, Stamp
<1>2. pco \in [Ids -> Record]
  BY <1>1 DEF Record
<1>3. mirror \in [Ids -> Row]
  BY <1>1, InsertedType, NoRowType
<1>4. ASSUME NEW id \in Ids PROVE mirror[id].tuat = NoTime
  BY DEF Inserted, NoRow
<1> QED BY <1>2, <1>3, <1>4, TimeFacts DEF Init, TypeOK

LEMMA PcoStepType ==
  ASSUME TypeOK, PcoStep
  PROVE  /\ clock' \in Time /\ pco' \in [Ids -> Record]
         /\ sent \subseteq sent' /\ sent' \subseteq Fact
         /\ UNCHANGED <<seen, mirror, crossed>>
<1> USE DEF TypeOK
<1>0. ASSUME NEW id \in Ids
      PROVE  /\ pco[id] \in Record /\ pco[id].raw \in Payload
             /\ pco[id].raw.uat \in Time /\ pco[id].raw.rels \in SUBSET Rels
  BY DEF Record, Payload
<1>1. ASSUME NEW id \in Ids, NEW t \in Time, NEW rels \in RelSets,
             PcoCreate(id, t, rels) \/ PcoEdit(id, t, rels)
      PROVE  /\ t = clock' /\ UNCHANGED <<seen, mirror, crossed>>
             /\ pco' = [pco EXCEPT ![id] =
                         [st |-> "live", raw |-> At(pco[id].raw, Stamp(id, t))]]
             /\ sent' = sent \cup {Update(id, At(pco[id].raw, Stamp(id, t)), rels)}
  BY <1>1 DEF PcoCreate, PcoEdit
<1>2. ASSUME NEW id \in Ids, NEW t \in Time, NEW rels \in RelSets,
             PcoCreate(id, t, rels) \/ PcoEdit(id, t, rels)
      PROVE  clock' \in Time /\ pco' \in [Ids -> Record] /\ sent' \subseteq Fact
  <2>1. At(pco[id].raw, Stamp(id, t)) \in Payload
    BY <1>0, RedatedType
  <2>2. Update(id, At(pco[id].raw, Stamp(id, t)), rels) \in Fact
    BY <2>1, SaidType, WriterAssumption
  <2>3. [st |-> "live", raw |-> At(pco[id].raw, Stamp(id, t))] \in Record
    BY <2>1 DEF Record
  <2> QED BY <1>1, <1>2, <2>2, <2>3
<1>3. ASSUME NEW id \in Ids, PcoDestroy(id)
      PROVE  pco' \in [Ids -> Record] /\ sent' \subseteq Fact
  <2>1. ASSUME NEW x \in Ids PROVE Destroyed(x, pco[x].raw.uat) \in Fact
    BY <1>0, SaidType
  <2>2. pco' \in [Ids -> Record]
    BY <1>0, <1>3, TurnedType DEF PcoDestroy
  <2> QED BY <1>3, <2>1, <2>2 DEF PcoDestroy, Belongings, Ids
<1>4. ASSUME NEW a \in Owners, NEW b \in Owners, NEW moved \in SUBSET Children,
             PcoMerge(a, b, moved)
      PROVE  pco' \in [Ids -> Record] /\ sent' \subseteq Fact
  <2>1. ASSUME NEW x \in Ids
        PROVE  /\ Destroyed(x, pco[x].raw.uat) \in Fact
               /\ Update(x, Under(pco[x].raw, b), pco[x].raw.rels) \in Fact
               /\ Turned(pco[x], "merged") \in Record
               /\ Turned(pco[x], "gone") \in Record
               /\ [st |-> pco[x].st, raw |-> Under(pco[x].raw, b)] \in Record
    <3>1. Under(pco[x].raw, b) \in Payload
      BY <1>0 DEF Under, Payload
    <3> QED BY <1>0, <3>1, SaidType, TurnedType DEF Record
  <2>2. pco' \in [Ids -> Record]
    BY <1>0, <1>4, <2>1 DEF PcoMerge
  <2>3. Merged(a, b) \in Fact
    BY SaidType DEF Ids
  <2>4. moved \subseteq Ids /\ Belongings(a) \subseteq Ids
    BY DEF Belongings, Ids
  <2> QED BY <1>4, <2>1, <2>2, <2>3, <2>4 DEF PcoMerge
<1>5. ASSUME NEW id \in Ids, NEW rels \in RelSets, PcoRestore(id, rels)
      PROVE  clock' \in Time /\ pco' \in [Ids -> Record] /\ sent' \subseteq Fact
  <2>1. clock + 1 \in Time
    BY <1>5, MirrorAssumption DEF PcoRestore, Time, NoTime
  <2>2. At(pco[id].raw, clock + 1) \in Payload
    BY <1>0, <2>1 DEF At, Payload
  <2>3. Update(id, At(pco[id].raw, clock + 1), rels) \in Fact
    BY <2>2, SaidType, WriterAssumption
  <2>4. pco' \in [Ids -> Record]
    BY <1>0, <1>5, <2>2, TurnedType DEF PcoRestore, Record
  <2> QED BY <1>5, <2>1, <2>3, <2>4 DEF PcoRestore
<1>6. ASSUME NEW id \in Ids, NEW rels \in RelSets, PcoAnswer(id, rels)
      PROVE  sent' \subseteq Fact
  BY <1>0, <1>6, SaidType, WriterAssumption DEF PcoAnswer
<1>7. CASE \E id \in Ids, t \in Time, rels \in RelSets :
             PcoCreate(id, t, rels) \/ PcoEdit(id, t, rels)
  BY <1>1, <1>2, <1>7
<1>8. CASE \E id \in Ids : PcoDestroy(id)
  BY <1>3, <1>8 DEF PcoDestroy
<1>9. CASE \E a, b \in Owners, moved \in SUBSET Children : PcoMerge(a, b, moved)
  BY <1>4, <1>9 DEF PcoMerge
<1>10. CASE \E id \in Ids, rels \in RelSets : PcoRestore(id, rels) \/ PcoAnswer(id, rels)
  BY <1>5, <1>6, <1>10 DEF PcoRestore, PcoAnswer
<1> QED BY <1>7, <1>8, <1>9, <1>10 DEF PcoStep

LEMMA NextType == TypeOK /\ [Next]_vars => TypeOK'
<1> SUFFICES ASSUME TypeOK, [Next]_vars PROVE TypeOK'
  OBVIOUS
<1>1. CASE PcoStep
  BY <1>1, PcoStepType DEF TypeOK, Dead
<1>2. CASE MirrorStep
  <2> PICK f \in sent : Deliver(f) \/ Receive(f)
    BY <1>2 DEF MirrorStep
  <2>1. f \in Fact /\ mirror \in Mirrors /\ Coherent(mirror)
    BY DEF TypeOK, Mirrors, Coherent
  <2>2. mirror' = Applied(mirror, f)
    BY DEF Deliver, Receive
  <2>3. mirror' \in Mirrors /\ Coherent(mirror')
    BY <2>1, <2>2, AppliedType
  <2>4. seen' \subseteq {g \in sent' : g.kind \in RepeatedKinds} /\ sent' \subseteq Fact /\ UNCHANGED <<clock, pco>>
    BY DEF Deliver, Receive, TypeOK
  <2>5. crossed' \in [Ids -> {"no", "early", "late"}]
    BY DEF Deliver, Receive, TypeOK, Met
  <2> QED BY <2>3, <2>4, <2>5 DEF TypeOK, Mirrors, Coherent
<1>3. CASE UNCHANGED vars
  BY <1>3 DEF vars, TypeOK, Dead
<1> QED BY <1>1, <1>2, <1>3 DEF Next

(* The mirror's rows, the facts in flight and PCO's records keep their     *)
(* types, and a row that is not tombstoned has no tombstone timestamp,     *)
(* through every call of the writer and for every set of records.          *)
THEOREM TypeCorrect == Spec => []TypeOK
<1> QED BY InitType, NextType, PTL DEF Spec

-----------------------------------------------------------------------------
(***************************************************************************)
(* What the canonical writer promises about one row, for every set of      *)
(* records and every order of deliveries.  The argument needs more than    *)
(* the writer: it needs what PCO may say of a record.  History gathers it: *)
(* nothing in flight or in the mirror is newer than PCO's record, a record *)
(* PCO called destroyed or merged stays so, and a tombstone is at least as *)
(* deep as the payload it lies on.                                         *)
(***************************************************************************)

Versions == {"update", "live"}          \* the facts that carry a payload
Unburied == {"none", "live", "merged"}  \* the rows no timestamp may dig up

Dated ==
  \A id \in Ids : /\ pco[id].raw.uat <= clock
                  /\ id \in Untimed => pco[id].raw.uat = NoTime

Behind ==
  /\ \A f \in sent : f.kind \in Versions => f.raw.uat <= pco[f.id].raw.uat
  /\ \A id \in Ids : mirror[id].raw.uat <= pco[id].raw.uat

Asked ==
  \A f \in sent : /\ f.kind = "live" => f.id \in Confirmed
                  /\ f.kind = "absent" => f.id \in Answers

LastWords ==
  ~ Restores => \A f \in sent :
    /\ f.kind = "destroyed" =>
         pco[f.id].st = "gone" /\ f.raw.uat = pco[f.id].raw.uat
    /\ f.kind = "merged" => pco[f.id].st = "merged"

Deep ==
  BareDestroys \/ ~ Restores => \A id \in Ids :
    mirror[id].why \notin Unburied => mirror[id].raw.uat <= mirror[id].tuat

Graves ==
  ~ Restores => \A id \in Ids :
    /\ mirror[id].why = "destroyed" =>
         /\ pco[id].st = "gone"
         /\ crossed[id] = "no" => mirror[id].tuat >= pco[id].raw.uat
    /\ mirror[id].why = "merged" => pco[id].st = "merged"

History == TypeOK /\ Dated /\ Behind /\ Asked /\ LastWords /\ Deep /\ Graves

-----------------------------------------------------------------------------
(* One call of the writer, seen from one row. *)

(* What the call does to the row it names. *)
OwnRow(row, f) ==
  CASE f.kind = "update" /\ f.id \in Untimed ->
         IF row.why = "none" THEN Inserted(f.raw)
         ELSE IF row.why = "live" THEN Holding(row, f.raw) ELSE row
    [] f.kind = "update" /\ f.id \notin Untimed ->
         IF f.raw.uat = NoTime THEN row
         ELSE IF row.why = "none" THEN Inserted(f.raw) ELSE Upserted(row, f.raw)
    [] f.kind = "live" -> Inserted(f.raw)
    [] OTHER ->
         LET why == CASE f.kind = "destroyed" -> "destroyed"
                      [] f.kind = "merged"    -> "merged"
                      [] f.kind = "absent"    -> "audit_absent"
             uat == IF f.kind = "destroyed" THEN Carried(f) ELSE NoTime
             into == IF f.kind = "merged" THEN f.into ELSE Nobody
         IN  IF row.why # "none" /\ Buries(row, uat, why)
             THEN Buried(row, why, Coalesce(uat, row.raw.uat),
                         IF into # Nobody THEN into ELSE row.into)
             ELSE row

LEMMA UncascadeRow ==
  ASSUME NEW m \in Mirrors, NEW o \in Ids, NEW id \in Ids
  PROVE  /\ Uncascade(m, o)[o] = m[o]
         /\ \/ Uncascade(m, o)[id] = m[id]
            \/ m[id].why = "owner_deleted" /\ Uncascade(m, o)[id] = Lifted(m[id])
<1>1. o \notin OwnedBy(m, o)
  BY MirrorAssumption DEF OwnedBy, Mirrors, Row, Payload, Ids
<1> QED BY <1>1 DEF Uncascade

LEMMA CascadeRow ==
  ASSUME NEW m \in Mirrors, NEW o \in Ids, NEW id \in Ids
  PROVE  /\ Cascade(m, o)[o] = m[o]
         /\ \/ Cascade(m, o)[id] = m[id]
            \/ /\ m[id].why = "live"
               /\ Cascade(m, o)[id] =
                    Buried(m[id], "owner_deleted", m[id].raw.uat, m[id].into)
<1>1. o \notin OwnedBy(m, o)
  BY MirrorAssumption DEF OwnedBy, Mirrors, Row, Payload, Ids
<1> QED BY <1>1 DEF Cascade, Live

LEMMA UnhintedRaw == ASSUME NEW raw \in Payload PROVE Hinted(raw, Nobody) = raw
  BY DEF Hinted, Payload

LEMMA UpdateRow ==
  ASSUME NEW m \in Mirrors, NEW f \in Fact, f.kind = "update", NEW id \in Ids
  PROVE  /\ Applied(m, f)[f.id] = OwnRow(m[f.id], f)
         /\ id # f.id => \/ Applied(m, f)[id] = m[id]
                        \/ /\ m[id].why = "owner_deleted"
                           /\ Applied(m, f)[id] = Lifted(m[id])
<1>0. f.id \in Ids /\ f.raw \in Payload /\ m[f.id] \in Row
  BY DEF Fact, Mirrors
<1>1. Applied(m, f) = Route(m, f.id, f.raw, Nobody)
  BY DEF Applied
<1>2. Route(m, f.id, f.raw, Nobody) =
        IF f.id \in Untimed THEN UpsertUntimed(m, f.id, f.raw)
        ELSE IF f.raw.uat = NoTime THEN m ELSE Upsert(m, f.id, f.raw)
  BY <1>0, UnhintedRaw DEF Route
<1>3. CASE f.id \in Untimed
  BY <1>0, <1>1, <1>2, <1>3 DEF UpsertUntimed, Known, Live, OwnRow, Mirrors
<1>4. CASE f.id \notin Untimed
  <2> DEFINE new == IF Known(m, f.id) THEN Upserted(m[f.id], f.raw)
                    ELSE Inserted(f.raw)
             w == [m EXCEPT ![f.id] = new]
  <2>1. new \in Row
    BY <1>0, UpsertedType, InsertedType
  <2>2. w \in Mirrors /\ w[f.id] = new /\ (id # f.id => w[id] = m[id])
    BY <1>0, <2>1 DEF Mirrors
  <2>3. Upsert(m, f.id, f.raw) = Uncascade(w, f.id)
    BY DEF Upsert
  <2>4. CASE f.raw.uat = NoTime
    BY <1>1, <1>2, <1>4, <2>4 DEF OwnRow
  <2>5. CASE f.raw.uat # NoTime
    <3>1. OwnRow(m[f.id], f) = new
      BY <1>4, <2>5 DEF OwnRow, Known
    <3>2. Applied(m, f) = Uncascade(w, f.id)
      BY <1>1, <1>2, <1>4, <2>3, <2>5
    <3> HIDE DEF w, new
    <3> QED BY <1>0, <2>2, <3>1, <3>2, UncascadeRow
  <2> QED BY <2>4, <2>5
<1> QED BY <1>3, <1>4

LEMMA TombstoneRow ==
  ASSUME NEW m \in Mirrors, NEW o \in Ids, NEW uat \in Time, NEW why \in Reasons,
         NEW into \in Owners \cup {Nobody}, NEW id \in Ids
  PROVE  /\ Tombstone(m, o, uat, why, into)[o] =
              IF m[o].why # "none" /\ Buries(m[o], uat, why)
              THEN Buried(m[o], why, Coalesce(uat, m[o].raw.uat),
                          IF into # Nobody THEN into ELSE m[o].into)
              ELSE m[o]
         /\ id # o =>
              LET new == Tombstone(m, o, uat, why, into)[id]
              IN  \/ new = m[id]
                  \/ /\ m[id].why = "live"
                     /\ new = Buried(m[id], "owner_deleted", m[id].raw.uat, m[id].into)
<1> DEFINE grave == Buried(m[o], why, Coalesce(uat, m[o].raw.uat),
                           IF into # Nobody THEN into ELSE m[o].into)
           fits == m[o].why # "none" /\ Buries(m[o], uat, why)
           w == IF fits THEN [m EXCEPT ![o] = grave] ELSE m
<1>0. m[o] \in Row
  BY DEF Mirrors
<1>1. grave \in Row
  BY <1>0 DEF Buried, Coalesce, Row, Why, Payload
<1>2. /\ w \in Mirrors /\ w[o] = (IF fits THEN grave ELSE m[o])
      /\ id # o => w[id] = m[id]
  BY <1>1 DEF Mirrors
<1>3. Tombstone(m, o, uat, why, into) = IF why \in Gone THEN Cascade(w, o) ELSE w
  BY DEF Tombstone, Known
<1> HIDE DEF w
<1> QED BY <1>2, <1>3, CascadeRow

(* A call rewrites the row it names and, elsewhere, only buries live rows  *)
(* and lifts rows for their owner's sake.                                  *)
LEMMA AppliedRow ==
  ASSUME NEW m \in Mirrors, NEW f \in Fact, NEW id \in Ids
  PROVE  /\ Applied(m, f)[f.id] = OwnRow(m[f.id], f)
         /\ id # f.id =>
              \/ Applied(m, f)[id] = m[id]
              \/ /\ m[id].why = "owner_deleted"
                 /\ Applied(m, f)[id] = Lifted(m[id])
              \/ /\ m[id].why = "live"
                 /\ Applied(m, f)[id] =
                      Buried(m[id], "owner_deleted", m[id].raw.uat, m[id].into)
<1>0. /\ f.id \in Ids /\ f.raw \in Payload /\ f.raw.uat \in Time
      /\ f.into \in Owners \cup {Nobody} /\ Nobody \in Owners \cup {Nobody}
      /\ f.kind \in {"update", "destroyed", "merged", "live", "absent"}
      /\ NoTime \in Time
  BY TimeFacts DEF Fact, Payload
<1>1. CASE f.kind = "update"
  BY <1>1, UpdateRow
<1>2. CASE f.kind = "destroyed"
  <2>1. Applied(m, f) = Tombstone(m, f.id, Carried(f), "destroyed", Nobody)
    BY <1>2 DEF Applied
  <2>2. Carried(f) \in Time
    BY <1>0 DEF Carried
  <2> QED BY <1>0, <1>2, <2>1, <2>2, TombstoneRow DEF OwnRow, Reasons, Gone
<1>3. CASE f.kind = "merged"
  <2>1. Applied(m, f) = Tombstone(m, f.id, NoTime, "merged", f.into)
    BY <1>3 DEF Applied
  <2> QED BY <1>0, <1>3, <2>1, TombstoneRow DEF OwnRow, Reasons, Gone
<1>4. CASE f.kind = "live"
  <2> DEFINE w == [m EXCEPT ![f.id] = Inserted(f.raw)]
  <2>1. w \in Mirrors /\ w[f.id] = Inserted(f.raw) /\ (id # f.id => w[id] = m[id])
    BY <1>0, InsertedType DEF Mirrors
  <2>2. Applied(m, f) = Uncascade(w, f.id)
    BY <1>4 DEF Applied, ConfirmLive
  <2>3. OwnRow(m[f.id], f) = Inserted(f.raw)
    BY <1>4 DEF OwnRow
  <2> HIDE DEF w
  <2> QED BY <1>0, <2>1, <2>2, <2>3, UncascadeRow
<1>5. CASE f.kind = "absent"
  <2>1. Applied(m, f) = Tombstone(m, f.id, NoTime, "audit_absent", Nobody)
    BY <1>5 DEF Applied
  <2> QED BY <1>0, <1>5, <2>1, TombstoneRow DEF OwnRow, Reasons, Gone
<1> QED BY <1>0, <1>1, <1>2, <1>3, <1>4, <1>5

-----------------------------------------------------------------------------
(* One step of PCO: its clock and its versions never run back, what is     *)
(* over stays over, and what it says is true when it says it.              *)
PcoSays(f) ==
  /\ f.kind \in Versions => f.raw.uat <= pco'[f.id].raw.uat
  /\ f.kind = "live" => f.id \in Confirmed
  /\ f.kind = "absent" => f.id \in Answers
  /\ f.kind = "destroyed" =>
       pco'[f.id].st = "gone" /\ f.raw.uat = pco'[f.id].raw.uat
  /\ f.kind = "merged" => pco'[f.id].st = "merged"

PcoAdvances ==
  /\ \A id \in Ids :
       /\ pco[id].raw.uat <= pco'[id].raw.uat
       /\ pco'[id].raw.uat <= clock'
       /\ id \in Untimed => pco'[id].raw.uat = NoTime
       /\ ~ Restores /\ pco[id].st \in {"gone", "merged"} =>
            pco'[id].st = pco[id].st /\ pco'[id].raw.uat = pco[id].raw.uat
  /\ \A f \in sent' : f \in sent \/ PcoSays(f)

LEMMA PcoStepAdvances ==
  ASSUME TypeOK, Dated, PcoStep PROVE PcoAdvances
<1> USE DEF TypeOK
<1>0. /\ clock \in Nat
      /\ \A id \in Ids : pco[id] \in Record /\ pco[id].raw \in Payload
                        /\ pco[id].raw.uat \in Nat
  BY TimeFacts DEF Record, Payload
<1>1. ASSUME NEW id \in Ids, NEW t \in Time, NEW rels \in RelSets,
             PcoCreate(id, t, rels) \/ PcoEdit(id, t, rels)
      PROVE  PcoAdvances
  <2> DEFINE raw == At(pco[id].raw, Stamp(id, t))
  <2>1. /\ t \in Nat /\ clock <= t /\ clock' = t
        /\ pco[id].st \in {"unborn", "live"}
        /\ pco' = [pco EXCEPT ![id] = [st |-> "live", raw |-> raw]]
        /\ sent' = sent \cup {Update(id, raw, rels)}
    BY <1>0, <1>1, TimeFacts DEF PcoCreate, PcoEdit
  <2>2. raw.uat = Stamp(id, t)
    BY DEF At
  <2>3. pco[id].raw.uat <= raw.uat /\ raw.uat <= t /\ (id \in Untimed => raw.uat = NoTime)
    BY <1>0, <2>1, <2>2 DEF Dated, Stamp, NoTime
  <2>4. PcoSays(Update(id, raw, rels))
    BY <1>0, <2>1, <2>2, <2>3 DEF PcoSays, Update, Seen, Versions, Stamp, NoTime
  <2> HIDE DEF raw
  <2> QED BY <1>0, <2>1, <2>3, <2>4 DEF PcoAdvances, Dated
<1>2. ASSUME NEW lost \in SUBSET Ids, NEW told \in SUBSET lost,
             \A x \in lost : pco[x].st = "live",
             pco' = [x \in Ids |-> IF x \in lost THEN Turned(pco[x], "gone") ELSE pco[x]],
             sent' = sent \cup {Destroyed(x, pco[x].raw.uat) : x \in told},
             clock' = clock
      PROVE  PcoAdvances
  <2>1. ASSUME NEW x \in told PROVE PcoSays(Destroyed(x, pco[x].raw.uat))
    BY <1>2 DEF PcoSays, Destroyed, Versions, Turned
  <2> QED BY <1>0, <1>2, <2>1 DEF PcoAdvances, Dated, Turned
<1>3. ASSUME NEW id \in Ids, PcoDestroy(id) PROVE PcoAdvances
  <2>1. {id} \cup Belongings(id) \subseteq Ids
    BY DEF Belongings, Ids
  <2>2. \A x \in {id} \cup Belongings(id) : pco[x].st = "live"
    BY <1>3 DEF PcoDestroy, Belongings
  <2>3. PICK told \in SUBSET ({id} \cup Belongings(id)) :
          sent' = sent \cup {Destroyed(x, pco[x].raw.uat) : x \in told}
    BY <1>3 DEF PcoDestroy
  <2> QED BY <1>2, <1>3, <2>1, <2>2, <2>3 DEF PcoDestroy
<1>4. ASSUME NEW a \in Owners, NEW b \in Owners, NEW moved \in SUBSET Children,
             PcoMerge(a, b, moved)
      PROVE  PcoAdvances
  <2> DEFINE lost == Belongings(a) \ moved
             told == IF ChildEvents THEN lost ELSE {}
  <2>1. /\ a \in Ids /\ lost \subseteq Children /\ moved \subseteq Children
        /\ a \notin lost /\ a \notin moved /\ Children \subseteq Ids
        /\ told \subseteq lost /\ lost \cap moved = {}
        /\ pco[a].st = "live" /\ \A x \in lost \cup moved : pco[x].st = "live"
    BY <1>4, MirrorAssumption DEF PcoMerge, Belongings, Ids
  <2>2. \A x \in Ids : pco'[x] =
          IF x = a THEN Turned(pco[x], "merged")
          ELSE IF x \in moved THEN [st |-> pco[x].st, raw |-> Under(pco[x].raw, b)]
          ELSE IF x \in lost THEN Turned(pco[x], "gone") ELSE pco[x]
    BY <1>4 DEF PcoMerge
  <2>3. /\ sent' = sent \cup {Merged(a, b)}
                  \cup {Update(c, Under(pco[c].raw, b), pco[c].raw.rels) : c \in moved}
                  \cup {Destroyed(c, pco[c].raw.uat) : c \in told}
        /\ clock' = clock
    BY <1>4 DEF PcoMerge
  <2> HIDE DEF lost, told
  <2>4. /\ pco'[a].st = "merged"
        /\ \A x \in lost : pco'[x].st = "gone"
        /\ \A x \in Ids : pco'[x].raw.uat = pco[x].raw.uat
        /\ \A x \in Ids : pco[x].st \in {"gone", "merged"} => pco'[x].st = pco[x].st
    <3>1. pco'[a].st = "merged" /\ pco'[a].raw = pco[a].raw
      <4>1. pco'[a] = Turned(pco[a], "merged")
        BY <2>1, <2>2
      <4> QED BY <4>1 DEF Turned
    <3>2. ASSUME NEW x \in moved
          PROVE  pco'[x].st = pco[x].st /\ pco'[x].raw.uat = pco[x].raw.uat
      <4>1. pco'[x] = [st |-> pco[x].st, raw |-> Under(pco[x].raw, b)]
        BY <2>1, <2>2
      <4> QED BY <4>1 DEF Under
    <3>3. ASSUME NEW x \in lost
          PROVE  pco'[x].st = "gone" /\ pco'[x].raw = pco[x].raw
      <4>1. pco'[x] = Turned(pco[x], "gone")
        BY <2>1, <2>2
      <4> QED BY <4>1 DEF Turned
    <3>4. ASSUME NEW x \in Ids, x # a, x \notin moved, x \notin lost
          PROVE  pco'[x] = pco[x]
      BY <2>2, <3>4
    <3> QED BY <2>1, <3>1, <3>2, <3>3, <3>4
  <2>5. PcoSays(Merged(a, b))
    BY <2>4 DEF PcoSays, Merged, Versions
  <2>6. ASSUME NEW c \in moved
        PROVE  PcoSays(Update(c, Under(pco[c].raw, b), pco[c].raw.rels))
    <3>0. c \in Ids
      BY <2>1
    <3>1. pco'[c].raw.uat = pco[c].raw.uat /\ pco[c].raw.uat \in Nat
      BY <1>0, <2>4, <3>0
    <3> QED BY <3>1 DEF PcoSays, Update, Seen, Under, Versions
  <2>7. ASSUME NEW c \in told PROVE PcoSays(Destroyed(c, pco[c].raw.uat))
    <3>1. c \in lost /\ c \in Ids
      BY <2>1
    <3>2. pco'[c].st = "gone" /\ pco'[c].raw.uat = pco[c].raw.uat
      BY <2>4, <3>1
    <3> QED BY <3>2 DEF PcoSays, Destroyed, Versions
  <2> QED BY <1>0, <2>3, <2>4, <2>5, <2>6, <2>7 DEF PcoAdvances, Dated
<1>5. ASSUME NEW id \in Ids, NEW rels \in RelSets, PcoRestore(id, rels)
      PROVE  PcoAdvances
  <2> DEFINE raw == At(pco[id].raw, clock + 1)
  <2>1. /\ Restores /\ id \notin Untimed /\ id \in Owners /\ clock' = clock + 1
        /\ sent' = sent \cup {Update(id, raw, rels)}
    BY <1>5, MirrorAssumption DEF PcoRestore
  <2>0. \A x \in Ids : IF x = id THEN pco'[x].raw = raw ELSE pco'[x].raw = pco[x].raw
    <3> HIDE DEF raw
    <3>1. pco' = [x \in Ids |->
                   IF x = id THEN [st |-> "live", raw |-> raw]
                   ELSE IF x \in Children /\ pco[x].st = "gone" /\ pco[x].raw.owner = id
                   THEN Turned(pco[x], "live") ELSE pco[x]]
      BY <1>5 DEF PcoRestore, raw
    <3> QED BY <3>1 DEF Turned
  <2>2. raw.uat = clock + 1
    BY DEF At
  <2>3. PcoSays(Update(id, raw, rels))
    BY <1>0, <2>0, <2>1, <2>2 DEF PcoSays, Update, Seen, Versions
  <2> HIDE DEF raw
  <2> QED BY <1>0, <2>0, <2>1, <2>2, <2>3 DEF PcoAdvances, Dated
<1>6. ASSUME NEW id \in Ids, NEW rels \in RelSets, PcoAnswer(id, rels)
      PROVE  PcoAdvances
  <2>1. UNCHANGED <<clock, pco>> /\ id \in Answers
    BY <1>6 DEF PcoAnswer
  <2>2. PcoSays(Absent(id))
    BY <2>1 DEF PcoSays, Absent, Versions
  <2>3. id \in Confirmed => PcoSays(Live200(id, pco[id].raw, rels))
    BY <1>0, <2>1 DEF PcoSays, Live200, Seen, Versions
  <2>4. PcoSays(Update(id, pco[id].raw, rels))
    BY <1>0, <2>1 DEF PcoSays, Update, Seen, Versions
  <2>5. \A f \in sent' : f \in sent \/ PcoSays(f)
    BY <1>6, <2>2, <2>3, <2>4 DEF PcoAnswer
  <2> QED BY <1>0, <2>1, <2>5 DEF PcoAdvances, Dated
<1>7. CASE \E id \in Ids, t \in Time, rels \in RelSets :
             PcoCreate(id, t, rels) \/ PcoEdit(id, t, rels)
  BY <1>1, <1>7
<1>8. CASE \E id \in Ids : PcoDestroy(id)
  BY <1>3, <1>8
<1>9. CASE \E a, b \in Owners, moved \in SUBSET Children : PcoMerge(a, b, moved)
  BY <1>4, <1>9
<1>10. CASE \E id \in Ids, rels \in RelSets : PcoRestore(id, rels) \/ PcoAnswer(id, rels)
  BY <1>5, <1>6, <1>10
<1> QED BY <1>7, <1>8, <1>9, <1>10 DEF PcoStep

-----------------------------------------------------------------------------
LEMMA HistoryInit == Init => History
<1> SUFFICES ASSUME Init PROVE History
  OBVIOUS
<1>1. TypeOK
  BY InitType
<1>2. sent = {} /\ clock = 1
  BY DEF Init
<1> PICK owner \in [Children -> Owners], rels \in [Ids -> RelSets] :
      LET raw(id) == [uat |-> Stamp(id, 1), rels |-> rels[id],
                      owner |-> IF id \in Children THEN owner[id] ELSE Nobody]
      IN  /\ pco = [id \in Ids |-> [st |-> IF id \in Backfilled THEN "live"
                                          ELSE "unborn", raw |-> raw(id)]]
          /\ mirror = [id \in Ids |-> IF id \in Backfilled
                                      THEN Inserted(raw(id)) ELSE NoRow]
  BY DEF Init
<1>3. \A id \in Ids : pco[id].raw.uat = Stamp(id, 1)
  OBVIOUS
<1>4. \A id \in Ids : /\ mirror[id].why \in {"none", "live"}
                    /\ mirror[id].raw.uat \in {NoTime, Stamp(id, 1)}
  BY DEF Inserted, NoRow
<1>5. Dated /\ Behind
  BY <1>2, <1>3, <1>4 DEF Dated, Behind, Stamp, NoTime
<1>6. Asked /\ LastWords /\ Deep /\ Graves
  BY <1>2, <1>4 DEF Asked, LastWords, Deep, Graves, Unburied
<1> QED BY <1>1, <1>5, <1>6 DEF History

LEMMA HistoryPcoStep == History /\ PcoStep => History'
<1> SUFFICES ASSUME History, PcoStep PROVE History'
  OBVIOUS
<1> USE DEF History
<1>1. TypeOK' /\ TypeOK
  BY NextType DEF Next
<1>2. PcoAdvances /\ mirror' = mirror /\ crossed' = crossed
  BY PcoStepAdvances, PcoStepType
<1>3. /\ \A f \in sent : f.id \in Ids /\ f.raw.uat \in Nat
      /\ \A f \in sent' : f.id \in Ids /\ f.raw.uat \in Nat
      /\ \A id \in Ids : pco[id].raw.uat \in Nat
      /\ \A id \in Ids : pco'[id].raw.uat \in Nat
      /\ \A id \in Ids : mirror[id].raw.uat \in Nat
      /\ \A id \in Ids : mirror[id].tuat \in Nat
  BY <1>1, TimeFacts DEF TypeOK, Fact, Record, Row, Payload
<1>4. Dated' /\ Asked'
  BY <1>2 DEF PcoAdvances, PcoSays, Dated, Asked
<1>5. Behind'
  BY <1>2, <1>3 DEF PcoAdvances, PcoSays, Behind
<1>6. LastWords'
  BY <1>2, <1>3 DEF PcoAdvances, PcoSays, LastWords
<1>7. Deep' /\ Graves'
  BY <1>2, <1>3 DEF PcoAdvances, Deep, Graves
<1> QED BY <1>1, <1>4, <1>5, <1>6, <1>7

(* What a fact that is true of its record does to a row's bookkeeping. *)
LEMMA OwnRowHistory ==
  ASSUME NEW row \in Row, NEW f \in Fact, NEW top \in Time,
         row.raw.uat <= top,
         f.kind \in Versions => f.raw.uat <= top,
         f.id \in Untimed => top = NoTime
  PROVE  LET new == OwnRow(row, f)
             deep(r) == r.why \notin Unburied => r.raw.uat <= r.tuat
         IN  /\ new.raw.uat <= top
             /\ deep(row) /\ (f.kind = "destroyed" =>
                              Carried(f) = NoTime \/ Carried(f) = top) => deep(new)
             /\ new.why = "destroyed" =>
                  \/ f.kind = "destroyed"
                  \/ row.why = "destroyed" /\ new.tuat = row.tuat
             /\ new.why = "merged" => f.kind = "merged" \/ row.why = "merged"
<1>0. /\ f.raw \in Payload /\ f.raw.uat \in Nat /\ row.raw \in Payload
      /\ row.raw.uat \in Nat /\ row.tuat \in Nat /\ top \in Nat
      /\ f.kind \in {"update", "destroyed", "merged", "live", "absent"}
  BY TimeFacts DEF Fact, Row, Payload
<1>1. CASE f.kind = "update" /\ f.id \in Untimed
  BY <1>0, <1>1 DEF OwnRow, Inserted, Holding, Versions, Unburied
<1>2. CASE f.kind = "update" /\ f.id \notin Untimed
  <2>1. CASE f.raw.uat = NoTime \/ row.why = "none"
    BY <1>0, <1>2, <2>1 DEF OwnRow, Inserted, Versions, Unburied
  <2>2. CASE f.raw.uat # NoTime /\ row.why # "none"
    <3>1. OwnRow(row, f) = Upserted(row, f.raw)
      BY <1>2, <2>2 DEF OwnRow
    <3>2. /\ Upserted(row, f.raw).raw.uat \in {row.raw.uat, f.raw.uat}
          /\ \/ Upserted(row, f.raw).why = "live"
             \/ /\ Upserted(row, f.raw).why = row.why
                /\ Upserted(row, f.raw).tuat = row.tuat
                /\ ~ Revives(row, f.raw)
      BY DEF Upserted, Lifted, Holding
    <3> QED BY <1>0, <1>2, <3>1, <3>2 DEF Revives, Versions, Unburied
  <2> QED BY <2>1, <2>2
<1>3. CASE f.kind = "live"
  BY <1>0, <1>3 DEF OwnRow, Inserted, Versions, Unburied
<1>4. CASE f.kind = "destroyed"
  <2>1. Carried(f) \in Nat
    BY <1>0, TimeFacts DEF Carried
  <2> QED BY <1>0, <1>4, <2>1 DEF OwnRow, Buries, Buried, Coalesce, Unburied, NoTime
<1>5. CASE f.kind = "merged"
  BY <1>0, <1>5 DEF OwnRow, Buries, Buried, Coalesce, Unburied, NoTime
<1>6. CASE f.kind = "absent"
  BY <1>0, <1>6 DEF OwnRow, Buries, Buried, Coalesce, Unburied, NoTime
<1> QED BY <1>0, <1>1, <1>2, <1>3, <1>4, <1>5, <1>6

LEMMA HistoryMirrorStep == History /\ MirrorStep => History'
<1> SUFFICES ASSUME History, MirrorStep PROVE History'
  OBVIOUS
<1> USE DEF History
<1>1. TypeOK' /\ TypeOK
  BY NextType DEF Next
<1> PICK f \in sent : Deliver(f) \/ Receive(f)
  BY DEF MirrorStep
<1>2. /\ f \in Fact /\ mirror \in Mirrors /\ mirror' = Applied(mirror, f)
      /\ UNCHANGED <<clock, pco>> /\ sent' \subseteq sent
      /\ crossed' = IF f.kind = "destroyed"
                    THEN [crossed EXCEPT ![f.id] = Met(mirror'[f.id], f.raw.uat)] ELSE crossed
      /\ crossed \in [Ids -> {"no", "early", "late"}]
  BY <1>1 DEF Deliver, Receive, TypeOK, Mirrors, RepeatedKinds
<1>3. Dated' /\ Asked' /\ LastWords'
  BY <1>2 DEF Dated, Asked, LastWords
<1>4. ASSUME NEW id \in Ids
      PROVE  /\ mirror'[id].raw.uat <= pco[id].raw.uat
             /\ (BareDestroys \/ ~ Restores) /\ mirror'[id].why \notin Unburied =>
                  mirror'[id].raw.uat <= mirror'[id].tuat
             /\ ~ Restores =>
                  /\ mirror'[id].why = "destroyed" =>
                       /\ pco[id].st = "gone"
                       /\ crossed'[id] = "no" => mirror'[id].tuat >= pco[id].raw.uat
                  /\ mirror'[id].why = "merged" => pco[id].st = "merged"
  <2>1. /\ mirror[id] \in Row /\ pco[id].raw.uat \in Time
        /\ mirror[id].raw.uat \in Nat /\ mirror[id].tuat \in Nat /\ mirror'[id].tuat \in Nat
    BY <1>1, TimeFacts DEF TypeOK, Record, Row, Payload
  <2>2. mirror[id].raw.uat <= pco[id].raw.uat
    BY DEF Behind
  <2>3. CASE id = f.id
    <3>1. mirror'[id] = OwnRow(mirror[id], f)
      BY <1>2, <2>3, AppliedRow
    <3>2. f.kind \in Versions => f.raw.uat <= pco[id].raw.uat
      BY <2>3 DEF Behind
    <3>3. f.id \in Untimed => pco[id].raw.uat = NoTime
      BY <2>3 DEF Dated
    <3>4. f.kind = "destroyed" /\ ~ Restores => pco[id].st = "gone"
      BY <2>3 DEF LastWords
    <3>5. f.kind = "destroyed" /\ ~ Restores => f.raw.uat = pco[id].raw.uat
      BY <2>3 DEF LastWords
    <3>6. f.kind = "merged" /\ ~ Restores => pco[id].st = "merged"
      BY <2>3 DEF LastWords
    <3>7. f.kind = "destroyed" /\ (BareDestroys \/ ~ Restores) =>
            Carried(f) = NoTime \/ Carried(f) = pco[id].raw.uat
      BY <3>5 DEF Carried
    <3>8. f.kind = "destroyed" => crossed'[id] = Met(mirror'[id], f.raw.uat)
      BY <1>2, <2>3
    <3>9. /\ f.kind # "destroyed" => crossed'[id] = crossed[id]
          /\ f.kind = "destroyed" /\ ~ Restores /\ mirror'[id].why = "destroyed"
             /\ crossed'[id] = "no" => mirror'[id].tuat >= pco[id].raw.uat
      <4>1. f.kind # "destroyed" => crossed'[id] = crossed[id]
        BY <1>2
      <4>2. ASSUME f.kind = "destroyed", ~ Restores, mirror'[id].why = "destroyed", crossed'[id] = "no"
            PROVE  mirror'[id].tuat >= pco[id].raw.uat
        <5>1. Met(mirror'[id], pco[id].raw.uat) = "no" /\ pco[id].raw.uat \in Nat
          BY <2>1, <3>5, <3>8, <4>2, TimeFacts
        <5> QED BY <2>1, <4>2, <5>1 DEF Met
      <4> QED BY <4>1, <4>2
    <3>10. /\ mirror'[id].raw.uat <= pco[id].raw.uat
           /\ (BareDestroys \/ ~ Restores) /\ mirror'[id].why \notin Unburied =>
                mirror'[id].raw.uat <= mirror'[id].tuat
           /\ mirror'[id].why = "destroyed" =>
                \/ f.kind = "destroyed"
                \/ mirror[id].why = "destroyed" /\ mirror'[id].tuat = mirror[id].tuat
           /\ mirror'[id].why = "merged" => f.kind = "merged" \/ mirror[id].why = "merged"
      BY <1>2, <2>1, <2>2, <3>1, <3>2, <3>3, <3>7, OwnRowHistory DEF Deep
    <3> QED BY <3>4, <3>6, <3>9, <3>10 DEF Graves
  <2>4. CASE id # f.id
    <3>1. \/ mirror'[id] = mirror[id]
          \/ mirror'[id] = Lifted(mirror[id])
          \/ mirror'[id] =
               Buried(mirror[id], "owner_deleted", mirror[id].raw.uat, mirror[id].into)
      BY <1>2, <2>4, AppliedRow
    <3>2. crossed'[id] = crossed[id]
      BY <1>2, <2>4
    <3> QED BY <2>1, <2>2, <3>1, <3>2 DEF Deep, Graves, Lifted, Buried, Unburied
  <2> QED BY <2>3, <2>4
<1>5. Behind' /\ Deep' /\ Graves'
  BY <1>2, <1>4 DEF Behind, Deep, Graves
<1> QED BY <1>1, <1>3, <1>5

LEMMA HistoryNext == History /\ [Next]_vars => History'
<1> SUFFICES ASSUME History, [Next]_vars PROVE History'
  OBVIOUS
<1>1. CASE PcoStep
  BY <1>1, HistoryPcoStep
<1>2. CASE MirrorStep
  BY <1>2, HistoryMirrorStep
<1>3. CASE UNCHANGED vars
  <2>1. TypeOK'
    BY NextType DEF History
  <2> QED BY <1>3, <2>1 DEF vars, History, Dated, Behind, Asked, LastWords, Deep, Graves
<1> QED BY <1>1, <1>2, <1>3 DEF Next

(* Nothing the mirror holds, and nothing on its way to it, is newer than   *)
(* PCO's record; what PCO called gone or merged is; and a tombstone is at  *)
(* least as deep as the payload it lies on: the reason no late fact can    *)
(* slip between a row and its tombstone.                                   *)
THEOREM HistoryHolds == Spec => []History
<1> QED BY HistoryInit, HistoryNext, PTL DEF Spec

-----------------------------------------------------------------------------
(* One row across one step. *)
Stays(row, new) == row.why # "none" => new.raw.uat >= row.raw.uat

Richer(row, new) ==
  row.why # "none" /\ new.raw.uat = row.raw.uat =>
    new.raw.rels = row.raw.rels
    \/ Cardinality(new.raw.rels) > Cardinality(row.raw.rels)

LEMMA MoreRels ==
  ASSUME NEW a \in SUBSET Rels, NEW b \in SUBSET Rels, a \subseteq b, a # b
  PROVE  Cardinality(b) > Cardinality(a)
<1>1. IsFiniteSet(b)
  BY FS_Subset, MirrorAssumption
<1> QED BY <1>1, FS_Subset, FS_CardinalityType

LEMMA OwnRowMonotone ==
  ASSUME NEW row \in Row, NEW f \in Fact, f.kind # "live",
         f.id \in Untimed => row.raw.uat = NoTime
  PROVE  /\ Stays(row, OwnRow(row, f))
         /\ f.id \notin Untimed => Richer(row, OwnRow(row, f))
<1>0. /\ f.raw.uat \in Nat /\ row.raw.uat \in Nat
      /\ f.raw.rels \in SUBSET Rels /\ row.raw.rels \in SUBSET Rels
      /\ f.kind \in {"update", "destroyed", "merged", "live", "absent"}
  BY TimeFacts DEF Fact, Row, Payload
<1>1. CASE f.kind = "update" /\ f.id \in Untimed
  BY <1>0, <1>1 DEF OwnRow, Inserted, Holding, Stays, NoTime
<1>2. CASE f.kind = "update" /\ f.id \notin Untimed
  <2>1. CASE f.raw.uat = NoTime \/ row.why = "none"
    BY <1>0, <1>2, <2>1 DEF OwnRow, Stays, Richer
  <2>2. CASE f.raw.uat # NoTime /\ row.why # "none"
    <3>1. OwnRow(row, f).raw = IF Wins(row.raw, f.raw) THEN f.raw ELSE row.raw
      BY <1>2, <2>2 DEF OwnRow, Upserted, Lifted, Holding
    <3>2. CASE ~ Wins(row.raw, f.raw)
      BY <1>0, <3>1, <3>2 DEF Stays, Richer
    <3>3. CASE Wins(row.raw, f.raw)
      <4>1. f.raw.uat >= row.raw.uat
        BY <1>0, <3>3 DEF Wins
      <4>2. f.raw.uat = row.raw.uat =>
              \/ row.raw.rels \subseteq f.raw.rels
              \/ Cardinality(f.raw.rels) > Cardinality(row.raw.rels)
        BY <1>0, <3>3 DEF Wins, NoPoorer
      <4> QED BY <1>0, <3>1, <3>3, <4>1, <4>2, MoreRels DEF Stays, Richer
    <3> QED BY <3>2, <3>3
  <2> QED BY <2>1, <2>2
<1>3. CASE f.kind \in {"destroyed", "merged", "absent"}
  <2>1. OwnRow(row, f).raw = row.raw
    BY <1>3 DEF OwnRow, Buried
  <2> QED BY <1>0, <2>1 DEF Stays, Richer
<1> QED BY <1>0, <1>1, <1>2, <1>3

(* What applying f does to the rows of the mirror. *)
RowsAfter(f) ==
  \A id \in Ids :
    IF id = f.id THEN mirror'[id] = OwnRow(mirror[id], f)
    ELSE \/ mirror'[id] = mirror[id]
         \/ /\ mirror[id].why = "owner_deleted"
            /\ mirror'[id] = Lifted(mirror[id])
         \/ /\ mirror[id].why = "live"
            /\ mirror'[id] = Buried(mirror[id], "owner_deleted",
                                   mirror[id].raw.uat, mirror[id].into)

LEMMA MirrorStepRow ==
  ASSUME History, MirrorStep
  PROVE  \E f \in sent : f \in Fact /\ RowsAfter(f)
<1> PICK f \in sent : Deliver(f) \/ Receive(f)
  BY DEF MirrorStep
<1>1. f \in Fact /\ mirror \in Mirrors /\ mirror' = Applied(mirror, f)
  BY DEF Deliver, Receive, History, TypeOK, Mirrors
<1>2. RowsAfter(f)
  BY <1>1, AppliedRow DEF RowsAfter
<1> QED BY <1>1, <1>2

LEMMA StepMonotone ==
  ASSUME History, [Next]_vars, Confirmed = {}, NEW id \in Ids
  PROVE  /\ Stays(mirror[id], mirror'[id])
         /\ id \notin Untimed => Richer(mirror[id], mirror'[id])
<1>0. mirror[id] \in Row /\ mirror[id].raw.uat \in Nat
  BY TimeFacts DEF History, TypeOK, Row, Payload
<1>1. CASE mirror' = mirror
  BY <1>0, <1>1 DEF Stays, Richer
<1>2. CASE MirrorStep
  <2> PICK f \in sent : f \in Fact /\ RowsAfter(f)
    BY <1>2, MirrorStepRow
  <2>1. f.kind # "live"
    BY DEF History, Asked
  <2>2. id \in Untimed => mirror[id].raw.uat = NoTime
    BY <1>0 DEF History, Dated, Behind, NoTime
  <2>3. CASE id = f.id
    <3>1. mirror'[id] = OwnRow(mirror[id], f)
      BY <2>3 DEF RowsAfter
    <3> QED BY <1>0, <2>1, <2>2, <2>3, <3>1, OwnRowMonotone
  <2>4. CASE id # f.id
    <3>0. \/ mirror'[id] = mirror[id]
          \/ mirror'[id] = Lifted(mirror[id])
          \/ mirror'[id] = Buried(mirror[id], "owner_deleted",
                                 mirror[id].raw.uat, mirror[id].into)
      BY <2>4 DEF RowsAfter
    <3>1. mirror'[id].raw = mirror[id].raw
      BY <3>0 DEF Lifted, Buried
    <3> QED BY <1>0, <3>1 DEF Stays, Richer
  <2> QED BY <2>3, <2>4
<1>3. PcoStep => mirror' = mirror
  BY PcoStepType DEF History
<1> QED BY <1>1, <1>2, <1>3 DEF Next, vars

(* As long as nothing is written through confirm_live, no interleaving of  *)
(* deliveries, duplicates included, takes a row back to an older version.  *)
THEOREM RowsNeverGoBack ==
  ASSUME Confirmed = {} PROVE Spec => MonotonicRows
<1>1. History /\ [Next]_vars =>
        [\A id \in Ids : Known(mirror, id) => mirror'[id].raw.uat >= mirror[id].raw.uat]_vars
  BY StepMonotone DEF Stays, Known
<1> QED BY <1>1, HistoryHolds, PTL DEF Spec, MonotonicRows

LEMMA StepKeepsRelationships ==
  ASSUME History, [Next]_vars, Confirmed = {} PROVE KeepsRelationships
  BY StepMonotone DEF KeepsRelationships, Richer, Known

(* Under the same condition, at one version a timestamped row's set of     *)
(* relationships only ever grows in number, or stays what it was.          *)
THEOREM RowsNeverPoorer ==
  ASSUME Confirmed = {} PROVE Spec => NeverPoorer
<1>1. ASSUME History, [Next]_vars PROVE KeepsRelationships
  BY <1>1, StepKeepsRelationships
<1> QED BY <1>1, HistoryHolds, PTL DEF Spec, NeverPoorer

-----------------------------------------------------------------------------
(* Tombstones across one step. *)
LEMMA StepSticks ==
  ASSUME History, [Next]_vars, ~ Restores, Answers = {},
         NEW id \in Ids, mirror[id].why \in {"destroyed", "merged"}, crossed[id] = "no"
  PROVE  mirror'[id].why = mirror[id].why
<1>0. /\ mirror[id].tuat \in Nat /\ pco[id].raw.uat \in Nat
  BY TimeFacts DEF History, TypeOK, Row, Record, Payload
<1>1. CASE MirrorStep
  <2> PICK f \in sent : f \in Fact /\ RowsAfter(f)
    BY <1>1, MirrorStepRow
  <2>1. f.kind \in {"update", "destroyed", "merged"} /\ f.raw.uat \in Nat
    BY TimeFacts, WriterAssumption DEF History, Asked, Fact, Payload
  <2>2. CASE id # f.id
    BY <2>2 DEF RowsAfter
  <2>3. CASE id = f.id
    <3>0. mirror'[id] = OwnRow(mirror[id], f)
      BY <2>3 DEF RowsAfter
    <3>1. CASE f.kind = "update"
      <4>1. f.raw.uat <= pco[id].raw.uat
        BY <2>3, <3>1 DEF History, Behind, Versions
      <4>2. mirror[id].why = "destroyed" => mirror[id].tuat >= pco[id].raw.uat
        BY DEF History, Graves
      <4>3. ~ Revives(mirror[id], f.raw)
        BY <1>0, <2>1, <4>1, <4>2 DEF Revives
      <4> QED BY <3>0, <3>1, <4>3 DEF OwnRow, Upserted, Holding
    <3>2. CASE f.kind = "destroyed"
      <4>1. mirror[id].why = "destroyed"
        BY <2>3, <3>2 DEF History, LastWords, Graves
      <4> QED BY <3>0, <3>2, <4>1 DEF OwnRow, Buried
    <3>3. CASE f.kind = "merged"
      <4>1. mirror[id].why = "merged"
        BY <2>3, <3>3 DEF History, LastWords, Graves
      <4> QED BY <3>0, <3>3, <4>1 DEF OwnRow, Buried
    <3> QED BY <2>1, <3>1, <3>2, <3>3
  <2> QED BY <2>2, <2>3
<1>2. PcoStep => mirror' = mirror
  BY PcoStepType DEF History
<1> QED BY <1>1, <1>2 DEF Next, vars

LEMMA MergesStick ==
  ASSUME History, [Next]_vars, ~ Restores, Answers = {}, NEW id \in Ids, mirror[id].why = "merged"
  PROVE  mirror'[id].why = "merged"
<1>1. CASE MirrorStep
  <2> PICK f \in sent : f \in Fact /\ RowsAfter(f)
    BY <1>1, MirrorStepRow
  <2>1. f.kind \in {"update", "destroyed", "merged"}
    BY WriterAssumption DEF History, Asked, Fact
  <2>2. CASE id # f.id
    BY <2>2 DEF RowsAfter
  <2>3. CASE id = f.id
    <3>1. mirror'[id] = OwnRow(mirror[id], f)
      BY <2>3 DEF RowsAfter
    <3>2. f.kind # "destroyed"
      BY <2>3 DEF History, LastWords, Graves
    <3> QED BY <2>1, <3>1, <3>2 DEF OwnRow, Upserted, Revives, Holding, Buried
  <2> QED BY <2>2, <2>3
<1>2. PcoStep => mirror' = mirror
  BY PcoStepType DEF History
<1> QED BY <1>1, <1>2 DEF Next, vars

LEMMA StepDigsUp ==
  ASSUME History, [Next]_vars, Confirmed = {}, BareDestroys \/ ~ Restores,
         NEW id \in Ids, mirror[id].why \in Reasons, mirror'[id].why = "live"
  PROVE  mirror'[id].raw.uat > mirror[id].raw.uat
<1>0. /\ mirror[id].tuat \in Nat /\ mirror[id].raw.uat \in Nat
      /\ mirror[id].why \notin {"none", "live", "owner_deleted"}
  BY TimeFacts DEF History, TypeOK, Row, Payload, Reasons, Gone
<1>1. MirrorStep
  <2>1. mirror' # mirror
    BY <1>0
  <2>2. PcoStep => mirror' = mirror
    BY PcoStepType DEF History
  <2> QED BY <2>1, <2>2 DEF Next, vars
<1> PICK f \in sent : f \in Fact /\ RowsAfter(f)
  BY <1>1, MirrorStepRow
<1>2. f.kind \in {"update", "destroyed", "merged", "absent"} /\ f.raw.uat \in Nat
  BY TimeFacts DEF History, Asked, Fact, Payload
<1>3. id = f.id
  BY <1>0 DEF RowsAfter, Buried
<1>4. mirror'[id] = OwnRow(mirror[id], f)
  BY <1>3 DEF RowsAfter
<1>5. f.kind = "update" /\ mirror'[id] = Upserted(mirror[id], f.raw)
  BY <1>0, <1>2, <1>4 DEF OwnRow, Buried
<1>6. Revives(mirror[id], f.raw)
  BY <1>0, <1>5 DEF Upserted, Holding
<1>7. f.raw.uat > mirror[id].tuat /\ mirror[id].tuat >= mirror[id].raw.uat
  BY <1>0, <1>6 DEF Revives, History, Deep, Unburied
<1>8. mirror'[id].raw = f.raw
  BY <1>0, <1>2, <1>5, <1>7 DEF Upserted, Wins, Lifted, Holding
<1> QED BY <1>0, <1>2, <1>7, <1>8

(* A row buried by a merge, or by a destroyed webhook that met the version *)
(* destroyed, with or without an updated_at, keeps its tombstone and its   *)
(* reason through every late or repeated delivery, provided PCO restores   *)
(* nothing and no single-record GET overrides the webhooks.                *)
THEOREM TombstonesAreSticky ==
  ASSUME ~ Restores, Answers = {} PROVE Spec => TombstonesStick
<1>1. History /\ [Next]_vars =>
        [\A id \in Ids : mirror[id].why \in {"destroyed", "merged"} /\ crossed[id] = "no"
                         => mirror'[id].why = mirror[id].why]_vars
  BY StepSticks
<1> QED BY <1>1, HistoryHolds, PTL DEF Spec, TombstonesStick

(* Whatever buried it, a row comes back only with a version strictly newer *)
(* than the one it was buried with; the audits' 404s and destroys without  *)
(* a timestamp included.                                                   *)
THEOREM OnlyNewsDigsUp ==
  ASSUME Confirmed = {}, BareDestroys \/ ~ Restores PROVE Spec => DugUpOnlyByNews
<1>1. History /\ [Next]_vars =>
        [\A id \in Ids : mirror[id].why \in Reasons /\ Live(mirror', id)
                         => mirror'[id].raw.uat > mirror[id].raw.uat]_vars
  BY StepDigsUp DEF Live
<1> QED BY <1>1, HistoryHolds, PTL DEF Spec, DugUpOnlyByNews

-----------------------------------------------------------------------------
(***************************************************************************)
(* The mirror comes to agree with PCO, for every set of records, every     *)
(* history of edits, destroys and merges and every order and repetition of *)
(* deliveries.  Beyond History the argument needs that PCO says what it    *)
(* does, that what was applied has had its effect and keeps it, and that a *)
(* cascade only buries what is gone: a child leaves its owner alive only   *)
(* when the owner is merged, and a merge does not cascade.                 *)
(***************************************************************************)

(* Everything is mirrored when the behaviour starts, PCO tells of every    *)
(* record it destroys and brings none back, and no thread reads records    *)
(* one by one.                                                             *)
Converging ==
  /\ Backfilled = Ids /\ ChildEvents /\ ~ Restores /\ Answers = {}

Standings == {"live", "destroyed", "merged", "owner_deleted"}

(* o is the owner of c, or was until it was merged away. *)
OwnerOf(o, c, rec) == o \in Owners /\ (o = rec[c].raw.owner \/ rec[o].st = "merged")

Family(rec) ==
  \A c \in Children : /\ rec[c].st # "merged" /\ rec[c].raw.owner \in Owners
                      /\ rec[c].st = "live" => rec[rec[c].raw.owner].st = "live"

Named ==
  /\ \A c \in Children : OwnerOf(mirror[c].raw.owner, c, pco)
  /\ \A f \in sent : f.kind = "update" /\ f.id \in Children => OwnerOf(f.raw.owner, f.id, pco)

Kept ==
  \A id \in Ids : /\ pco[id].st # "unborn" /\ mirror[id].why \in Standings
                  /\ mirror[id].why = "owner_deleted" => pco[id].st = "gone"

Says(facts, kind, id) == \E f \in facts : f.kind = kind /\ f.id = id
Dates(facts, id, t) == \E f \in facts : f.kind = "update" /\ f.id = id /\ f.raw.uat = t

Told ==
  \A id \in Ids : /\ pco[id].st = "gone" => Says(sent, "destroyed", id)
                  /\ pco[id].st = "merged" => Says(sent, "merged", id)
                  /\ \/ mirror[id].raw.uat = pco[id].raw.uat
                     \/ Dates(sent, id, pco[id].raw.uat)

Heeded ==
  \A f \in seen : /\ f.kind = "destroyed" => \/ mirror[f.id].why = "destroyed"
                                              \/ crossed[f.id] # "no"
                  /\ f.kind = "merged" => mirror[f.id].why = "merged"
                  /\ f.kind = "update" => mirror[f.id].raw.uat >= f.raw.uat

AgreementInv == History /\ Family(pco) /\ Named /\ Kept /\ Told /\ Heeded
-----------------------------------------------------------------------------
(* What a step of PCO does to its records and says of them. *)
PcoKeeps ==
  /\ Family(pco')
  /\ \A o \in Owners, c \in Children : OwnerOf(o, c, pco) => OwnerOf(o, c, pco')
  /\ \A f \in sent' : f \in sent \/ (f.kind = "update" /\ f.id \in Children
                                     => f.raw.owner = pco'[f.id].raw.owner)
  /\ \A id \in Ids :
       /\ pco'[id].st # "unborn"
       /\ pco[id].st = "gone" => pco'[id].st = "gone"
       /\ pco'[id].st = "gone" => pco[id].st = "gone" \/ Says(sent', "destroyed", id)
       /\ pco'[id].st = "merged" => pco[id].st = "merged" \/ Says(sent', "merged", id)
       /\ pco'[id].raw.uat = pco[id].raw.uat \/ Dates(sent', id, pco'[id].raw.uat)

LEMMA EditKeeps ==
  ASSUME TypeOK, Family(pco), Kept, NEW id \in Ids, NEW t \in Time, NEW rels \in RelSets,
         PcoEdit(id, t, rels)
  PROVE  PcoKeeps
<1> DEFINE raw == At(pco[id].raw, Stamp(id, t))
<1>1. /\ pco[id].st = "live" /\ pco' = [pco EXCEPT ![id] = [st |-> "live", raw |-> raw]]
      /\ sent' = sent \cup {Update(id, raw, rels)}
  BY DEF PcoEdit
<1>2. raw.owner = pco[id].raw.owner
  BY DEF At
<1> HIDE DEF raw
<1>3. \A x \in Ids : /\ pco'[x].st = pco[x].st /\ pco'[x].raw.owner = pco[x].raw.owner
                     /\ x # id => pco'[x] = pco[x]
                     /\ x = id => pco'[x].raw = raw
  BY <1>1, <1>2 DEF TypeOK
<1>4. Owners \subseteq Ids /\ Children \subseteq Ids
  BY DEF Ids
<1>5. Family(pco') /\ \A o \in Owners, c \in Children : OwnerOf(o, c, pco) => OwnerOf(o, c, pco')
  BY <1>3, <1>4 DEF Family, OwnerOf
<1>6. LET f == Update(id, raw, rels)
      IN  f \in sent' /\ f.kind = "update" /\ f.id = id /\ f.raw.uat = raw.uat
          /\ f.raw.owner = raw.owner
  BY <1>1 DEF Update, Seen
<1>7. Dates(sent', id, pco'[id].raw.uat)
  BY <1>3, <1>6 DEF Dates
<1>8. \A f \in sent' : f \in sent \/ f = Update(id, raw, rels)
  BY <1>1
<1>9. \A f \in sent' : f \in sent \/ (f.kind = "update" /\ f.id \in Children
                                      => f.raw.owner = pco'[f.id].raw.owner)
  BY <1>3, <1>6, <1>8
<1> QED BY <1>3, <1>5, <1>7, <1>9 DEF PcoKeeps, Kept

LEMMA DestroyKeeps ==
  ASSUME TypeOK, Family(pco), Kept, ChildEvents, NEW id \in Ids, PcoDestroy(id)
  PROVE  PcoKeeps
<1> DEFINE lost == {id} \cup Belongings(id)
<1>1. /\ pco[id].st = "live"
      /\ pco' = [x \in Ids |-> IF x \in lost THEN Turned(pco[x], "gone") ELSE pco[x]]
      /\ sent' = sent \cup {Destroyed(x, pco[x].raw.uat) : x \in lost}
  BY DEF PcoDestroy
<1>2. /\ lost \subseteq Ids /\ Belongings(id) \subseteq Children /\ id \in lost
      /\ Owners \subseteq Ids /\ Children \subseteq Ids
      /\ \A x \in Ids : x \notin lost /\ x \in Children /\ pco[x].st = "live" => pco[x].raw.owner # id
      /\ \A x \in lost : pco[x].st = "live"
      /\ \A o \in Owners : o \in lost => o = id
  BY <1>1, MirrorAssumption DEF Belongings, Ids
<1> HIDE DEF lost
<1>3. \A x \in Ids : /\ pco'[x].raw = pco[x].raw
                     /\ x \in lost => pco'[x].st = "gone"
                     /\ x \notin lost => pco'[x].st = pco[x].st
  BY <1>1, <1>2 DEF Turned
<1>4. Family(pco')
  BY <1>2, <1>3 DEF Family
<1>5. \A o \in Owners, c \in Children : OwnerOf(o, c, pco) => OwnerOf(o, c, pco')
  BY <1>2, <1>3 DEF OwnerOf
<1>6. \A x \in lost : LET f == Destroyed(x, pco[x].raw.uat)
                      IN  f \in sent' /\ f.kind = "destroyed" /\ f.id = x
  BY <1>1 DEF Destroyed
<1>7. \A x \in lost : Says(sent', "destroyed", x)
  BY <1>6 DEF Says
<1>8. \A f \in sent' : f \in sent \/ f.kind = "destroyed"
  BY <1>1 DEF Destroyed
<1>9. \A x \in Ids : /\ pco'[x].st # "unborn"
                     /\ pco[x].st = "gone" => pco'[x].st = "gone"
                     /\ pco'[x].st = "gone" => pco[x].st = "gone" \/ Says(sent', "destroyed", x)
                     /\ pco'[x].st = "merged" => pco[x].st = "merged"
                     /\ pco'[x].raw.uat = pco[x].raw.uat
  BY <1>2, <1>3, <1>7 DEF Kept
<1> QED BY <1>4, <1>5, <1>8, <1>9 DEF PcoKeeps

LEMMA MergeKeeps ==
  ASSUME TypeOK, Family(pco), Kept, ChildEvents, NEW a \in Owners, NEW b \in Owners,
         NEW moved \in SUBSET Children, PcoMerge(a, b, moved)
  PROVE  PcoKeeps
<1> DEFINE lost == Belongings(a) \ moved
<1>1. /\ a # b /\ pco[a].st = "live" /\ pco[b].st = "live" /\ moved \subseteq Belongings(a)
      /\ \A x \in Ids : pco'[x] =
           IF x = a THEN Turned(pco[x], "merged")
           ELSE IF x \in moved THEN [st |-> pco[x].st, raw |-> Under(pco[x].raw, b)]
           ELSE IF x \in lost THEN Turned(pco[x], "gone") ELSE pco[x]
      /\ sent' = sent \cup {Merged(a, b)}
                      \cup {Update(c, Under(pco[c].raw, b), pco[c].raw.rels) : c \in moved}
                      \cup {Destroyed(c, pco[c].raw.uat) : c \in lost}
  BY DEF PcoMerge
<1>2. /\ lost \subseteq Children /\ a \notin Children /\ b \notin Children
      /\ Owners \subseteq Ids /\ Children \subseteq Ids /\ lost \cap moved = {}
      /\ \A x \in lost \cup moved : pco[x].st = "live" /\ pco[x].raw.owner = a
      /\ \A x \in Children \ (lost \cup moved) : pco[x].st = "live" => pco[x].raw.owner # a
      /\ \A o \in Owners : o \notin lost \cup moved
  BY <1>1, MirrorAssumption DEF Belongings, Ids
<1> HIDE DEF lost
<1>3. pco'[a].st = "merged" /\ pco'[a].raw = pco[a].raw
  <2>1. pco'[a] = Turned(pco[a], "merged")
    BY <1>1, <1>2
  <2> QED BY <2>1 DEF Turned
<1>4. ASSUME NEW x \in moved
      PROVE  pco'[x].st = "live" /\ pco'[x].raw.uat = pco[x].raw.uat /\ pco'[x].raw.owner = b
  <2>1. pco'[x] = [st |-> pco[x].st, raw |-> Under(pco[x].raw, b)]
    BY <1>1, <1>2
  <2> QED BY <1>2, <2>1 DEF Under
<1>5. ASSUME NEW x \in lost PROVE pco'[x].st = "gone" /\ pco'[x].raw = pco[x].raw
  <2>1. pco'[x] = Turned(pco[x], "gone")
    BY <1>1, <1>2
  <2> QED BY <2>1 DEF Turned
<1>6. ASSUME NEW x \in Ids, x # a, x \notin moved, x \notin lost PROVE pco'[x] = pco[x]
  BY <1>1, <1>6
<1>7. \A o \in Owners : pco'[o].raw = pco[o].raw /\ (o # a => pco'[o].st = pco[o].st)
  BY <1>2, <1>3, <1>6
<1>8. ASSUME NEW c \in Children
      PROVE  /\ pco'[c].st # "merged" /\ pco'[c].raw.owner \in Owners
             /\ pco'[c].st = "live" => pco'[pco'[c].raw.owner].st = "live"
             /\ \A o \in Owners : OwnerOf(o, c, pco) => OwnerOf(o, c, pco')
  <2>1. /\ pco[c].st # "merged" /\ pco[c].raw.owner \in Owners
        /\ pco[c].st = "live" => pco[pco[c].raw.owner].st = "live"
    BY DEF Family
  <2>2. CASE c \in moved
    BY <1>1, <1>2, <1>3, <1>4, <1>7, <2>1, <2>2 DEF OwnerOf
  <2>3. CASE c \in lost
    BY <1>1, <1>2, <1>3, <1>5, <1>7, <2>1, <2>3 DEF OwnerOf
  <2>4. CASE c \notin moved /\ c \notin lost
    <3>1. pco'[c] = pco[c] /\ (pco[c].st = "live" => pco[c].raw.owner # a)
      BY <1>2, <1>6, <2>4
    <3> QED BY <1>1, <1>3, <1>7, <2>1, <3>1 DEF OwnerOf
  <2> QED BY <2>2, <2>3, <2>4
<1>9. Family(pco') /\ \A o \in Owners, c \in Children : OwnerOf(o, c, pco) => OwnerOf(o, c, pco')
  BY <1>8 DEF Family
<1>10. ASSUME NEW f \in sent'
       PROVE  f \in sent \/ (f.kind = "update" /\ f.id \in Children
                             => f.raw.owner = pco'[f.id].raw.owner)
  <2>1. CASE f \in sent \/ f = Merged(a, b) \/ \E c \in lost : f = Destroyed(c, pco[c].raw.uat)
    BY <2>1 DEF Merged, Destroyed
  <2>2. ASSUME NEW c \in moved, f = Update(c, Under(pco[c].raw, b), pco[c].raw.rels)
        PROVE  f.id = c /\ f.raw.owner = b
    BY <2>2 DEF Update, Seen, Under
  <2> QED BY <1>1, <1>4, <2>1, <2>2
<1>11. Says(sent', "merged", a)
  <2>1. Merged(a, b) \in sent' /\ Merged(a, b).kind = "merged" /\ Merged(a, b).id = a
    BY <1>1 DEF Merged
  <2> QED BY <2>1 DEF Says
<1>12. ASSUME NEW x \in lost PROVE Says(sent', "destroyed", x)
  <2> DEFINE f == Destroyed(x, pco[x].raw.uat)
  <2>1. f \in sent'
    BY <1>1
  <2>2. f.kind = "destroyed" /\ f.id = x
    BY DEF Destroyed
  <2> HIDE DEF f
  <2> QED BY <2>1, <2>2 DEF Says
<1>13. ASSUME NEW x \in Ids
       PROVE  /\ pco'[x].st # "unborn"
              /\ pco[x].st = "gone" => pco'[x].st = "gone"
              /\ pco'[x].st = "gone" => pco[x].st = "gone" \/ Says(sent', "destroyed", x)
              /\ pco'[x].st = "merged" => pco[x].st = "merged" \/ Says(sent', "merged", x)
              /\ pco'[x].raw.uat = pco[x].raw.uat
  <2>1. pco[x].st # "unborn"
    BY DEF Kept
  <2>2. CASE x = a
    BY <1>1, <1>3, <1>11, <2>2
  <2>3. CASE x \in moved
    BY <1>2, <1>4, <2>3
  <2>4. CASE x \in lost
    BY <1>2, <1>5, <1>12, <2>4
  <2>5. CASE x # a /\ x \notin moved /\ x \notin lost
    BY <1>6, <2>1, <2>5
  <2> QED BY <2>2, <2>3, <2>4, <2>5
<1> QED BY <1>9, <1>10, <1>13 DEF PcoKeeps

LEMMA StepKeeps ==
  ASSUME Converging, TypeOK, Family(pco), Kept, PcoStep PROVE PcoKeeps
<1>1. \A id \in Ids, t \in Time, rels \in RelSets : ~ PcoCreate(id, t, rels)
  BY DEF PcoCreate, Kept
<1>2. \A id \in Ids, rels \in RelSets : ~ PcoRestore(id, rels) /\ ~ PcoAnswer(id, rels)
  BY DEF PcoRestore, PcoAnswer, Converging
<1>3. ChildEvents
  BY DEF Converging
<1> QED BY <1>1, <1>2, <1>3, EditKeeps, DestroyKeeps, MergeKeeps DEF PcoStep

LEMMA AgreementPcoStep ==
  ASSUME Converging, AgreementInv, PcoStep PROVE AgreementInv'
<1> USE DEF AgreementInv
<1>1. History' /\ TypeOK
  BY HistoryPcoStep DEF History
<1>2. PcoKeeps /\ UNCHANGED <<seen, mirror, crossed>> /\ sent \subseteq sent'
  BY <1>1, StepKeeps, PcoStepType
<1>3. Family(pco)'
  BY <1>2 DEF PcoKeeps, Family
<1>4. ASSUME NEW c \in Children PROVE OwnerOf(mirror[c].raw.owner, c, pco)'
  <2>1. OwnerOf(mirror[c].raw.owner, c, pco)
    BY DEF Named
  <2>2. OwnerOf(mirror[c].raw.owner, c, pco')
    BY <1>2, <2>1 DEF PcoKeeps, OwnerOf
  <2> QED BY <1>2, <2>2 DEF OwnerOf
<1>5. ASSUME NEW f \in sent', f.kind = "update", f.id \in Children
      PROVE  OwnerOf(f.raw.owner, f.id, pco')
  <2>1. CASE f \in sent
    <3>1. OwnerOf(f.raw.owner, f.id, pco)
      BY <1>5, <2>1 DEF Named
    <3> QED BY <1>2, <1>5, <3>1 DEF PcoKeeps, OwnerOf
  <2>2. CASE f \notin sent
    BY <1>2, <1>5, <2>2 DEF PcoKeeps, OwnerOf, Family
  <2> QED BY <2>1, <2>2
<1>6. Named'
  BY <1>4, <1>5 DEF Named, OwnerOf
<1>7. Kept'
  BY <1>2 DEF Kept, PcoKeeps
<1>8. \A kind, id : Says(sent, kind, id) => Says(sent', kind, id)
  BY <1>2 DEF Says
<1>9. \A id, t : Dates(sent, id, t) => Dates(sent', id, t)
  BY <1>2 DEF Dates
<1>10. ASSUME NEW id \in Ids
       PROVE  /\ pco'[id].st = "gone" => Says(sent', "destroyed", id)
              /\ pco'[id].st = "merged" => Says(sent', "merged", id)
              /\ \/ mirror'[id].raw.uat = pco'[id].raw.uat
                 \/ Dates(sent', id, pco'[id].raw.uat)
  BY <1>2, <1>8, <1>9 DEF Told, PcoKeeps
<1>11. Told'
  BY <1>10 DEF Told
<1>12. Heeded'
  BY <1>2 DEF Heeded
<1> QED BY <1>1, <1>3, <1>6, <1>7, <1>11, <1>12
-----------------------------------------------------------------------------
(* What a call does to the row it names, when what it was told is true. *)
LEMMA OwnRowHeeds ==
  ASSUME NEW row \in Row, row.why \in Standings, NEW f \in Fact, f.kind \in RepeatedKinds,
         NEW top \in Time, row.raw.uat <= top,
         f.kind = "update" => f.raw.uat <= top,
         f.kind = "destroyed" => Carried(f) \in {NoTime, top},
         f.id \in Untimed => top = NoTime
  PROVE  LET new == OwnRow(row, f)
         IN  /\ new.why \in Standings
             /\ new.why = "owner_deleted" => row.why = "owner_deleted"
             /\ f.kind = "destroyed" => new.why = "destroyed"
             /\ f.kind = "merged" => new.why = "merged"
             /\ f.kind = "update" => new.raw.uat >= f.raw.uat
             /\ new.raw = row.raw \/ (f.kind = "update" /\ new.raw = f.raw)
<1>0. /\ f.raw.uat \in Nat /\ row.raw.uat \in Nat /\ top \in Nat
      /\ f.kind \in {"update", "destroyed", "merged"} /\ row.why # "none"
  BY TimeFacts DEF Fact, Row, Payload, RepeatedKinds, Standings
<1>1. CASE f.kind = "update" /\ f.id \in Untimed
  BY <1>0, <1>1 DEF OwnRow, Holding, Standings, NoTime
<1>2. CASE f.kind = "update" /\ f.id \notin Untimed
  <2>1. CASE f.raw.uat = NoTime
    BY <1>0, <1>2, <2>1 DEF OwnRow, NoTime
  <2>2. CASE f.raw.uat # NoTime
    <3>1. OwnRow(row, f) = Upserted(row, f.raw)
      BY <1>0, <1>2, <2>2 DEF OwnRow
    <3>2. /\ Upserted(row, f.raw).why \in {"live", row.why}
          /\ Upserted(row, f.raw).raw = IF Wins(row.raw, f.raw) THEN f.raw ELSE row.raw
      BY DEF Upserted, Lifted, Holding
    <3>3. ~ Wins(row.raw, f.raw) => row.raw.uat >= f.raw.uat
      BY <1>0 DEF Wins
    <3> QED BY <1>0, <1>2, <3>1, <3>2, <3>3 DEF Standings
  <2> QED BY <2>1, <2>2
<1>3. CASE f.kind = "destroyed"
  <2>1. Buries(row, Carried(f), "destroyed")
    BY <1>0, <1>3 DEF Buries, Coalesce, NoTime
  <2> QED BY <1>0, <1>3, <2>1 DEF OwnRow, Buried, Standings
<1>4. CASE f.kind = "merged"
  BY <1>0, <1>4 DEF OwnRow, Buries, Buried, Standings
<1> QED BY <1>0, <1>1, <1>2, <1>3, <1>4

(* A row other than the one named is buried for its owner's sake alone,    *)
(* and only by the owner's destruction.                                    *)
LEMMA CascadedRow ==
  ASSUME NEW m \in Mirrors, NEW o \in Ids, NEW id \in Ids, Cascade(m, o)[id] # m[id]
  PROVE  id \in Children /\ m[id].raw.owner = o
  BY DEF Cascade, OwnedBy

LEMMA BuriedForOwner ==
  ASSUME NEW m \in Mirrors, NEW f \in Fact, f.kind \in RepeatedKinds, NEW id \in Ids,
         id # f.id, Applied(m, f)[id].why = "owner_deleted", m[id].why # "owner_deleted"
  PROVE  f.kind = "destroyed" /\ id \in Children /\ m[id].raw.owner = f.id
<1>0. f.id \in Ids /\ f.raw \in Payload /\ f.raw.uat \in Time
  BY DEF Fact, Payload
<1>1. f.kind \in {"update", "destroyed", "merged"}
  BY DEF RepeatedKinds
<1>2. f.kind # "update"
  BY UpdateRow
<1>3. f.kind # "merged"
  <2>1. SUFFICES ASSUME f.kind = "merged" PROVE FALSE
    OBVIOUS
  <2>2. Applied(m, f) = Tombstone(m, f.id, NoTime, "merged", f.into)
    BY <2>1 DEF Applied
  <2>3. Tombstone(m, f.id, NoTime, "merged", f.into)[id] = m[id]
    BY <1>0 DEF Tombstone, Gone, Mirrors
  <2> QED BY <2>2, <2>3
<1>4. f.kind = "destroyed"
  BY <1>1, <1>2, <1>3
<1> DEFINE grave == Buried(m[f.id], "destroyed", Coalesce(Carried(f), m[f.id].raw.uat), m[f.id].into)
           w == IF Known(m, f.id) /\ Buries(m[f.id], Carried(f), "destroyed")
                THEN [m EXCEPT ![f.id] = grave] ELSE m
<1>5. Applied(m, f) = Cascade(w, f.id)
  BY <1>4 DEF Applied, Tombstone, Gone
<1>6. grave \in Row
  BY <1>0, TimeFacts DEF Mirrors, Buried, Coalesce, Carried, Row, Why, Payload, Reasons, Gone
<1>7. w \in Mirrors /\ w[id] = m[id]
  BY <1>6 DEF Mirrors
<1> HIDE DEF w
<1> QED BY <1>0, <1>4, <1>5, <1>7, CascadedRow

LEMMA AgreementMirrorStep ==
  ASSUME Converging, AgreementInv, MirrorStep PROVE AgreementInv'
<1> USE DEF AgreementInv
<1>1. History' /\ TypeOK /\ History
  BY HistoryMirrorStep DEF History
<1> PICK f \in sent : Deliver(f) \/ Receive(f)
  BY DEF MirrorStep
<1>2. f \in Fact /\ mirror \in Mirrors /\ f.kind \in RepeatedKinds
  BY <1>1, WriterAssumption DEF TypeOK, Mirrors, History, Asked, Fact, RepeatedKinds, Converging
<1>3. /\ mirror' = Applied(mirror, f) /\ seen' = seen \cup {f}
      /\ UNCHANGED <<clock, pco, sent>>
      /\ \A id \in Ids : id # f.id \/ f.kind # "destroyed" => crossed'[id] = crossed[id]
  BY <1>1, <1>2 DEF Deliver, Receive, TypeOK
<1>4. f.id \in Ids
  BY <1>2 DEF Fact
<1>5. ASSUME NEW id \in Ids
      PROVE  mirror[id] \in Row /\ mirror[id].raw.uat \in Nat /\ pco[id].raw.uat \in Time
             /\ mirror[id].raw.uat <= pco[id].raw.uat /\ pco[id].raw.uat \in Nat
             /\ mirror[id].why \in Standings
  BY <1>1, TimeFacts DEF TypeOK, Row, Record, Payload, History, Behind, Kept
<1>6. ASSUME NEW id \in Ids, id # f.id
      PROVE  /\ mirror'[id].raw = mirror[id].raw
             /\ mirror[id].why \in {"destroyed", "merged"} => mirror'[id].why = mirror[id].why
             /\ mirror'[id].why \in {mirror[id].why, "live", "owner_deleted"}
  <2>1. \/ mirror'[id] = mirror[id]
        \/ mirror[id].why = "owner_deleted" /\ mirror'[id] = Lifted(mirror[id])
        \/ /\ mirror[id].why = "live"
           /\ mirror'[id] = Buried(mirror[id], "owner_deleted", mirror[id].raw.uat, mirror[id].into)
    BY <1>2, <1>3, <1>6, AppliedRow
  <2> QED BY <2>1 DEF Lifted, Buried
<1>7. LET new == mirror'[f.id]
      IN  /\ new.why \in Standings
          /\ new.why = "owner_deleted" => mirror[f.id].why = "owner_deleted"
          /\ f.kind = "destroyed" => new.why = "destroyed"
          /\ f.kind = "merged" => new.why = "merged"
          /\ f.kind = "update" => new.raw.uat >= f.raw.uat
          /\ new.raw = mirror[f.id].raw \/ (f.kind = "update" /\ new.raw = f.raw)
  <2>1. mirror'[f.id] = OwnRow(mirror[f.id], f)
    BY <1>2, <1>3, <1>4, AppliedRow
  <2>2. /\ f.kind = "update" => f.raw.uat <= pco[f.id].raw.uat
        /\ f.kind = "destroyed" => Carried(f) \in {NoTime, pco[f.id].raw.uat}
        /\ f.id \in Untimed => pco[f.id].raw.uat = NoTime
    BY <1>1, <1>4 DEF History, Behind, LastWords, Dated, Versions, Converging, Carried
  <2> HIDE DEF AgreementInv
  <2> QED BY <1>2, <1>4, <1>5, <2>1, <2>2, OwnRowHeeds
<1>8. Family(pco)'
  BY <1>3 DEF Family
<1>9. ASSUME NEW c \in Children PROVE OwnerOf(mirror'[c].raw.owner, c, pco)
  <2>1. OwnerOf(mirror[c].raw.owner, c, pco) /\ c \in Ids
    BY DEF Named, Ids
  <2>2. f.kind = "update" /\ f.id = c => OwnerOf(f.raw.owner, c, pco)
    BY DEF Named
  <2>3. \/ mirror'[c].raw = mirror[c].raw
        \/ f.kind = "update" /\ f.id = c /\ mirror'[c].raw = f.raw
    BY <1>6, <1>7, <2>1
  <2> QED BY <2>1, <2>2, <2>3
<1>10. Named'
  BY <1>3, <1>9 DEF Named, OwnerOf
<1>11. ASSUME NEW id \in Ids, mirror'[id].why = "owner_deleted" PROVE pco[id].st = "gone"
  <2>1. CASE mirror[id].why = "owner_deleted"
    BY <2>1 DEF Kept
  <2>2. CASE mirror[id].why # "owner_deleted"
    <3>1. id # f.id
      BY <1>7, <1>11, <2>2
    <3>2. f.kind = "destroyed" /\ id \in Children /\ mirror[id].raw.owner = f.id
      BY <1>2, <1>3, <1>11, <2>2, <3>1, BuriedForOwner
    <3>3. pco[f.id].st = "gone"
      BY <1>1, <3>2 DEF History, LastWords, Converging
    <3>4. pco[id].raw.owner = f.id
      BY <3>2, <3>3 DEF Named, OwnerOf
    <3>5. pco[id].st # "live" /\ pco[id].st # "merged"
      BY <3>2, <3>3, <3>4 DEF Family
    <3> QED BY <1>1, <3>5 DEF Kept, TypeOK, Record
  <2> QED BY <2>1, <2>2
<1>12. Kept'
  <2>1. \A id \in Ids : mirror'[id].why \in Standings
    BY <1>5, <1>6, <1>7 DEF Standings
  <2> QED BY <1>3, <1>11, <2>1 DEF Kept
<1>13. Stays(mirror[f.id], mirror'[f.id])
  BY <1>1, <1>4, WriterAssumption, StepMonotone DEF Next, Converging
<1>14. \A id \in Ids : mirror'[id].raw.uat \in Nat /\ mirror'[id].raw.uat <= pco[id].raw.uat
  BY <1>1, <1>3, TimeFacts DEF History, TypeOK, Row, Payload, Behind
<1>15. \A id \in Ids : mirror'[id].raw.uat >= mirror[id].raw.uat
  BY <1>4, <1>5, <1>6, <1>13 DEF Stays, Standings
<1>16. Told'
  <2>1. \A id \in Ids : mirror[id].raw.uat = pco[id].raw.uat => mirror'[id].raw.uat = pco[id].raw.uat
    BY <1>5, <1>14, <1>15
  <2> QED BY <1>3, <2>1 DEF Told, Says, Dates
<1>17. ASSUME NEW g \in seen'
       PROVE  /\ g.kind = "destroyed" => mirror'[g.id].why = "destroyed" \/ crossed'[g.id] # "no"
              /\ g.kind = "merged" => mirror'[g.id].why = "merged"
              /\ g.kind = "update" => mirror'[g.id].raw.uat >= g.raw.uat
  <2>1. CASE g = f
    BY <1>7, <2>1
  <2>2. CASE g # f
    <3>1. g \in seen /\ g \in Fact /\ g.id \in Ids /\ g.raw.uat \in Nat
      BY <1>1, <1>3, <2>2, TimeFacts DEF TypeOK, Fact, Payload
    <3>2. /\ g.kind = "destroyed" => mirror[g.id].why = "destroyed" \/ crossed[g.id] # "no"
          /\ g.kind = "merged" => mirror[g.id].why = "merged"
          /\ g.kind = "update" => mirror[g.id].raw.uat >= g.raw.uat
      BY <3>1 DEF Heeded
    <3>3. CASE g.id = f.id /\ f.kind = "destroyed"
      <4>1. pco[g.id].st = "gone"
        BY <1>1, <3>3 DEF History, LastWords, Converging
      <4>2. g.kind # "merged"
        BY <1>1, <1>2, <3>1, <4>1 DEF History, LastWords, Converging, TypeOK
      <4> QED BY <1>5, <1>7, <1>14, <1>15, <3>1, <3>2, <3>3, <4>2
    <3>4. CASE ~ (g.id = f.id /\ f.kind = "destroyed")
      <4>1. crossed'[g.id] = crossed[g.id]
        BY <1>3, <3>1, <3>4
      <4>2. /\ mirror[g.id].why = "destroyed" /\ crossed[g.id] = "no" => mirror'[g.id].why = "destroyed"
            /\ mirror[g.id].why = "merged" => mirror'[g.id].why = "merged"
        BY <1>1, <3>1, StepSticks, MergesStick DEF Next, Converging
      <4> QED BY <1>5, <1>14, <1>15, <3>1, <3>2, <4>1, <4>2
    <3> QED BY <3>3, <3>4
  <2> QED BY <2>1, <2>2
<1>18. Heeded'
  BY <1>17 DEF Heeded
<1> QED BY <1>1, <1>8, <1>10, <1>12, <1>16, <1>18

LEMMA AgreementInit == Converging /\ Init => AgreementInv
<1> SUFFICES ASSUME Converging, Init PROVE AgreementInv
  OBVIOUS
<1>1. History /\ sent = {} /\ seen = {}
  BY HistoryInit DEF Init
<1>2. PICK owner \in [Children -> Owners], rels \in [Ids -> RelSets] :
        LET raw(id) == [uat |-> Stamp(id, 1), rels |-> rels[id],
                        owner |-> IF id \in Children THEN owner[id] ELSE Nobody]
        IN  /\ pco = [id \in Ids |-> [st |-> IF id \in Backfilled THEN "live"
                                            ELSE "unborn", raw |-> raw(id)]]
            /\ mirror = [id \in Ids |-> IF id \in Backfilled
                                        THEN Inserted(raw(id)) ELSE NoRow]
  BY DEF Init
<1>3. \A id \in Ids : /\ pco[id].st = "live" /\ mirror[id].why = "live"
                      /\ mirror[id].raw = pco[id].raw
                      /\ id \in Children => pco[id].raw.owner = owner[id]
  BY <1>2 DEF Inserted, Converging
<1>4. Owners \subseteq Ids /\ Children \subseteq Ids
  BY DEF Ids
<1>5. Family(pco) /\ Named
  BY <1>1, <1>3, <1>4 DEF Family, Named, OwnerOf
<1>6. Kept /\ Told /\ Heeded
  BY <1>1, <1>3 DEF Kept, Told, Heeded, Standings
<1> QED BY <1>1, <1>5, <1>6 DEF AgreementInv

LEMMA AgreementNext == Converging /\ AgreementInv /\ [Next]_vars => AgreementInv'
<1> SUFFICES ASSUME Converging, AgreementInv, [Next]_vars PROVE AgreementInv'
  OBVIOUS
<1>1. CASE UNCHANGED vars
  <2>1. History'
    BY HistoryNext DEF AgreementInv
  <2> QED BY <1>1, <2>1 DEF vars, AgreementInv, Family, Named, OwnerOf, Kept, Told, Says, Dates, Heeded
<1> QED BY <1>1, AgreementPcoStep, AgreementMirrorStep DEF Next

(* What PCO has is alive in the mirror at all times, whatever is still on  *)
(* its way.                                                                *)
LEMMA LivesOn ==
  ASSUME AgreementInv, Converging, NEW id \in Ids, pco[id].st = "live"
  PROVE  Live(mirror, id)
<1>1. mirror[id].why # "destroyed" /\ mirror[id].why # "merged"
  BY DEF AgreementInv, History, Graves, Converging
<1> QED BY <1>1 DEF AgreementInv, Kept, Standings, Live

(* Once everything that was said has been applied, in whatever order and   *)
(* however often, a row is alive exactly if PCO's record is, and holds its *)
(* latest version, unless its destroyed webhook crossed an older version;  *)
(* whether destroys carry an updated_at or not.                            *)
THEOREM MirrorAgrees == Converging => (Spec => []Agreement)
<1>1. ASSUME Converging, AgreementInv PROVE Agreement
  <2> USE <1>1 DEF AgreementInv
  <2> SUFFICES ASSUME Settled, NEW id \in Ids, crossed[id] = "no"
               PROVE  /\ Live(mirror, id) <=> pco[id].st = "live"
                      /\ Live(mirror, id) => mirror[id].raw.uat = pco[id].raw.uat
    BY DEF Agreement
  <2>1. pco[id].st = "live" \/ ~ Live(mirror, id)
    <3>1. pco[id].st \in {"live", "gone", "merged"}
      BY DEF Kept, History, TypeOK, Record
    <3>2. ASSUME NEW kind \in {"destroyed", "merged"}, Says(sent, kind, id)
          PROVE  ~ Live(mirror, id)
      BY <3>2 DEF Says, Settled, Heeded, Live
    <3> QED BY <3>1, <3>2 DEF Told
  <2>2. mirror[id].raw.uat = pco[id].raw.uat
    <3>1. /\ mirror[id].raw.uat <= pco[id].raw.uat
          /\ mirror[id].raw.uat \in Nat /\ pco[id].raw.uat \in Nat
      BY TimeFacts DEF History, Behind, TypeOK, Row, Record, Payload
    <3>2. Dates(sent, id, pco[id].raw.uat) => mirror[id].raw.uat >= pco[id].raw.uat
      BY DEF Dates, Settled, Heeded
    <3> QED BY <3>1, <3>2 DEF Told
  <2> QED BY <2>1, <2>2, LivesOn
<1>2. Converging /\ AgreementInv /\ [Next]_vars => AgreementInv'
  BY AgreementNext
<1>3. Converging /\ Init => AgreementInv
  BY AgreementInit
<1>4. Converging => (AgreementInv => Agreement)
  BY <1>1
<1>5. SUFFICES ASSUME Converging PROVE Spec => []Agreement
  OBVIOUS
<1>6. /\ Init => AgreementInv
      /\ AgreementInv /\ [Next]_vars => AgreementInv'
      /\ AgreementInv => Agreement
  BY <1>2, <1>3, <1>4, <1>5
<1> QED BY <1>6, PTL DEF Spec

-----------------------------------------------------------------------------
(***************************************************************************)
(* Where nobody is merged a child's owner is the one it was born with, and *)
(* what the owner's row says of it follows: the cascade and its undoing    *)
(* never come apart, in whatever order answers, destroys and updates are   *)
(* applied.                                                                *)
(***************************************************************************)

(* Everything is mirrored when the behaviour starts, and no child ever     *)
(* changes hands.                                                          *)
FixedFamilies == Backfilled = Ids /\ Mergeable = {}

Parented ==
  /\ \A id \in Ids : mirror[id].why # "none"
  /\ \A c \in Children : pco[c].raw.owner \in Owners /\ mirror[c].raw.owner = pco[c].raw.owner
  /\ \A f \in sent : /\ f.kind # "merged"
                     /\ f.kind \in Versions /\ f.id \in Children
                          => f.raw.owner = pco[f.id].raw.owner

(* A call is the rewriting of the row it names, followed by a cascade or   *)
(* the undoing of one.                                                     *)
Rewritten(m, f) == [m EXCEPT ![f.id] = OwnRow(m[f.id], f)]

LEMMA CallShape ==
  ASSUME NEW m \in Mirrors, NEW f \in Fact
  PROVE  /\ f.kind = "update" =>
              \/ /\ Applied(m, f) = Rewritten(m, f)
                 /\ f.id \in Untimed \/ Rewritten(m, f)[f.id] = m[f.id]
              \/ Applied(m, f) = Uncascade(Rewritten(m, f), f.id) /\ f.id \notin Untimed
         /\ f.kind = "live" => Applied(m, f) = Uncascade(Rewritten(m, f), f.id)
         /\ f.kind \in {"destroyed", "absent"} =>
              Applied(m, f) = Cascade(Rewritten(m, f), f.id)
<1> DEFINE w == Rewritten(m, f)
<1>7. w = [m EXCEPT ![f.id] = OwnRow(m[f.id], f)]
  BY DEF Rewritten
<1> HIDE DEF w
<1> USE <1>7
<1>0. f.id \in Ids /\ f.raw \in Payload /\ m[f.id] \in Row /\ DOMAIN m = Ids
  BY DEF Fact, Mirrors
<1>1. ASSUME NEW row, row = m[f.id] PROVE m = [m EXCEPT ![f.id] = row]
  BY <1>0, <1>1 DEF Mirrors
<1>2. CASE f.kind = "update"
  <2>1. Applied(m, f) =
          IF f.id \in Untimed THEN UpsertUntimed(m, f.id, f.raw)
          ELSE IF f.raw.uat = NoTime THEN m ELSE Upsert(m, f.id, f.raw)
    BY <1>0, <1>2, UnhintedRaw DEF Applied, Route
  <2>2. CASE f.id \in Untimed
    <3>1. OwnRow(m[f.id], f) = IF ~ Known(m, f.id) THEN Inserted(f.raw)
                               ELSE IF Live(m, f.id) THEN Holding(m[f.id], f.raw)
                               ELSE m[f.id]
      BY <1>2, <2>2 DEF OwnRow, Known, Live
    <3>2. UpsertUntimed(m, f.id, f.raw) = w
      BY <3>1 DEF UpsertUntimed
    <3> QED BY <1>2, <2>1, <2>2, <3>2 DEF w
  <2>3. CASE f.id \notin Untimed /\ f.raw.uat = NoTime
    <3>1. OwnRow(m[f.id], f) = m[f.id]
      BY <1>2, <2>3 DEF OwnRow
    <3>2. w = m
      BY <1>1, <3>1
    <3> QED BY <1>2, <2>1, <2>3, <3>2 DEF w
  <2>4. CASE f.id \notin Untimed /\ f.raw.uat # NoTime
    <3>1. OwnRow(m[f.id], f) = IF Known(m, f.id) THEN Upserted(m[f.id], f.raw)
                               ELSE Inserted(f.raw)
      BY <1>2, <2>4 DEF OwnRow, Known
    <3>2. Upsert(m, f.id, f.raw) = Uncascade(w, f.id)
      BY <3>1 DEF Upsert
    <3> QED BY <1>2, <2>1, <2>4, <3>2 DEF w
  <2> QED BY <2>2, <2>3, <2>4
<1>3. CASE f.kind = "live"
  <2>1. OwnRow(m[f.id], f) = Inserted(f.raw)
    BY <1>3 DEF OwnRow
  <2> QED BY <1>3, <2>1 DEF Applied, ConfirmLive, w
<1>4. CASE f.kind \in {"destroyed", "absent"}
  <2> DEFINE uat == IF f.kind = "destroyed" THEN Carried(f) ELSE NoTime
             why == IF f.kind = "destroyed" THEN "destroyed" ELSE "audit_absent"
             grave == Buried(m[f.id], why, Coalesce(uat, m[f.id].raw.uat), m[f.id].into)
  <2>1. Applied(m, f) = Tombstone(m, f.id, uat, why, Nobody)
    BY <1>4 DEF Applied
  <2>2. why \in Gone
    BY <1>4 DEF Gone
  <2>3. OwnRow(m[f.id], f) = IF Known(m, f.id) /\ Buries(m[f.id], uat, why) THEN grave ELSE m[f.id]
    BY <1>4 DEF OwnRow, Known
  <2>4. w = IF Known(m, f.id) /\ Buries(m[f.id], uat, why) THEN [m EXCEPT ![f.id] = grave] ELSE m
    BY <1>1, <2>3
  <2>5. Tombstone(m, f.id, uat, why, Nobody) =
          Cascade(IF Known(m, f.id) /\ Buries(m[f.id], uat, why)
                  THEN [m EXCEPT ![f.id] = grave] ELSE m, f.id)
    <3> HIDE DEF uat, why
    <3> QED BY <2>2 DEF Tombstone, grave
  <2> HIDE DEF uat, why, grave
  <2> QED BY <1>4, <2>1, <2>4, <2>5 DEF w
<1> QED BY <1>2, <1>3, <1>4 DEF w

LEMMA ParentedInit == FixedFamilies /\ Init => Parented /\ OrphansTrackOwner
<1> SUFFICES ASSUME FixedFamilies, Init PROVE Parented /\ OrphansTrackOwner
  OBVIOUS
<1>1. PICK owner \in [Children -> Owners], rels \in [Ids -> RelSets] :
        LET raw(id) == [uat |-> Stamp(id, 1), rels |-> rels[id],
                        owner |-> IF id \in Children THEN owner[id] ELSE Nobody]
        IN  /\ pco = [id \in Ids |-> [st |-> IF id \in Backfilled THEN "live"
                                            ELSE "unborn", raw |-> raw(id)]]
            /\ mirror = [id \in Ids |-> IF id \in Backfilled
                                        THEN Inserted(raw(id)) ELSE NoRow]
  BY DEF Init
<1>2. \A id \in Ids : /\ mirror[id].why = "live" /\ mirror[id].raw = pco[id].raw
                      /\ id \in Children => pco[id].raw.owner = owner[id]
  BY <1>1 DEF Inserted, FixedFamilies
<1>3. Children \subseteq Ids /\ sent = {}
  BY DEF Ids, Init
<1> QED BY <1>2, <1>3 DEF Parented, OrphansTrackOwner

LEMMA ParentedPcoStep ==
  ASSUME FixedFamilies, TypeOK, Parented, PcoStep
  PROVE  Parented' /\ mirror' = mirror
<1> USE DEF Parented
<1>0. /\ mirror' = mirror /\ \A id \in Ids : pco[id] \in Record
      /\ Owners \subseteq Ids /\ Children \subseteq Ids
  BY PcoStepType DEF TypeOK, Ids
<1>1. ASSUME NEW id \in Ids, NEW raw, raw.owner = pco[id].raw.owner, NEW f,
             pco' = [pco EXCEPT ![id] = [st |-> "live", raw |-> raw]],
             sent' = sent \cup {f}, f.id = id, f.kind = "update", f.raw.owner = raw.owner
      PROVE  Parented'
  <2>1. \A x \in Ids : pco'[x].raw.owner = pco[x].raw.owner
    BY <1>1 DEF TypeOK
  <2>2. \A g \in sent : g.id \in Ids
    BY DEF TypeOK, Fact
  <2> QED BY <1>0, <1>1, <2>1, <2>2
<1>2. ASSUME NEW id \in Ids, NEW t \in Time, NEW rels \in RelSets,
             PcoCreate(id, t, rels) \/ PcoEdit(id, t, rels)
      PROVE  Parented'
  <2> DEFINE raw == At(pco[id].raw, Stamp(id, t))
             f == Update(id, raw, rels)
  <2>1. pco' = [pco EXCEPT ![id] = [st |-> "live", raw |-> raw]] /\ sent' = sent \cup {f}
    BY <1>2 DEF PcoCreate, PcoEdit
  <2>2. raw.owner = pco[id].raw.owner /\ f.id = id /\ f.kind = "update" /\ f.raw.owner = raw.owner
    BY DEF At, Update, Seen
  <2> HIDE DEF raw, f
  <2> QED BY <1>1, <2>1, <2>2
<1>3. ASSUME NEW id \in Ids, PcoDestroy(id) PROVE Parented'
  <2>1. \A x \in Ids : pco'[x].raw = pco[x].raw
    BY <1>3 DEF PcoDestroy, Turned
  <2>2. \A g \in sent' : g \in sent \/ g.kind = "destroyed"
    BY <1>3 DEF PcoDestroy, Destroyed
  <2>3. \A g \in sent : g.id \in Ids
    BY DEF TypeOK, Fact
  <2> QED BY <1>0, <2>1, <2>2, <2>3 DEF Versions
<1>4. \A a, b \in Owners, moved \in SUBSET Children : ~ PcoMerge(a, b, moved)
  BY DEF PcoMerge, FixedFamilies
<1>5. ASSUME NEW id \in Ids, NEW rels \in RelSets, PcoRestore(id, rels) PROVE Parented'
  <2> DEFINE raw == At(pco[id].raw, clock + 1)
             f == Update(id, raw, rels)
  <2>1. /\ sent' = sent \cup {f}
        /\ pco' = [x \in Ids |->
                     IF x = id THEN [st |-> "live", raw |-> raw]
                     ELSE IF x \in Children /\ pco[x].st = "gone" /\ pco[x].raw.owner = id
                     THEN Turned(pco[x], "live") ELSE pco[x]]
    BY <1>5 DEF PcoRestore
  <2>2. raw.owner = pco[id].raw.owner /\ f.id = id /\ f.kind = "update" /\ f.raw.owner = raw.owner
    BY DEF At, Update, Seen
  <2> HIDE DEF raw, f
  <2>3. \A x \in Ids : pco'[x].raw.owner = pco[x].raw.owner
    BY <2>1, <2>2 DEF Turned
  <2>4. \A g \in sent : g.id \in Ids
    BY DEF TypeOK, Fact
  <2> QED BY <1>0, <2>1, <2>2, <2>3, <2>4
<1>6. ASSUME NEW id \in Ids, NEW rels \in RelSets, PcoAnswer(id, rels) PROVE Parented'
  <2>1. pco' = pco
    BY <1>6 DEF PcoAnswer
  <2>2. \A g \in sent' : g \in sent \/ (g.id = id /\ g.kind # "merged"
                         /\ (g.kind \in Versions => g.raw.owner = pco[id].raw.owner))
    BY <1>6 DEF PcoAnswer, Absent, Live200, Update, Seen, Versions
  <2> QED BY <1>0, <2>1, <2>2
<1> QED BY <1>0, <1>2, <1>3, <1>4, <1>5, <1>6 DEF PcoStep

(* What a call may do to a row's `why' and owner.                          *)
LEMMA OwnRowOwner ==
  ASSUME NEW row \in Row, NEW f \in Fact, row.why # "none"
  PROVE  /\ OwnRow(row, f).why # "none"
         /\ OwnRow(row, f).why = "owner_deleted" => row.why = "owner_deleted"
         /\ f.kind = "update" => OwnRow(row, f).why \in {row.why, "live"}
         /\ f.kind = "live" => OwnRow(row, f).why = "live"
         /\ f.kind \in {"destroyed", "absent"} =>
              OwnRow(row, f) = row \/ OwnRow(row, f).why \in Gone
         /\ f.kind = "absent" \/ (f.kind = "destroyed" /\ (Carried(f) = NoTime \/ Carried(f) >= row.raw.uat))
              => OwnRow(row, f).why \in Gone
         /\ f.kind = "update" /\ f.id \in Untimed => OwnRow(row, f).why = row.why
         /\ OwnRow(row, f).raw = row.raw \/ (f.kind \in Versions /\ OwnRow(row, f).raw = f.raw)
<1>0. /\ f.kind \in {"update", "destroyed", "merged", "live", "absent"}
      /\ f.raw.uat \in Nat /\ row.raw.uat \in Nat /\ Carried(f) \in Nat
  BY TimeFacts DEF Fact, Row, Payload, Carried
<1>1. CASE f.kind = "update" /\ f.id \in Untimed
  BY <1>1 DEF OwnRow, Holding, Versions
<1>2. CASE f.kind = "update" /\ f.id \notin Untimed
  <2>1. OwnRow(row, f) = row \/ OwnRow(row, f) = Upserted(row, f.raw)
    BY <1>2 DEF OwnRow
  <2>2. Upserted(row, f.raw).why \in {"live", row.why}
        /\ Upserted(row, f.raw).raw \in {row.raw, f.raw}
    BY DEF Upserted, Lifted, Holding
  <2> QED BY <1>2, <2>1, <2>2 DEF Versions
<1>3. CASE f.kind = "live"
  BY <1>3 DEF OwnRow, Inserted, Versions
<1>4. CASE f.kind = "destroyed"
  BY <1>0, <1>4 DEF OwnRow, Buried, Gone, Buries, Coalesce, NoTime
<1>5. CASE f.kind = "merged"
  BY <1>5 DEF OwnRow, Buried
<1>6. CASE f.kind = "absent"
  BY <1>0, <1>6 DEF OwnRow, Buried, Gone, Buries, Coalesce, NoTime
<1> QED BY <1>0, <1>1, <1>2, <1>3, <1>4, <1>5, <1>6

(* What one call makes of a child and of its owner.                        *)
LEMMA FamilyCall ==
  ASSUME NEW m \in Mirrors, NEW f \in Fact, f.kind # "merged", NEW c \in Children,
         \A id \in Ids : m[id].why # "none",
         \A x \in Children : m[x].raw.owner \in Owners,
         f.kind \in Versions /\ f.id = c => f.raw.owner = m[c].raw.owner,
         NEW o, o = m[c].raw.owner, NEW new, new = Applied(m, f)
  PROVE  /\ new[c].raw.owner = o /\ new[c].why # "none"
         /\ o # f.id => new[o] = m[o]
         /\ o = f.id => new[o] = OwnRow(m[o], f)
         /\ new[c].why = "owner_deleted" =>
              \/ m[c].why = "owner_deleted"
                 /\ (o = f.id /\ f.kind \in Versions => new[o].why # "live" \/ m[o].why = "live")
              \/ o = f.id /\ f.kind \in {"destroyed", "absent"}
         /\ new[c].why = "live" =>
              \/ m[c].why = "live" /\ ~ (o = f.id /\ f.kind \in {"destroyed", "absent"})
              \/ o = f.id /\ new[o].why = "live"
              \/ c = f.id /\ (f.kind = "live" \/ (f.kind = "update" /\ c \notin Untimed))
<1> DEFINE w == Rewritten(m, f)
<1>0. /\ f.id \in Ids /\ f.raw \in Payload /\ c \in Ids /\ o \in Owners /\ o \in Ids /\ o # c
      /\ o \notin Children /\ m[c] \in Row /\ m[o] \in Row /\ m[f.id] \in Row
      /\ f.kind \in {"update", "destroyed", "live", "absent"} /\ Owners \cap Children = {}
      /\ Owners \subseteq Ids /\ Children \subseteq Ids /\ Untimed \subseteq Children
  BY MirrorAssumption DEF Mirrors, Ids, Fact
<1>1. /\ w[f.id] = OwnRow(m[f.id], f)
      /\ \A x \in Ids : x # f.id => w[x] = m[x]
  BY <1>0 DEF Mirrors, Rewritten
<1>2. /\ \A x \in Ids : w[x].why # "none"
      /\ w[c].raw.owner = o
  BY <1>0, <1>1, OwnRowOwner DEF Versions
<1>3. c \in OwnedBy(w, f.id) <=> f.id = o
  BY <1>2, <1>0 DEF OwnedBy, Known
<1>4. o \notin OwnedBy(w, f.id)
  BY <1>0 DEF OwnedBy
<1> HIDE DEF w
<1>5. ASSUME Applied(m, f) = w, f.kind = "update", f.id \in Untimed \/ w[f.id] = m[f.id]
      PROVE  /\ Applied(m, f)[o] = w[o]
             /\ Applied(m, f)[c].why = m[c].why /\ Applied(m, f)[c].raw.owner = o
             /\ Applied(m, f)[o] = m[o]
  BY <1>0, <1>1, <1>2, <1>5, OwnRowOwner
<1>6. ASSUME Applied(m, f) = Uncascade(w, f.id)
      PROVE  /\ Applied(m, f)[o] = w[o]
             /\ f.id # o => Applied(m, f)[c] = w[c]
             /\ f.id = o => Applied(m, f)[c] = IF w[c].why = "owner_deleted" /\ w[o].why = "live"
                                               THEN Lifted(w[c]) ELSE w[c]
  BY <1>0, <1>3, <1>4, <1>6 DEF Uncascade, Live
<1>7. ASSUME Applied(m, f) = Cascade(w, f.id)
      PROVE  /\ Applied(m, f)[o] = w[o]
             /\ f.id # o => Applied(m, f)[c] = w[c]
             /\ f.id = o => Applied(m, f)[c] = IF w[c].why = "live"
                                  THEN Buried(w[c], "owner_deleted", w[c].raw.uat, w[c].into) ELSE w[c]
  BY <1>0, <1>3, <1>4, <1>7 DEF Cascade, Live
<1>8. ASSUME NEW r PROVE /\ Lifted(r).why = "live" /\ Lifted(r).raw = r.raw
                         /\ \A t, i : Buried(r, "owner_deleted", t, i).why = "owner_deleted"
                                      /\ Buried(r, "owner_deleted", t, i).raw = r.raw
  BY DEF Lifted, Buried
<1>9. CASE f.kind = "update"
  <2>1. CASE Applied(m, f) = w /\ (f.id \in Untimed \/ w[f.id] = m[f.id])
    BY <1>0, <1>1, <1>2, <1>5, <1>9, <2>1, OwnRowOwner
  <2>2. CASE Applied(m, f) = Uncascade(w, f.id) /\ f.id \notin Untimed
    BY <1>0, <1>1, <1>2, <1>6, <1>8, <1>9, <2>2, OwnRowOwner
  <2> QED BY <1>9, <2>1, <2>2, CallShape DEF w
<1>10. CASE f.kind = "live"
  <2>1. Applied(m, f) = Uncascade(w, f.id)
    BY <1>10, CallShape DEF w
  <2> QED BY <1>0, <1>1, <1>2, <1>6, <1>8, <1>10, <2>1, OwnRowOwner
<1>11. CASE f.kind \in {"destroyed", "absent"}
  <2>1. Applied(m, f) = Cascade(w, f.id)
    BY <1>11, CallShape DEF w
  <2>2. CASE f.id = o
    <3>1. w[c] = m[c] /\ new[o] = OwnRow(m[o], f)
      BY <1>0, <1>1, <1>7, <2>1, <2>2
    <3>2. m[c].why = "live" => new[c].why = "owner_deleted" /\ new[c].raw = m[c].raw
      <4> SUFFICES ASSUME m[c].why = "live"
                   PROVE  new[c].why = "owner_deleted" /\ new[c].raw = m[c].raw
        OBVIOUS
      <4>1. Applied(m, f)[c] = Buried(m[c], "owner_deleted", m[c].raw.uat, m[c].into)
        BY <1>7, <2>1, <2>2, <3>1
      <4> QED BY <4>1 DEF Buried
    <3>3. m[c].why # "live" => new[c] = m[c]
      BY <1>7, <2>1, <2>2, <3>1
    <3>4. f.kind \notin Versions
      BY <1>11 DEF Versions
    <3> QED BY <1>0, <1>11, <2>2, <3>1, <3>2, <3>3, <3>4
  <2>3. CASE f.id # o /\ c = f.id
    <3>1. OwnRow(m[c], f) = m[c] \/ OwnRow(m[c], f).why \in Gone
      BY <1>0, <1>11, OwnRowOwner
    <3> QED BY <1>0, <1>1, <1>2, <1>7, <1>11, <2>1, <2>3, <3>1 DEF Gone, Versions
  <2>4. CASE f.id # o /\ c # f.id
    BY <1>0, <1>1, <1>2, <1>7, <1>11, <2>1, <2>4
  <2> QED BY <2>2, <2>3, <2>4
<1> QED BY <1>0, <1>9, <1>10, <1>11

(* A fact handed over: what the steps of the mirror have in common.        *)
LEMMA HandedOver ==
  ASSUME TypeOK, MirrorStep
  PROVE  \E f \in sent : /\ f \in Fact /\ mirror' = Applied(mirror, f)
                         /\ sent' \subseteq sent /\ UNCHANGED <<clock, pco>>
  BY DEF MirrorStep, Deliver, Receive, TypeOK

LEMMA ParentedStep ==
  ASSUME FixedFamilies, History, Parented, [Next]_vars PROVE Parented'
<1>1. CASE PcoStep
  BY <1>1, ParentedPcoStep DEF History
<1>2. CASE UNCHANGED vars
  BY <1>2 DEF vars, Parented
<1>3. CASE MirrorStep
  <2> USE DEF Parented
  <2>1. PICK f \in sent : /\ f \in Fact /\ mirror' = Applied(mirror, f)
                          /\ sent' \subseteq sent /\ UNCHANGED <<clock, pco>>
    BY <1>3, HandedOver DEF History
  <2>2. mirror \in Mirrors /\ Children \subseteq Ids
    BY DEF History, TypeOK, Mirrors, Ids
  <2>3. ASSUME NEW c \in Children
        PROVE  mirror'[c].raw.owner = pco[c].raw.owner
    BY <2>1, <2>2, FamilyCall
  <2>4. ASSUME NEW id \in Ids PROVE mirror'[id].why # "none"
    <3>1. mirror[id] \in Row
      BY <2>2 DEF Mirrors
    <3>2. CASE id = f.id
      BY <2>1, <2>2, <3>1, <3>2, AppliedRow, OwnRowOwner
    <3>3. CASE id # f.id
      <4>1. \/ mirror'[id] = mirror[id] \/ mirror'[id] = Lifted(mirror[id])
            \/ mirror'[id] = Buried(mirror[id], "owner_deleted", mirror[id].raw.uat, mirror[id].into)
        BY <2>1, <2>2, <3>3, AppliedRow
      <4> QED BY <4>1 DEF Lifted, Buried
    <3> QED BY <3>2, <3>3
  <2> QED BY <2>1, <2>2, <2>3, <2>4
<1> QED BY <1>1, <1>2, <1>3 DEF Next

LEMMA OrphansStep ==
  ASSUME FixedFamilies, BareDestroys \/ ~ Restores, History, Parented, OrphansTrackOwner,
         [Next]_vars
  PROVE  OrphansTrackOwner'
<1>1. CASE mirror' = mirror
  BY <1>1 DEF OrphansTrackOwner, Dead
<1>2. CASE MirrorStep
  <2>1. PICK f \in sent : /\ f \in Fact /\ mirror' = Applied(mirror, f)
                          /\ sent' \subseteq sent /\ UNCHANGED <<clock, pco>>
    BY <1>2, HandedOver DEF History
  <2> SUFFICES ASSUME NEW c \in Children, mirror'[c].why = "owner_deleted"
               PROVE  mirror'[mirror'[c].raw.owner].why \notin {"none", "live"}
    BY DEF OrphansTrackOwner, Dead
  <2> DEFINE o == mirror[c].raw.owner
  <2>2. /\ mirror \in Mirrors /\ o \in Owners /\ o \in Ids /\ o \notin Untimed
        /\ mirror[o] \in Row /\ mirror[o].why # "none"
        /\ mirror[c].why = "owner_deleted" => mirror[o].why # "live"
        /\ f.kind \in {"update", "destroyed", "live", "absent"}
    BY <2>1, MirrorAssumption DEF History, TypeOK, Mirrors, Parented, Ids, Fact, OrphansTrackOwner, Dead
  <2>3. /\ mirror'[c].raw.owner = o
        /\ o # f.id => mirror'[o] = mirror[o]
        /\ o = f.id => mirror'[o] = OwnRow(mirror[o], f)
        /\ \/ mirror[c].why = "owner_deleted"
              /\ (o = f.id /\ f.kind \in Versions => mirror'[o].why # "live")
           \/ o = f.id /\ f.kind \in {"destroyed", "absent"}
    BY <2>1, <2>2, FamilyCall DEF Parented
  <2>4. CASE o # f.id
    BY <2>2, <2>3, <2>4
  <2>5. CASE o = f.id /\ f.kind \in Versions
    <3>1. f.kind \notin {"destroyed", "absent"}
      BY <2>5 DEF Versions
    <3>2. OwnRow(mirror[o], f).why # "none"
      BY <2>1, <2>2, OwnRowOwner
    <3> QED BY <2>3, <2>5, <3>1, <3>2
  <2>6. CASE o = f.id /\ f.kind \in {"destroyed", "absent"}
    <3>1. f.kind = "destroyed" => Carried(f) = NoTime \/ Carried(f) >= mirror[o].raw.uat
      <4> SUFFICES ASSUME f.kind = "destroyed", ~ BareDestroys
                   PROVE  f.raw.uat >= mirror[o].raw.uat
        BY DEF Carried
      <4>1. f.raw.uat = pco[o].raw.uat
        BY <2>6 DEF History, LastWords
      <4>2. mirror[o].raw.uat <= pco[o].raw.uat /\ pco[o].raw.uat \in Nat /\ mirror[o].raw.uat \in Nat
        BY <2>2, TimeFacts DEF History, Behind, TypeOK, Row, Record, Payload
      <4> QED BY <4>1, <4>2
    <3> QED BY <2>1, <2>2, <2>3, <2>6, <3>1, OwnRowOwner DEF Gone
  <2> QED BY <2>2, <2>4, <2>5, <2>6 DEF Versions
<1> QED BY <1>1, <1>2, PcoStepType DEF Next, vars, History

(* A child buried for its owner's sake has a buried owner, for every       *)
(* order of webhooks, answers and pages, as long as a destroy that is      *)
(* told of carries no timestamp or nothing comes back.                     *)
THEOREM OrphansHaveBuriedOwners ==
  FixedFamilies /\ (BareDestroys \/ ~ Restores) => (Spec => []OrphansTrackOwner)
<1> SUFFICES ASSUME FixedFamilies, BareDestroys \/ ~ Restores PROVE Spec => []OrphansTrackOwner
  OBVIOUS
<1>1. Init => Parented /\ OrphansTrackOwner
  BY ParentedInit
<1>2. History /\ Parented /\ OrphansTrackOwner /\ [Next]_vars => Parented' /\ OrphansTrackOwner'
  BY ParentedStep, OrphansStep
<1> QED BY <1>1, <1>2, HistoryHolds, PTL DEF Spec

-----------------------------------------------------------------------------
(***************************************************************************)
(* Where records come back.  Whatever brings a record back is newer than   *)
(* everything said of it before: so a destroy that says which version it   *)
(* destroyed finds a newer row when it comes late, and the news that comes *)
(* late finds an older tombstone.  A destroy that does not say it takes a  *)
(* newer row with it; then, and only then, it is marked as come late.      *)
(***************************************************************************)

Returning == Children = {} /\ Answers = {}

Caught(id) == mirror[id].why # "none" /\ mirror[id].raw.uat = pco[id].raw.uat
Taken(id) == BareDestroys /\ crossed[id] = "late"

Beginnings ==
  /\ clock >= 1
  /\ \A id \in Ids : /\ pco[id].raw.uat >= 1
                     /\ mirror[id].why # "none" => pco[id].st # "unborn"
  /\ \A f \in sent : pco[f.id].st # "unborn"

Endings ==
  /\ \A f \in sent :
       /\ f.kind = "destroyed" =>
            /\ 1 <= f.raw.uat /\ f.raw.uat <= pco[f.id].raw.uat
            /\ pco[f.id].st = "live" => f.raw.uat < pco[f.id].raw.uat
       /\ f.kind = "merged" => pco[f.id].st = "merged"
  /\ \A id \in Ids :
       /\ mirror[id].why \in {"none", "live", "destroyed", "merged"}
       /\ mirror[id].why = "destroyed" =>
            /\ mirror[id].tuat <= pco[id].raw.uat
            /\ pco[id].st = "live" => mirror[id].tuat < pco[id].raw.uat \/ Taken(id)
       /\ mirror[id].why = "merged" => pco[id].st = "merged"

News ==
  /\ \A id \in Ids : pco[id].st = "live" =>
       /\ Caught(id) \/ Dates(sent, id, pco[id].raw.uat)
       /\ Caught(id) => mirror[id].why = "live" \/ Taken(id)
  /\ \A f \in seen : /\ f.kind = "update" /\ pco[f.id].st = "live"
                     /\ f.raw.uat = pco[f.id].raw.uat
                     => Caught(f.id)

ReturnInv == History /\ Beginnings /\ Endings /\ News

LEMMA ReturnInit == Returning /\ Init => ReturnInv
<1> SUFFICES ASSUME Returning, Init PROVE ReturnInv
  OBVIOUS
<1>1. History /\ sent = {} /\ seen = {} /\ clock = 1
  BY HistoryInit DEF Init
<1>2. PICK owner \in [Children -> Owners], rels \in [Ids -> RelSets] :
        LET raw(id) == [uat |-> Stamp(id, 1), rels |-> rels[id],
                        owner |-> IF id \in Children THEN owner[id] ELSE Nobody]
        IN  /\ pco = [id \in Ids |-> [st |-> IF id \in Backfilled THEN "live"
                                            ELSE "unborn", raw |-> raw(id)]]
            /\ mirror = [id \in Ids |-> IF id \in Backfilled
                                        THEN Inserted(raw(id)) ELSE NoRow]
  BY DEF Init
<1>3. Untimed = {}
  BY MirrorAssumption DEF Returning
<1>4. \A id \in Ids : /\ pco[id].raw.uat = 1
                      /\ pco[id].st = IF id \in Backfilled THEN "live" ELSE "unborn"
                      /\ mirror[id].why = IF id \in Backfilled THEN "live" ELSE "none"
                      /\ id \in Backfilled => mirror[id].raw.uat = 1
                      /\ id \notin Backfilled => mirror[id].why = "none"
  BY <1>2, <1>3 DEF Inserted, NoRow, Stamp
<1> QED BY <1>1, <1>4 DEF ReturnInv, Beginnings, Endings, News, Caught

(* What a step of PCO makes of its records' lives.                         *)
PcoReturns ==
  /\ clock <= clock'
  /\ \A id \in Ids :
       /\ pco[id].st # "unborn" => pco'[id].st # "unborn"
       /\ pco[id].st = "merged" => pco'[id].st = "merged"
       /\ pco'[id].st = "live" =>
            \/ pco[id].st = "live" /\ pco'[id].raw.uat = pco[id].raw.uat
            \/ /\ pco[id].st = "unborn" \/ pco'[id].raw.uat > pco[id].raw.uat
               /\ Dates(sent', id, pco'[id].raw.uat)
  /\ \A f \in sent' : f \in sent \/ pco'[f.id].st # "unborn"

LEMMA PcoStepReturns ==
  ASSUME Returning, TypeOK, Dated, PcoStep PROVE PcoReturns
<1> USE DEF TypeOK
<1>0. /\ clock \in Nat /\ Untimed = {}
      /\ \A id \in Ids : pco[id] \in Record /\ pco[id].raw.uat \in Nat
      /\ \A id \in Ids : pco[id].raw.uat <= clock
      /\ \A f \in sent : f.id \in Ids
  BY TimeFacts, MirrorAssumption DEF Record, Payload, Dated, Returning, Fact
<1>1. ASSUME NEW id \in Ids, NEW raw, NEW rels, NEW f, f = Update(id, raw, rels),
             raw.uat \in Nat, clock <= clock', clock' \in Nat,
             \/ pco[id].st \in {"live", "unborn"} /\ raw.uat >= pco[id].raw.uat
             \/ pco[id].st = "gone" /\ raw.uat > pco[id].raw.uat,
             pco' = [pco EXCEPT ![id] = [st |-> "live", raw |-> raw]],
             sent' = sent \cup {f}
      PROVE  PcoReturns
  <2>1. f \in sent' /\ f.kind = "update" /\ f.id = id /\ f.raw.uat = raw.uat
    BY <1>1 DEF Update, Seen
  <2>2. pco'[id].st = "live" /\ pco'[id].raw = raw /\ \A x \in Ids : x # id => pco'[x] = pco[x]
    BY <1>1
  <2>3. Dates(sent', id, pco'[id].raw.uat)
    BY <2>1, <2>2 DEF Dates
  <2>4. \A g \in sent' : g \in sent \/ pco'[g.id].st # "unborn"
    BY <1>1, <2>1, <2>2
  <2>5. pco[id].st # "merged" /\ (pco[id].st = "gone" => raw.uat > pco[id].raw.uat)
        /\ raw.uat >= pco[id].raw.uat /\ pco[id].raw.uat \in Nat
    BY <1>0, <1>1
  <2>6. pco[id].st \in {"live", "unborn", "gone"}
    BY <1>1
  <2>7. \/ pco[id].st = "live" /\ raw.uat = pco[id].raw.uat
        \/ pco[id].st = "unborn" \/ raw.uat > pco[id].raw.uat
    BY <1>1, <2>5, <2>6
  <2>8. ASSUME NEW x \in Ids
        PROVE  /\ pco[x].st # "unborn" => pco'[x].st # "unborn"
               /\ pco[x].st = "merged" => pco'[x].st = "merged"
               /\ pco'[x].st = "live" =>
                    \/ pco[x].st = "live" /\ pco'[x].raw.uat = pco[x].raw.uat
                    \/ /\ pco[x].st = "unborn" \/ pco'[x].raw.uat > pco[x].raw.uat
                       /\ Dates(sent', x, pco'[x].raw.uat)
    <3>1. CASE x = id
      BY <2>2, <2>3, <2>5, <2>7, <3>1
    <3>2. CASE x # id
      BY <2>2, <3>2
    <3> QED BY <3>1, <3>2
  <2> QED BY <1>1, <2>4, <2>8 DEF PcoReturns
<1>2. ASSUME NEW id \in Ids, NEW t \in Time, NEW rels \in RelSets,
             PcoCreate(id, t, rels) \/ PcoEdit(id, t, rels)
      PROVE  PcoReturns
  <2> DEFINE raw == At(pco[id].raw, Stamp(id, t))
  <2>1. /\ clock' = t /\ clock <= t /\ t \in Nat /\ raw.uat = t
        /\ pco[id].st \in {"live", "unborn"}
        /\ pco' = [pco EXCEPT ![id] = [st |-> "live", raw |-> raw]]
        /\ sent' = sent \cup {Update(id, raw, rels)}
    BY <1>0, <1>2, TimeFacts DEF PcoCreate, PcoEdit, At, Stamp
  <2> HIDE DEF raw
  <2>2. raw.uat >= pco[id].raw.uat
    BY <1>0, <2>1
  <2> QED BY <1>1, <2>1, <2>2
<1>3. ASSUME NEW id \in Ids, PcoDestroy(id) PROVE PcoReturns
  <2>1. /\ clock' = clock
        /\ \A x \in Ids : pco'[x] = IF x \in {id} \cup Belongings(id)
                                   THEN Turned(pco[x], "gone") ELSE pco[x]
        /\ \A x \in {id} \cup Belongings(id) : pco[x].st = "live"
    BY <1>3 DEF PcoDestroy, Belongings
  <2>2. ASSUME NEW x \in Ids
        PROVE  pco'[x] = pco[x] \/ (pco[x].st = "live" /\ pco'[x].st = "gone")
    <3>1. CASE x \in {id} \cup Belongings(id)
      <4>1. pco'[x] = Turned(pco[x], "gone") /\ pco[x].st = "live"
        BY <2>1, <3>1
      <4>2. Turned(pco[x], "gone").st = "gone"
        BY DEF Turned
      <4> QED BY <4>1, <4>2
    <3> QED BY <2>1, <3>1
  <2>3. \A f \in sent' : f \in sent \/ (f.id \in Ids /\ pco'[f.id].st = "gone")
    <3>1. Belongings(id) = {}
      BY DEF Belongings, Returning
    <3>2. \A f \in sent' : f \in sent \/ f = Destroyed(id, pco[id].raw.uat)
      BY <1>3, <3>1 DEF PcoDestroy
    <3>3. pco'[id].st = "gone"
      BY <1>3 DEF PcoDestroy, Turned
    <3>4. Destroyed(id, pco[id].raw.uat).id = id
      BY DEF Destroyed
    <3> QED BY <3>2, <3>3, <3>4
  <2> QED BY <1>0, <2>1, <2>2, <2>3 DEF PcoReturns
<1>4. ASSUME NEW a \in Owners, NEW b \in Owners, NEW moved \in SUBSET Children, PcoMerge(a, b, moved)
      PROVE  PcoReturns
  <2>1. a \in Ids /\ moved = {} /\ Belongings(a) = {} /\ pco[a].st = "live" /\ clock' = clock
    BY <1>4 DEF PcoMerge, Belongings, Returning, Ids
  <2>2. pco' = [x \in Ids |-> IF x = a THEN Turned(pco[x], "merged") ELSE pco[x]]
    BY <1>4, <2>1 DEF PcoMerge
  <2>3. sent' = sent \cup {Merged(a, b)} /\ Merged(a, b).id = a
    BY <1>4, <2>1 DEF PcoMerge, Merged
  <2>4. pco'[a].st = "merged" /\ \A x \in Ids : x # a => pco'[x] = pco[x]
    BY <2>1, <2>2 DEF Turned
  <2> QED BY <1>0, <2>1, <2>3, <2>4 DEF PcoReturns
<1>5. ASSUME NEW id \in Ids, NEW rels \in RelSets, PcoRestore(id, rels) PROVE PcoReturns
  <2> DEFINE raw == At(pco[id].raw, clock + 1)
  <2>1. /\ clock' = clock + 1 /\ pco[id].st = "gone" /\ raw.uat = clock + 1
        /\ sent' = sent \cup {Update(id, raw, rels)}
    BY <1>5 DEF PcoRestore, At
  <2>2. \A x \in Ids : x \notin Children
    BY DEF Returning
  <2>3. pco' = [x \in Ids |-> IF x = id THEN [st |-> "live", raw |-> raw] ELSE pco[x]]
    BY <1>5, <2>2 DEF PcoRestore
  <2> HIDE DEF raw
  <2>4. pco' = [pco EXCEPT ![id] = [st |-> "live", raw |-> raw]]
    BY <2>3
  <2>5. raw.uat > pco[id].raw.uat /\ raw.uat \in Nat /\ clock <= clock' /\ clock' \in Nat
    BY <1>0, <2>1
  <2> QED BY <1>1, <2>1, <2>4, <2>5
<1>6. \A id \in Ids, rels \in RelSets : ~ PcoAnswer(id, rels)
  BY DEF PcoAnswer, Returning
<1> QED BY <1>2, <1>3, <1>4, <1>5, <1>6 DEF PcoStep

LEMMA ReturnPcoStep ==
  ASSUME Returning, ReturnInv, PcoStep PROVE ReturnInv'
<1> USE DEF ReturnInv
<1>1. History' /\ TypeOK /\ TypeOK' /\ PcoAdvances /\ PcoReturns /\ UNCHANGED <<seen, mirror, crossed>>
  BY HistoryPcoStep, PcoStepAdvances, PcoStepReturns, PcoStepType DEF History
<1>2. /\ clock \in Nat /\ clock' \in Nat /\ seen \subseteq sent
      /\ \A id \in Ids : /\ pco[id].raw.uat \in Nat /\ pco'[id].raw.uat \in Nat
                         /\ mirror[id].raw.uat \in Nat /\ mirror[id].tuat \in Nat
                         /\ pco[id].raw.uat <= pco'[id].raw.uat
      /\ \A f \in sent : f.id \in Ids /\ f.raw.uat \in Nat
      /\ \A f \in sent' : f.id \in Ids /\ f.raw.uat \in Nat
      /\ \A f \in seen : f.kind = "update" => f.raw.uat <= pco[f.id].raw.uat
  BY <1>1, TimeFacts DEF TypeOK, Record, Row, Payload, Fact, PcoAdvances, History, Behind, Versions
<1>3. Beginnings'
  BY <1>1, <1>2 DEF Beginnings, PcoReturns
<1>4. ASSUME NEW f \in sent'
      PROVE  /\ f.kind = "destroyed" =>
                  /\ 1 <= f.raw.uat /\ f.raw.uat <= pco'[f.id].raw.uat
                  /\ pco'[f.id].st = "live" => f.raw.uat < pco'[f.id].raw.uat
             /\ f.kind = "merged" => pco'[f.id].st = "merged"
  <2>1. CASE f \in sent
    BY <1>1, <1>2, <2>1 DEF Endings, Beginnings, PcoReturns
  <2>2. CASE f \notin sent
    <3>1. PcoSays(f)
      BY <1>1, <2>2 DEF PcoAdvances
    <3>2. pco'[f.id].raw.uat >= 1
      BY <1>2, <1>3 DEF Beginnings
    <3> QED BY <1>2, <3>1, <3>2 DEF PcoSays, Returning
  <2> QED BY <2>1, <2>2
<1>5. ASSUME NEW id \in Ids
      PROVE  /\ mirror[id].why = "destroyed" =>
                  /\ mirror[id].tuat <= pco'[id].raw.uat
                  /\ pco'[id].st = "live" => mirror[id].tuat < pco'[id].raw.uat \/ Taken(id)
             /\ mirror[id].why = "merged" => pco'[id].st = "merged"
  BY <1>1, <1>2 DEF Endings, Beginnings, PcoReturns
<1>6. Endings'
  BY <1>1, <1>4, <1>5 DEF Endings, Taken
<1>7. ASSUME NEW id \in Ids, pco'[id].st = "live"
      PROVE  /\ Caught(id)' \/ Dates(sent', id, pco'[id].raw.uat)
             /\ Caught(id)' => mirror[id].why = "live" \/ Taken(id)
  <2>1. sent \subseteq sent'
    BY <1>1, PcoStepType
  <2>2. CASE pco[id].st = "live" /\ pco'[id].raw.uat = pco[id].raw.uat
    BY <1>1, <2>1, <2>2 DEF News, Caught, Dates
  <2>3. CASE /\ pco[id].st = "unborn" \/ pco'[id].raw.uat > pco[id].raw.uat
             /\ Dates(sent', id, pco'[id].raw.uat)
    <3>1. mirror[id].why # "none" => mirror[id].raw.uat <= pco[id].raw.uat /\ pco[id].st # "unborn"
      BY DEF History, Behind, Beginnings
    <3>2. ~ Caught(id)'
      BY <1>1, <1>2, <2>3, <3>1 DEF Caught
    <3> QED BY <2>3, <3>2
  <2> QED BY <1>1, <1>7, <2>2, <2>3 DEF PcoReturns
<1>8. ASSUME NEW f \in seen, f.kind = "update", pco'[f.id].st = "live",
             f.raw.uat = pco'[f.id].raw.uat
      PROVE  Caught(f.id)'
  <2>1. f \in sent /\ f.id \in Ids /\ pco[f.id].st # "unborn" /\ f.raw.uat <= pco[f.id].raw.uat
    BY <1>2, <1>8 DEF Beginnings
  <2>2. pco[f.id].st = "live" /\ pco'[f.id].raw.uat = pco[f.id].raw.uat
    BY <1>1, <1>2, <1>8, <2>1 DEF PcoReturns
  <2> QED BY <1>1, <1>8, <2>2 DEF News, Caught
<1>9. News'
  BY <1>1, <1>7, <1>8 DEF News, Taken
<1> QED BY <1>1, <1>3, <1>6, <1>9

(* What a fact that may be told of a record makes of its row; late is what *)
(* was marked of it before, late2 what is marked now.                      *)
LEMMA OwnRowReturns ==
  ASSUME NEW row \in Row, row.why \in {"none", "live", "destroyed", "merged"},
         NEW f \in Fact, f.kind \in RepeatedKinds, f.id \notin Untimed,
         NEW top \in Nat, NEW st, top >= 1, row.raw.uat <= top,
         NEW late \in BOOLEAN, NEW late2 \in BOOLEAN,
         f.kind = "update" => f.raw.uat <= top,
         f.kind = "destroyed" => 1 <= f.raw.uat /\ f.raw.uat <= top
                                 /\ (st = "live" => f.raw.uat < top),
         row.why = "destroyed" => row.tuat <= top /\ (st = "live" => row.tuat < top \/ late),
         st = "live" /\ row.why # "none" /\ row.raw.uat = top => row.why = "live" \/ late,
         NEW new, new = OwnRow(row, f),
         f.kind # "destroyed" => late2 = late,
         f.kind = "destroyed" => late2 = (BareDestroys /\ Met(new, f.raw.uat) = "late"),
         late => BareDestroys
  PROVE  /\ new.why \in {"none", "live", "destroyed", "merged"}
         /\ new.why # "none" => row.why # "none" \/ f.kind = "update"
         /\ new.why = "destroyed" => new.tuat <= top /\ (st = "live" => new.tuat < top \/ late2)
         /\ new.why = "merged" => row.why = "merged" \/ f.kind = "merged"
         /\ row.why # "none" /\ row.raw.uat = top => new.why # "none" /\ new.raw.uat = top
         /\ f.kind = "update" /\ f.raw.uat = top => new.why # "none" /\ new.raw.uat = top
         /\ st = "live" /\ f.kind # "merged" /\ row.why # "merged" /\ new.why # "none"
            /\ new.raw.uat = top => new.why = "live" \/ late2
<1>0. /\ f.kind \in {"update", "destroyed", "merged"}
      /\ f.raw.uat \in Nat /\ row.raw.uat \in Nat /\ row.tuat \in Nat
  BY TimeFacts DEF RepeatedKinds, Fact, Row, Payload
<1>1. CASE f.kind = "update"
  <2>1. CASE f.raw.uat = NoTime
    <3>1. new = row
      BY <1>1, <2>1 DEF OwnRow
    <3> QED BY <1>0, <1>1, <2>1, <3>1 DEF NoTime
  <2>2. CASE f.raw.uat # NoTime /\ row.why = "none"
    BY <1>0, <1>1, <2>2 DEF OwnRow, Inserted
  <2>3. CASE f.raw.uat # NoTime /\ row.why # "none"
    <3>1. new = Upserted(row, f.raw)
      BY <1>1, <2>3 DEF OwnRow
    <3>2. /\ new.raw = IF Wins(row.raw, f.raw) THEN f.raw ELSE row.raw
          /\ IF Revives(row, f.raw) THEN new.why = "live"
             ELSE new.why = row.why /\ new.tuat = row.tuat
      BY <3>1 DEF Upserted, Lifted, Holding
    <3>3. /\ ~ Wins(row.raw, f.raw) => row.raw.uat >= f.raw.uat
          /\ Wins(row.raw, f.raw) => f.raw.uat >= row.raw.uat
      BY <1>0 DEF Wins
    <3>4. Revives(row, f.raw) <=> row.why \notin {"live", "merged"} /\ f.raw.uat > row.tuat
      BY DEF Revives
    <3> QED BY <1>0, <1>1, <2>3, <3>2, <3>3, <3>4
  <2> QED BY <2>1, <2>2, <2>3
<1>2. CASE f.kind = "destroyed"
  <2>1. CASE BareDestroys
    <3>1. new = IF row.why # "none" THEN Buried(row, "destroyed", row.raw.uat, row.into) ELSE row
      BY <1>0, <1>2, <2>1 DEF OwnRow, Buries, Coalesce, Carried, NoTime
    <3>2. CASE row.why = "none"
      BY <1>0, <1>2, <3>1, <3>2
    <3>3. CASE row.why # "none"
      <4>1. new.why = "destroyed" /\ new.tuat = row.raw.uat /\ new.raw = row.raw
        BY <3>1, <3>3 DEF Buried
      <4>2. CASE st = "live" /\ row.raw.uat = top
        <5>1. new.why # "none" /\ new.why # "live" /\ ~ (new.tuat < f.raw.uat) /\ new.tuat > f.raw.uat
          BY <1>0, <1>2, <4>1, <4>2
        <5>2. Met(new, f.raw.uat) = "late"
          BY <5>1 DEF Met
        <5>3. late2
          BY <1>2, <2>1, <5>2
        <5> QED BY <1>0, <1>2, <3>3, <4>1, <5>3
      <4>3. CASE ~ (st = "live" /\ row.raw.uat = top)
        <5>1. st = "live" => row.raw.uat < top
          BY <1>0, <4>3
        <5> QED BY <1>0, <1>2, <3>3, <4>1, <5>1
      <4> QED BY <4>2, <4>3
    <3> QED BY <3>2, <3>3
  <2>2. CASE ~ BareDestroys
    <3>1. new = IF row.why # "none" /\ (row.why # "live" \/ row.raw.uat = NoTime \/ f.raw.uat >= row.raw.uat)
                THEN Buried(row, "destroyed", f.raw.uat, row.into) ELSE row
      BY <1>0, <1>2, <2>2 DEF OwnRow, Buries, Coalesce, Carried, NoTime
    <3> QED BY <1>0, <1>2, <2>2, <3>1 DEF Buried, NoTime
  <2> QED BY <2>1, <2>2
<1>3. CASE f.kind = "merged"
  BY <1>0, <1>3 DEF OwnRow, Buried, Buries
<1> QED BY <1>0, <1>1, <1>2, <1>3

LEMMA ReturnMirrorStep ==
  ASSUME Returning, ReturnInv, MirrorStep PROVE ReturnInv'
<1> USE DEF ReturnInv
<1>1. History' /\ TypeOK /\ TypeOK'
  BY HistoryMirrorStep DEF History
<1> PICK f \in sent : Deliver(f) \/ Receive(f)
  BY DEF MirrorStep
<1>2. f \in Fact /\ mirror \in Mirrors /\ f.kind \in RepeatedKinds /\ f.id \in Ids /\ f.id \notin Untimed
  BY <1>1, WriterAssumption, MirrorAssumption
     DEF TypeOK, Mirrors, History, Asked, Fact, RepeatedKinds, Returning
<1>3. /\ mirror' = Applied(mirror, f) /\ seen' = seen \cup {f} /\ UNCHANGED <<clock, pco, sent>>
      /\ \A id \in Ids : id # f.id \/ f.kind # "destroyed" => crossed'[id] = crossed[id]
      /\ f.kind = "destroyed" => crossed'[f.id] = Met(mirror'[f.id], f.raw.uat)
  BY <1>1, <1>2 DEF Deliver, Receive, TypeOK
<1>4. ASSUME NEW id \in Ids, id # f.id PROVE mirror'[id] = mirror[id]
  <2>1. mirror[id].why # "owner_deleted"
    BY DEF Endings
  <2>2. mirror'[id].why # "owner_deleted"
    BY <1>2, <1>3, <1>4, <2>1, BuriedForOwner DEF Returning
  <2>3. \/ mirror'[id] = mirror[id]
        \/ mirror'[id] = Buried(mirror[id], "owner_deleted", mirror[id].raw.uat, mirror[id].into)
    BY <1>2, <1>3, <1>4, <2>1, AppliedRow
  <2> QED BY <2>2, <2>3 DEF Buried
<1> DEFINE top == pco[f.id].raw.uat
           st == pco[f.id].st
           row == mirror[f.id]
           new == mirror'[f.id]
<1>5. /\ new = OwnRow(row, f) /\ row \in Row /\ top \in Nat /\ top >= 1 /\ row.raw.uat <= top
      /\ st # "unborn" /\ row.why \in {"none", "live", "destroyed", "merged"}
      /\ row.why = "merged" \/ f.kind = "merged" => st = "merged"
      /\ f.kind = "update" => f.raw.uat <= top
  BY <1>1, <1>2, <1>3, AppliedRow, TimeFacts
     DEF Mirrors, TypeOK, Record, Payload, Beginnings, History, Behind, Endings, Versions
<1>6. /\ new.why \in {"none", "live", "destroyed", "merged"}
      /\ new.why = "destroyed" => new.tuat <= top /\ (st = "live" => new.tuat < top \/ Taken(f.id)')
      /\ new.why = "merged" => st = "merged"
      /\ row.why # "none" /\ row.raw.uat = top => new.why # "none" /\ new.raw.uat = top
      /\ f.kind = "update" /\ f.raw.uat = top => new.why # "none" /\ new.raw.uat = top
      /\ st = "live" /\ new.why # "none" /\ new.raw.uat = top => new.why = "live" \/ Taken(f.id)'
  <2>1. f.kind = "destroyed" => 1 <= f.raw.uat /\ f.raw.uat <= top /\ (st = "live" => f.raw.uat < top)
    BY DEF Endings
  <2>2. row.why = "destroyed" => row.tuat <= top /\ (st = "live" => row.tuat < top \/ Taken(f.id))
    BY <1>2 DEF Endings
  <2>3. st = "live" /\ row.why # "none" /\ row.raw.uat = top => row.why = "live" \/ Taken(f.id)
    BY <1>2 DEF News, Caught
  <2> DEFINE late == Taken(f.id)
             late2 == Taken(f.id)'
  <2>4. /\ late \in BOOLEAN /\ late2 \in BOOLEAN /\ (late => BareDestroys)
        /\ f.kind # "destroyed" => late2 = late
        /\ f.kind = "destroyed" => late2 = (BareDestroys /\ Met(new, f.raw.uat) = "late")
    BY <1>2, <1>3, WriterAssumption DEF Taken
  <2> HIDE DEF top, st, row, new, late, late2, ReturnInv
  <2> QED BY <1>2, <1>5, <2>1, <2>2, <2>3, <2>4, OwnRowReturns DEF late, late2
<1>7. Beginnings'
  BY <1>3, <1>4, <1>5 DEF Beginnings
<1>8. Endings'
  BY <1>3, <1>4, <1>6 DEF Endings, Taken
<1>9. ASSUME NEW id \in Ids, pco[id].st = "live"
      PROVE  /\ Caught(id) => Caught(id)'
             /\ Caught(id)' => mirror'[id].why = "live" \/ Taken(id)'
  <2>1. CASE id = f.id
    BY <1>3, <1>6, <1>9, <2>1 DEF Caught
  <2>2. CASE id # f.id
    BY <1>3, <1>4, <1>9, <2>2 DEF Caught, Taken, News
  <2> QED BY <2>1, <2>2
<1>10. ASSUME NEW g \in seen', g.kind = "update", pco[g.id].st = "live",
              g.raw.uat = pco[g.id].raw.uat
       PROVE  Caught(g.id)'
  <2>1. CASE g = f
    BY <1>3, <1>6, <1>10, <2>1 DEF Caught
  <2>2. CASE g # f
    <3>1. g \in seen /\ g.id \in Ids
      BY <1>1, <1>3, <2>2 DEF TypeOK, Fact
    <3> QED BY <1>9, <1>10, <3>1 DEF News
  <2> QED BY <2>1, <2>2
<1>11. News'
  BY <1>3, <1>9, <1>10 DEF News, Dates
<1> QED BY <1>1, <1>7, <1>8, <1>11

LEMMA ReturnNext == Returning /\ ReturnInv /\ [Next]_vars => ReturnInv'
<1> SUFFICES ASSUME Returning, ReturnInv, [Next]_vars PROVE ReturnInv'
  OBVIOUS
<1>1. CASE UNCHANGED vars
  <2>1. History'
    BY HistoryNext DEF ReturnInv
  <2> QED BY <1>1, <2>1 DEF vars, ReturnInv, Beginnings, Endings, News, Caught, Taken, Dates
<1> QED BY <1>1, ReturnPcoStep, ReturnMirrorStep DEF Next

LEMMA ReturnNothingLost == ReturnInv => NothingLost
  BY DEF ReturnInv, News, NothingLost, Settled, Dates, Caught, Taken, Live

(* A record that was destroyed and brought back is alive, at its latest    *)
(* version, once everything said of it has been applied: for every order   *)
(* and repetition, and however often it went and came, unless a destroyed  *)
(* webhook without an updated_at came after the news of a return.          *)
THEOREM WhatComesBackIsNotLost == Returning => (Spec => []NothingLost)
<1> SUFFICES ASSUME Returning PROVE Spec => []NothingLost
  OBVIOUS
<1>1. /\ Init => ReturnInv
      /\ ReturnInv /\ [Next]_vars => ReturnInv'
  BY ReturnInit, ReturnNext
<1> QED BY <1>1, ReturnNothingLost, PTL DEF Spec
=============================================================================
