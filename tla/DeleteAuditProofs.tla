------------------------- MODULE DeleteAuditProofs --------------------------
(***************************************************************************)
(* For every set of records, page size and bound, whatever is listed,      *)
(* answered, lost, delayed or interrupted: the audit buries only what      *)
(* Planning Center has destroyed, and a round settles what it owes.        *)
(***************************************************************************)
EXTENDS DeleteAudit, FiniteSetTheorems, WellFoundedInduction, TLAPS

-----------------------------------------------------------------------------
(* Least and greatest, and what a page of a listing holds.                 *)

LEMMA LeastNatural ==
  ASSUME NEW N, N \subseteq Nat, N # {}
  PROVE  \E n \in N : \A m \in N : n <= m
<1>1. PICK Less : Less = {ss \in Nat \X Nat : ss[1] < ss[2]} /\ IsWellFoundedOn(Less, Nat)
  BY NatLessThanWellFounded DEF OpToRel
<1>2. PICK n \in N : \A m \in N : ~ (<<m, n>> \in Less)
  BY <1>1, WFMin
<1>3. \A m \in N : n <= m
  <2> TAKE m \in N
  <2>1. ~ (m < n)
    BY <1>1, <1>2
  <2> QED BY <2>1
<1> QED BY <1>3

LEMMA MinIn ==
  ASSUME NEW S, S \subseteq Nat, S # {}
  PROVE  Min(S) \in S
<1>1. PICK x \in S : \A y \in S : x <= y
  BY LeastNatural
<1> QED BY <1>1 DEF Min

LEMMA MaxIn ==
  ASSUME NEW top \in Nat, NEW times, times \subseteq 0 .. top, times # {}
  PROVE  /\ Max(times) \in times /\ Max(times) \in Nat
         /\ \A t \in times : t <= Max(times)
<1> DEFINE T == {top - t : t \in times}
<1>0. \A t \in times : t \in 0 .. top
  OBVIOUS
<1>1. T \subseteq Nat /\ T # {}
  <2>1. \A t \in times : top - t \in T /\ top - t \in Nat
    BY <1>0
  <2> QED BY <2>1
<1>2. PICK d \in T : \A e \in T : d <= e
  BY <1>1, LeastNatural
<1>3. PICK t \in times : d = top - t
  OBVIOUS
<1>4. \A u \in times : t >= u
  <2> TAKE u \in times
  <2>1. top - u \in T
    OBVIOUS
  <2>2. top - t <= top - u
    BY <2>1, <1>2, <1>3
  <2> HIDE DEF T
  <2>3. u \in 0 .. top /\ t \in 0 .. top /\ top \in Nat
    BY <1>0
  <2> QED BY <2>2, <2>3
<1>5. Max(times) \in times /\ \A u \in times : Max(times) >= u
  BY <1>4 DEF Max
<1>6. \A u \in times : u \in Nat
  BY <1>0
<1> QED BY <1>5, <1>6

(* A listing is a finite set under a strict total order, given by what     *)
(* stands before each element.                                             *)
Listing(T, below) ==
  /\ IsFiniteSet(T)
  /\ \A r \in T : below[r] \subseteq T /\ r \notin below[r]
  /\ \A q, r \in T : q \in below[r] => below[q] \subseteq below[r]
  /\ \A q, r \in T : q = r \/ q \in below[r] \/ r \in below[q]

(* The ranks are numbers, in the order of the listing.                     *)
LEMMA RanksOrdered ==
  ASSUME NEW T, NEW below, Listing(T, below)
  PROVE  /\ \A r \in T : Cardinality(below[r]) \in Nat
         /\ \A q, r \in T : q \in below[r] <=> Cardinality(below[q]) < Cardinality(below[r])
<1> USE DEF Listing
<1>1. \A r \in T : IsFiniteSet(below[r]) /\ Cardinality(below[r]) \in Nat
  BY FS_Subset, FS_CardinalityType
<1>2. ASSUME NEW q \in T, NEW r \in T, q \in below[r]
      PROVE  Cardinality(below[q]) < Cardinality(below[r])
  <2>1. below[q] \subseteq below[r] /\ below[q] # below[r]
    BY <1>2
  <2>2. Cardinality(below[q]) <= Cardinality(below[r]) /\ Cardinality(below[q]) # Cardinality(below[r])
    BY <1>1, <2>1, FS_Subset
  <2> QED BY <1>1, <2>2
<1>3. ASSUME NEW q \in T, NEW r \in T, Cardinality(below[q]) < Cardinality(below[r])
      PROVE  q \in below[r]
  <2>1. q # r /\ r \notin below[q]
    BY <1>1, <1>2, <1>3
  <2> QED BY <2>1
<1> QED BY <1>1, <1>2, <1>3

(* The first k of a listing that has more are k.                           *)
LEMMA FirstOfListing ==
  ASSUME NEW T, NEW below, Listing(T, below), NEW r \in T, NEW k \in Nat,
         k <= Cardinality(below[r])
  PROVE  Cardinality({q \in T : Cardinality(below[q]) < k}) = k
<1> DEFINE Low(i) == {q \in T : Cardinality(below[q]) < i}
           Bad == {i \in Nat : i <= Cardinality(below[r]) /\ Cardinality(Low(i)) # i}
<1> USE RanksOrdered
<1>1. SUFFICES ASSUME Bad # {} PROVE FALSE
  OBVIOUS
<1>2. PICK i \in Bad : \A j \in Bad : i <= j
  BY <1>1, LeastNatural
<1>3. i # 0
  <2>1. Low(0) = {}
    OBVIOUS
  <2> QED BY <2>1, FS_EmptySet
<1>4. i - 1 \in Nat /\ Cardinality(Low(i - 1)) = i - 1
  <2>1. i - 1 \in Nat /\ i - 1 <= Cardinality(below[r]) /\ ~ (i <= i - 1)
    BY <1>2, <1>3
  <2> QED BY <1>2, <2>1
<1>5. PICK m \in T : /\ Cardinality(below[m]) >= i - 1
                     /\ \A q \in T : Cardinality(below[q]) >= i - 1 =>
                                       Cardinality(below[m]) <= Cardinality(below[q])
  <2> DEFINE Up == {q \in T : Cardinality(below[q]) >= i - 1}
             N == {Cardinality(below[q]) : q \in Up}
  <2>1. Cardinality(below[r]) \in N /\ N \subseteq Nat
    BY <1>4
  <2>2. PICK n \in N : \A o \in N : n <= o
    BY <2>1, LeastNatural
  <2>3. PICK m \in Up : n = Cardinality(below[m])
    OBVIOUS
  <2>4. \A q \in Up : Cardinality(below[m]) <= Cardinality(below[q])
    BY <2>2, <2>3
  <2> QED BY <2>3, <2>4
<1>6. below[m] = Low(i - 1)
  <2>1. \A q \in T : q \in below[m] => q \in Low(i - 1)
    BY <1>4, <1>5
  <2>2. \A q \in T : q \in Low(i - 1) => q \in below[m]
    BY <1>4, <1>5
  <2> QED BY <2>1, <2>2 DEF Listing
<1>7. Cardinality(below[m]) = i - 1
  BY <1>4, <1>6
<1>8. Low(i) = Low(i - 1) \cup {m}
  <2>1. \A q \in Low(i) : q \in Low(i - 1) \/ q = m
    BY <1>4, <1>7, <1>2 DEF Listing
  <2>2. m \in Low(i) /\ Low(i - 1) \subseteq Low(i)
    BY <1>4, <1>7, <1>2
  <2> QED BY <2>1, <2>2
<1>9. IsFiniteSet(Low(i - 1)) /\ m \notin Low(i - 1)
  BY <1>4, <1>7, FS_Subset DEF Listing
<1> HIDE DEF Low
<1>10. Cardinality(Low(i)) = i
  BY <1>4, <1>8, <1>9, FS_AddElement
<1> QED BY <1>2, <1>10

(* A page that is not full is the last.                                    *)
LEMMA LastPage ==
  ASSUME NEW T, NEW below, Listing(T, below), NEW off \in Nat, NEW n \in Nat,
         Cardinality({q \in T : Cardinality(below[q]) \in off .. off + n - 1}) # n
  PROVE  \A r \in T : Cardinality(below[r]) < off + n
<1> DEFINE Low(i) == {q \in T : Cardinality(below[q]) < i}
           page == {q \in T : Cardinality(below[q]) \in off .. off + n - 1}
<1> SUFFICES ASSUME NEW r \in T, ~ (Cardinality(below[r]) < off + n) PROVE Cardinality(page) = n
  OBVIOUS
<1>0. \A q \in T : Cardinality(below[q]) \in Nat
  BY RanksOrdered
<1>1. Cardinality(Low(off + n)) = off + n /\ Cardinality(Low(off)) = off
  BY <1>0, FirstOfListing
<1>2. page = Low(off + n) \ Low(off) /\ Low(off + n) \cap Low(off) = Low(off)
  BY <1>0
<1>3. IsFiniteSet(Low(off + n))
  BY FS_Subset DEF Listing
<1> HIDE DEF Low, page
<1>4. Cardinality(page) = Cardinality(Low(off + n)) - Cardinality(Low(off + n) \cap Low(off))
  BY <1>2, <1>3, FS_Difference
<1>5. Cardinality(Low(off + n) \cap Low(off)) = off
  BY <1>1, <1>2
<1>6. Cardinality(page) = (off + n) - off
  BY <1>1, <1>4, <1>5
<1> QED BY <1>6

-----------------------------------------------------------------------------
(* What a call of the writer makes of a row's `why', where nothing is      *)
(* owned.                                                                  *)

Held(m) == DOMAIN m = Owners

LEMMA NothingOwned ==
  ASSUME AuditAssumption, NEW m, Held(m), NEW o
  PROVE  /\ Held(Cascade(m, o)) /\ Held(Uncascade(m, o))
         /\ \A c \in Owners : Cascade(m, o)[c] = m[c] /\ Uncascade(m, o)[c] = m[c]
  BY DEF AuditAssumption, Held, Cascade, Uncascade, OwnedBy, Ids

LEMMA UpsertWhy ==
  ASSUME AuditAssumption, NEW m, Held(m), NEW id \in Owners, NEW raw
  PROVE  /\ Held(Upsert(m, id, raw))
         /\ \A c \in Owners \ {id} : Upsert(m, id, raw)[c] = m[c]
         /\ Upsert(m, id, raw)[id].why \in {m[id].why, "live"}
<1> DEFINE w == [m EXCEPT ![id] = IF Known(m, id) THEN Upserted(m[id], raw) ELSE Inserted(raw)]
<1>1. Held(w) /\ \A c \in Owners \ {id} : w[c] = m[c]
  BY DEF Held
<1>2. w[id].why \in {m[id].why, "live"}
  BY DEF Held, Upserted, Lifted, Holding, Inserted
<1>3. Upsert(m, id, raw) = Uncascade(w, id)
  BY DEF Upsert
<1> HIDE DEF w
<1> QED BY <1>1, <1>2, <1>3, NothingOwned

LEMMA TombstoneWhy ==
  ASSUME AuditAssumption, NEW m, Held(m), NEW id \in Owners, NEW why
  PROVE  LET after == Tombstone(m, id, NoTime, why, Nobody)
         IN  /\ Held(after)
             /\ \A c \in Owners \ {id} : after[c] = m[c]
             /\ after[id].why \in {m[id].why, why}
             /\ m[id].why = "none" => after[id].why = "none"
<1> DEFINE grave == Buried(m[id], why, Coalesce(NoTime, m[id].raw.uat),
                           IF Nobody # Nobody THEN Nobody ELSE m[id].into)
           w == IF Known(m, id) /\ Buries(m[id], NoTime, why)
                THEN [m EXCEPT ![id] = grave] ELSE m
<1>1. Held(w) /\ \A c \in Owners \ {id} : w[c] = m[c]
  BY DEF Held
<1>2. w[id].why \in {m[id].why, why} /\ (m[id].why = "none" => w[id].why = "none")
  BY DEF Held, Buried, Known
<1>3. Tombstone(m, id, NoTime, why, Nobody) = IF why \in Gone THEN Cascade(w, id) ELSE w
  BY DEF Tombstone
<1> HIDE DEF w
<1> QED BY <1>1, <1>2, <1>3, NothingOwned

LEMMA ConfirmLiveWhy ==
  ASSUME AuditAssumption, NEW m, Held(m), NEW id \in Owners, NEW raw
  PROVE  /\ Held(ConfirmLive(m, id, raw))
         /\ \A c \in Owners \ {id} : ConfirmLive(m, id, raw)[c] = m[c]
         /\ ConfirmLive(m, id, raw)[id].why = "live"
<1> DEFINE w == [m EXCEPT ![id] = Inserted(raw)]
<1>1. Held(w) /\ (\A c \in Owners \ {id} : w[c] = m[c]) /\ w[id].why = "live"
  BY DEF Held, Inserted
<1>2. ConfirmLive(m, id, raw) = Uncascade(w, id)
  BY DEF ConfirmLive
<1> HIDE DEF w
<1> QED BY <1>1, <1>2, NothingOwned

-----------------------------------------------------------------------------
(* The inductive invariant.  A 404 proves nothing by itself: PCO answers   *)
(* it for a record that is yet to come, too.  What makes it final is that  *)
(* only ids that once were live in the mirror are asked about in order to  *)
(* bury, and what PCO has destroyed it never brings back.                  *)

Exists(id) == id \in Owners /\ pco[id].st # "unborn"
Final(id) == id \in Owners /\ pco[id].st = "gone"

Fields == {"phase", "keyset", "cursor", "off", "restored", "candidate", "known", "live"}

Shapes == /\ Held(mirror) /\ DOMAIN pco = Owners /\ DOMAIN round = Fields
          /\ DOMAIN answer = {"at", "id", "uat", "status"}
          /\ \A id \in Owners : pco[id].st \in {"unborn", "live", "gone"}

(* Rows, webhooks and the ids of a round are of records PCO had.           *)
Born ==
  /\ \A id \in Owners : Known(mirror, id) => Exists(id)
  /\ \A f \in sent : Exists(f.id)
  /\ \A id \in round.candidate : Exists(id)
  /\ \A id \in round.live : Exists(id)

(* The answer in hand is about such a record, and a 404 that may bury is   *)
(* final.                                                                  *)
InHand ==
  answer # NoAnswer =>
    /\ round.phase \in {"confirm", "restore"}
    /\ Exists(answer.id)
    /\ answer.status = "404" /\ round.phase = "confirm" => Final(answer.id)

Absent == \A id \in Owners : mirror[id].why = "audit_absent" => Final(id)

AuditInv == Shapes /\ Born /\ InHand /\ Absent

LEMMA InitAudit == AuditAssumption /\ Init => AuditInv
<1> SUFFICES ASSUME AuditAssumption, Init PROVE AuditInv
  OBVIOUS
<1>1. DOMAIN round = Fields /\ round.candidate = {} /\ round.live = {}
  BY DEF Init, NoRound, Fields
<1>2. DOMAIN pco = Owners /\ \A id \in Owners : pco[id].st \in {"unborn", "live", "gone"}
  BY DEF Init
<1>3. PICK held \in SUBSET {id \in Owners : pco[id].st # "unborn"} :
        mirror = [id \in Owners |-> IF id \in held THEN Inserted(Copy(2)) ELSE NoRow]
  BY DEF Init
<1>4. /\ Held(mirror)
      /\ \A id \in Owners : mirror[id].why = IF id \in held THEN "live" ELSE "none"
  BY <1>3 DEF Held, Inserted, NoRow
<1>5. DOMAIN answer = {"at", "id", "uat", "status"}
  BY DEF Init, NoAnswer
<1> QED BY <1>1, <1>2, <1>3, <1>4, <1>5 DEF Init, AuditInv, Shapes, Born, InHand, Absent, Exists, Known

(* The enumeration only gathers ids PCO lists, and compares. *)
LEMMA PageExists ==
  ASSUME NEW from, NEW off, NEW id \in PageOf(Listed(from), off) PROVE Exists(id)
  BY DEF PageOf, Listed, HasIt, Exists

LEMMA ComparedRound ==
  ASSUME Shapes, NEW live
  PROVE  /\ DOMAIN Compared(live) = Fields
         /\ Compared(live).phase = "confirm"
         /\ Compared(live).candidate = round.candidate \ live
         /\ Compared(live).live = live \ round.known
  BY DEF Compared, Shapes, Fields

(* A step of the audit that leaves the mirror, PCO and the answer alone    *)
(* and gathers only ids of records PCO had.                                *)
LEMMA RoundMoves ==
  ASSUME AuditInv, UNCHANGED <<pco, sent, mirror, answer>>,
         DOMAIN round' = Fields,
         \A id \in round'.candidate : Exists(id),
         \A id \in round'.live : Exists(id),
         answer = NoAnswer \/ round'.phase \in {round.phase, "restore"}
  PROVE  AuditInv'
<1> USE DEF AuditInv
<1>1. \A id : Exists(id)' <=> Exists(id)
  BY DEF Exists
<1>2. \A id : Final(id)' <=> Final(id)
  BY DEF Final
<1>3. Shapes'
  BY DEF Shapes, Held
<1>4. Born'
  BY <1>1 DEF Born, Known
<1>5. InHand'
  BY <1>1, <1>2 DEF InHand
<1>6. Absent'
  BY <1>2 DEF Absent
<1> QED BY <1>3, <1>4, <1>5, <1>6

LEMMA EnumerateAudit ==
  ASSUME AuditInv, Enumerate \/ EnumerateError PROVE AuditInv'
<1> USE DEF AuditInv
<1>0. round.phase = "enumerate" /\ answer = NoAnswer /\ UNCHANGED <<pco, sent, mirror, answer>>
  BY DEF Enumerate, EnumerateError, InHand
<1>1. CASE Enumerate
  <2> DEFINE page == PageOf(Listed(round.cursor), round.off)
             live == round.live \cup page
  <2>1. \A id \in live : Exists(id)
    BY PageExists DEF Born
  <2>2. CASE round' = Compared(live)
    <3> HIDE DEF live
    <3> QED BY <1>0, <2>1, <2>2, ComparedRound, RoundMoves DEF Born
  <2>3. CASE round' # Compared(live)
    <3>1. round' = [round EXCEPT !.live = live, !.keyset = NextPage(page).keyset,
                      !.cursor = NextPage(page).cursor, !.off = NextPage(page).off]
      BY <1>1, <2>3 DEF Enumerate
    <3> HIDE DEF live
    <3>2. DOMAIN round' = Fields /\ round'.live = live /\ round'.candidate = round.candidate
      BY <3>1 DEF Shapes, Fields
    <3> QED BY <1>0, <2>1, <3>2, RoundMoves DEF Born
  <2> QED BY <2>2, <2>3
<1>2. CASE EnumerateError
  <2>1. round' = Compared(round.live)
    BY <1>2 DEF EnumerateError
  <2> QED BY <1>0, <2>1, ComparedRound, RoundMoves DEF Born
<1> QED BY <1>1, <1>2

LEMMA RoundAudit ==
  ASSUME AuditInv, StartRound \/ Confirmed \/ FinishRound \/ Drop PROVE AuditInv'
<1> USE DEF AuditInv
<1>1. CASE StartRound
  <2>1. /\ UNCHANGED <<pco, sent, mirror, answer>> /\ answer = NoAnswer
        /\ DOMAIN round' = Fields /\ round'.live = {}
        /\ round'.candidate = {id \in Owners : Live(mirror, id)}
    BY <1>1 DEF StartRound, NoRound, Fields, InHand
  <2>2. \A id \in round'.candidate : Exists(id)
    BY <2>1 DEF Born, Live, Known
  <2> QED BY <2>1, <2>2, RoundMoves
<1>2. CASE Confirmed
  <2>1. /\ UNCHANGED <<pco, sent, mirror, answer>> /\ DOMAIN round' = Fields
        /\ round'.live = round.live /\ round'.candidate = round.candidate
        /\ round'.phase = "restore"
    BY <1>2 DEF Confirmed, Shapes, Fields
  <2> QED BY <2>1, RoundMoves DEF Born
<1>3. CASE FinishRound
  <2>1. /\ UNCHANGED <<pco, sent, mirror, answer>> /\ answer = NoAnswer
        /\ DOMAIN round' = Fields /\ round'.live = {} /\ round'.candidate = {}
    BY <1>3 DEF FinishRound, NoRound, Fields
  <2> QED BY <2>1, RoundMoves
<1>4. CASE Drop
  <2>1. /\ UNCHANGED <<pco, sent, mirror>> /\ answer' = NoAnswer /\ DOMAIN round' = Fields
        /\ round'.live \subseteq round.live /\ round'.candidate \subseteq round.candidate
    BY <1>4 DEF Drop, Shapes, Fields
  <2>2. Shapes' /\ Born' /\ InHand' /\ Absent'
    BY <2>1 DEF NoAnswer, Shapes, Held, Born, InHand, Absent, Exists, Final, Known
  <2> QED BY <2>2
<1> QED BY <1>1, <1>2, <1>3, <1>4

LEMMA AskAudit ==
  ASSUME AuditAssumption, AuditInv, Ask \/ AskError PROVE AuditInv'
<1> USE DEF AuditInv
<1>0. /\ Left # {} /\ Left \subseteq Nat /\ \A id \in Left : Exists(id)
      /\ round.phase \in {"confirm", "restore"}
  BY DEF Ask, AskError, Asking, Left, Born, Exists, AuditAssumption
<1>1. Exists(Min(Left))
  BY <1>0, MinIn
<1>2. UNCHANGED <<pco, sent, mirror, round>> /\ answer'.id = Min(Left)
  BY DEF Ask, AskError
<1>3. answer'.status = "404" => ~ HasIt(Min(Left))
  BY DEF Ask, AskError
<1>4. ASSUME ~ HasIt(Min(Left)), round.phase = "confirm" PROVE Final(Min(Left))
  BY <1>1, <1>4 DEF Shapes, HasIt, Final, Exists
<1>5. InHand'
  BY <1>0, <1>1, <1>2, <1>3, <1>4 DEF InHand, Exists, Final
<1>6. Shapes' /\ Born' /\ Absent'
  BY <1>2 DEF Ask, AskError, Shapes, Held, Born, Absent, Exists, Final, Known
<1> QED BY <1>5, <1>6

-----------------------------------------------------------------------------
(* Writing an answer. *)

LEMMA WriteAudit ==
  ASSUME AuditAssumption, AuditInv, Write PROVE AuditInv'
<1> USE DEF AuditInv
<1>0. /\ answer # NoAnswer /\ Exists(answer.id) /\ answer.id \in Owners
      /\ UNCHANGED <<pco, sent>> /\ mirror' = Verdict
      /\ round.phase \in {"confirm", "restore"}
  BY DEF Write, NoAnswer, InHand, Exists
<1>1. /\ Held(mirror') /\ \A c \in Owners \ {answer.id} : mirror'[c] = mirror[c]
      /\ mirror'[answer.id].why = "audit_absent"
           => mirror[answer.id].why = "audit_absent" \/ Final(answer.id)
  <2>1. CASE answer.status = "200"
    BY <1>0, <2>1, ConfirmLiveWhy DEF Verdict, Shapes
  <2>2. CASE answer.status = "404" /\ round.phase = "confirm"
    BY <1>0, <2>2, TombstoneWhy DEF Verdict, Shapes, InHand
  <2>3. CASE answer.status # "200" /\ ~ (answer.status = "404" /\ round.phase = "confirm")
    BY <1>0, <2>3 DEF Verdict, Shapes
  <2> QED BY <2>1, <2>2, <2>3
<1>2. /\ DOMAIN round' = Fields /\ round'.phase = round.phase
      /\ round'.live = round.live /\ round'.candidate = round.candidate
  BY DEF Write, Shapes, Fields
<1>3. /\ answer'.id = answer.id /\ answer'.status = answer.status
      /\ DOMAIN answer' = {"at", "id", "uat", "status"}
  BY DEF Write, Shapes
<1>4. Shapes'
  BY <1>0, <1>1, <1>2, <1>3 DEF Shapes
<1>7. Born'
  BY <1>0, <1>1, <1>2 DEF Born, Exists, Known
<1>5. InHand' /\ Absent'
  BY <1>0, <1>1, <1>2, <1>3 DEF InHand, Absent, Exists, Final
<1> QED BY <1>4, <1>5, <1>7

LEMMA CrashAudit == ASSUME AuditInv, Crash PROVE AuditInv'
<1> USE DEF AuditInv
<1>1. /\ UNCHANGED <<pco, sent, mirror>> /\ answer' = NoAnswer /\ DOMAIN round' = Fields
      /\ round'.live = round.live /\ round'.candidate = round.candidate
  BY DEF Crash, Shapes, Fields
<1> QED BY <1>1 DEF NoAnswer, Shapes, Held, Born, InHand, Absent, Exists, Final, Known

-----------------------------------------------------------------------------
(* PCO and its webhooks. *)

(* PCO's records come and go, once each. *)
LEMMA PcoMoves ==
  ASSUME AuditInv, UNCHANGED <<mirror, round, answer>>, DOMAIN pco' = Owners,
         \A id \in Owners : /\ pco'[id].st \in {"unborn", "live", "gone"}
                            /\ pco[id].st = "gone" => pco'[id].st = "gone"
                            /\ pco[id].st # "unborn" => pco'[id].st # "unborn",
         \A f \in sent' : f \in sent \/ Exists(f.id)'
  PROVE  AuditInv'
<1> USE DEF AuditInv
<1>1. \A id : Exists(id) => Exists(id)'
  BY DEF Exists
<1>2. \A id : Final(id) => Final(id)'
  BY DEF Final
<1>3. Shapes'
  BY DEF Shapes, Held
<1>4. Born'
  BY <1>1 DEF Born, Known
<1>5. InHand' /\ Absent'
  BY <1>1, <1>2 DEF InHand, Absent
<1> QED BY <1>3, <1>4, <1>5

LEMMA PcoAudit ==
  ASSUME AuditInv, NEW id \in Owners,
         PcoDestroy(id) \/ \E t \in Time : PcoChange(id, t)
  PROVE  AuditInv'
<1>1. \A f \in sent' : f \in sent \/ f.id = id
  BY DEF PcoDestroy, PcoChange
<1>2. UNCHANGED <<mirror, round, answer>>
  BY DEF PcoDestroy, PcoChange
<1>3. /\ DOMAIN pco' = Owners /\ \A x \in Owners \ {id} : pco'[x] = pco[x]
      /\ \/ pco[id].st = "live" /\ pco'[id].st = "gone"
         \/ pco[id].st # "gone" /\ pco'[id].st = "live"
  BY DEF PcoDestroy, PcoChange, HasIt, AuditInv, Shapes
<1>4. \A x \in Owners : /\ pco'[x].st \in {"unborn", "live", "gone"}
                        /\ pco[x].st = "gone" => pco'[x].st = "gone"
                        /\ pco[x].st # "unborn" => pco'[x].st # "unborn"
  BY <1>3 DEF AuditInv, Shapes
<1>5. Exists(id)'
  BY <1>3 DEF Exists
<1> QED BY <1>1, <1>2, <1>3, <1>4, <1>5, PcoMoves

LEMMA DeliverAudit ==
  ASSUME AuditAssumption, AuditInv, NEW f \in sent, Deliver(f) PROVE AuditInv'
<1> USE DEF AuditInv
<1>0. Exists(f.id) /\ f.id \in Owners /\ UNCHANGED <<pco, sent, round, answer>>
  BY DEF Deliver, Born, Exists
<1>1. /\ Held(mirror') /\ \A c \in Owners \ {f.id} : mirror'[c] = mirror[c]
      /\ mirror'[f.id].why = "audit_absent" => mirror[f.id].why = "audit_absent"
  <2>1. CASE f.kind = "update"
    BY <1>0, <2>1, UpsertWhy DEF Deliver, Shapes
  <2>2. CASE f.kind # "update"
    BY <1>0, <2>2, TombstoneWhy DEF Deliver, Shapes
  <2> QED BY <2>1, <2>2
<1>2. Shapes' /\ Born'
  BY <1>0, <1>1 DEF Shapes, Born, Exists, Known
<1>3. InHand' /\ Absent'
  BY <1>0, <1>1 DEF InHand, Absent, Exists, Final
<1> QED BY <1>2, <1>3

LEMMA StepAudit ==
  AuditAssumption /\ AuditInv /\ [Next]_vars => AuditInv'
<1> SUFFICES ASSUME AuditAssumption, AuditInv, [Next]_vars PROVE AuditInv'
  OBVIOUS
<1>1. CASE Audit
  BY <1>1, EnumerateAudit, RoundAudit, AskAudit, WriteAudit DEF Audit
<1>2. CASE EnumerateError \/ AskError \/ Crash
  BY <1>2, EnumerateAudit, AskAudit, CrashAudit
<1>3. CASE \E id \in Owners : PcoDestroy(id) \/ \E t \in Time : PcoChange(id, t)
  BY <1>3, PcoAudit
<1>4. CASE \E f \in sent : Deliver(f)
  BY <1>4, DeliverAudit
<1>5. CASE UNCHANGED vars
  BY <1>5 DEF vars, AuditInv, Shapes, Held, Born, InHand, Absent, Exists, Final, Known
<1> QED BY <1>1, <1>2, <1>3, <1>4, <1>5 DEF Next

(* A row the audit buried is of a record PCO has destroyed: for every set  *)
(* of records and page size, however the list is torn by changes, errors   *)
(* and crashes, and whatever webhooks come in between.                     *)
THEOREM AuditBuriesOnlyTheGone == AuditAssumption => (Spec => []AbsentIsGone)
<1> SUFFICES ASSUME AuditAssumption PROVE Spec => []AbsentIsGone
  OBVIOUS
<1>1. Init => AuditInv
  BY InitAudit
<1>2. AuditInv /\ [Next]_vars => AuditInv'
  BY StepAudit
<1>3. AuditInv => AbsentIsGone
  BY DEF AuditInv, Absent, Final, AbsentIsGone, HasIt
<1> QED BY <1>1, <1>2, <1>3, PTL DEF Spec

-----------------------------------------------------------------------------
(* A round settles what it owes.  An id that mirror and PCO disagreed on   *)
(* when the round began either is gone (Doomed) and waits to be asked      *)
(* about, or is missing (Missed): not yet listed, then gathered, then      *)
(* fetched.  What PCO has not listed yet has a rank, the number of records *)
(* listed before it, at or past the offset of the page to come.            *)

(* PCO lists by created_at.                                                *)
Before(ids) == [r \in ids |-> {q \in ids : Elder(q, r)}]

(* Not yet on a page of the enumeration.                                   *)
Ahead(id) ==
  /\ id \in Listed(round.cursor)
  /\ Cardinality({q \in Listed(round.cursor) : Elder(q, id)}) >= round.off

(* Times are seconds.                                                      *)
Stamped ==
  /\ \A id \in Owners : pco[id].born \in Time /\ pco[id].uat \in Time /\ mirror[id].raw.uat \in Time
  /\ \A f \in sent : f.uat \in Time
  /\ answer.uat \in Time

(* Once compared, the two lists of a round share nothing with one another. *)
RoundShape ==
  /\ round.cursor \in Nat /\ round.off \in Nat /\ round.restored \in 0 .. RestoreLimit
  /\ round.phase \in Phases
  /\ round.candidate \subseteq round.known
  /\ round.phase \in {"confirm", "restore"} => round.live \cap round.known = {}
  /\ round.phase = "restore" => round.candidate = {}

(* The answer in hand is the right one for an id that is owed; written, it *)
(* has settled the id.                                                     *)
Answering ==
  answer # NoAnswer =>
    /\ answer.at \in {"write", "drop"} /\ answer.id \in Left
    /\ round.phase = "restore" =>
         IF answer.at = "write" THEN round.restored < RestoreLimit
         ELSE answer.status = "200" => round.restored > 0
    /\ answer.id \in owed =>
         /\ answer.status = IF HasIt(answer.id) THEN "200" ELSE "404"
         /\ answer.at = "drop" => (Live(mirror, answer.id) <=> HasIt(answer.id))

(* In the mirror and gone from PCO: asked about unless buried already.     *)
Doomed(id) ==
  /\ Final(id) /\ id \in round.known
  /\ id \in round.candidate \/ ~ Live(mirror, id)
  /\ round.phase = "enumerate" => id \notin round.live

(* At PCO and not in the mirror, unless fetched already.                   *)
Missed(id) ==
  /\ HasIt(id) /\ id \notin round.known
  /\ \/ Live(mirror, id) \/ id \in round.live
     \/ round.phase = "enumerate" /\ Ahead(id)

Owing == \A id \in owed : id \in Owners /\ round.phase # "none" /\ (Doomed(id) \/ Missed(id))

SettleInv == AuditInv /\ Stamped /\ RoundShape /\ Answering /\ Owing

LEMMA AuditFacts ==
  ASSUME AuditAssumption
  PROVE  /\ Owners \subseteq Nat /\ IsFiniteSet(Owners)
         /\ PageSize \in Nat \ {0} /\ RestoreLimit \in Nat \ {0}
         /\ MaxTime \in Nat \ {0} /\ Time = 0 .. MaxTime /\ 2 \in Time
  BY MirrorAssumption DEF AuditAssumption, MirrorAssumption, Time, NoTime

LEMMA BornOrder ==
  ASSUME AuditAssumption, Stamped, NEW T, T \subseteq Owners
  PROVE  Listing(T, Before(T))
<1>1. IsFiniteSet(T) /\ \A r \in T : r \in Nat /\ pco[r].born \in Nat
  BY AuditFacts, FS_Subset DEF Stamped
<1> QED BY <1>1 DEF Listing, Before, Elder

(* What a page of the enumeration leaves for the next.                     *)
LEMMA PageLeaves ==
  ASSUME AuditAssumption, Stamped, NEW from, NEW off \in Nat, NEW page,
         page = PageOf(Listed(from), off)
  PROVE  /\ page \subseteq Listed(from) /\ Listed(from) \subseteq Owners
         /\ \A id \in Listed(from) :
              LET rank == Cardinality({q \in Listed(from) : Elder(q, id)})
              IN  /\ rank \in Nat
                  /\ rank >= off /\ id \notin page =>
                       /\ rank >= off + PageSize /\ Cardinality(page) = PageSize
                       /\ \A q \in page : pco[q].born <= pco[id].born
<1> DEFINE T == Listed(from)
           Rank(id) == Cardinality(Before(T)[id])
<1> USE AuditFacts
<1>1. T \subseteq Owners
  BY DEF Listed
<1>2. Listing(T, Before(T))
  BY <1>1, BornOrder
<1>3. \A id \in T : Before(T)[id] = {q \in T : Elder(q, id)}
  BY DEF Before
<1>4. page = {r \in T : Cardinality(Before(T)[r]) \in off .. off + PageSize - 1}
  BY <1>3 DEF PageOf
<1>5. /\ \A r \in T : Rank(r) \in Nat
      /\ \A q, r \in T : q \in Before(T)[r] <=> Rank(q) < Rank(r)
  BY <1>2, RanksOrdered
<1> HIDE DEF T
<1>6. ASSUME NEW id \in T, Rank(id) >= off, id \notin page
      PROVE  /\ Rank(id) >= off + PageSize /\ Cardinality(page) = PageSize
             /\ \A q \in page : pco[q].born <= pco[id].born
  <2>1. Rank(id) >= off + PageSize
    BY <1>4, <1>5, <1>6
  <2>2. Cardinality(page) = PageSize
    <3>1. ~ (Rank(id) < off + PageSize)
      BY <1>5, <2>1
    <3> QED BY <1>2, <1>4, <3>1, LastPage
  <2>3. ASSUME NEW q \in page PROVE pco[q].born <= pco[id].born
    <3>1. q \in T /\ Rank(q) < Rank(id)
      BY <1>4, <1>5, <2>1
    <3>2. Elder(q, id)
      BY <1>3, <1>5, <3>1
    <3>3. pco[q].born \in Nat /\ pco[id].born \in Nat
      BY <1>1, <3>1 DEF Stamped
    <3> QED BY <3>2, <3>3 DEF Elder
  <2> QED BY <2>1, <2>2, <2>3
<1>7. page \subseteq T
  BY <1>4
<1>8. ASSUME NEW id \in T
      PROVE  LET rank == Cardinality({q \in T : Elder(q, id)})
             IN  /\ rank \in Nat
                 /\ rank >= off /\ id \notin page =>
                       /\ rank >= off + PageSize /\ Cardinality(page) = PageSize
                       /\ \A q \in page : pco[q].born <= pco[id].born
  <2>1. Rank(id) = Cardinality({q \in T : Elder(q, id)})
    BY <1>3
  <2> HIDE DEF Rank
  <2> QED BY <1>5, <1>6, <2>1
<1> QED BY <1>1, <1>7, <1>8 DEF T

LEMMA NewestIn ==
  ASSUME AuditAssumption, Stamped, NEW page, page \subseteq Owners, page # {}
  PROVE  Newest(page) \in Nat /\ \E q \in page : Newest(page) = pco[q].born
<1> DEFINE times == {pco[id].born : id \in page}
<1>1. times \subseteq 0 .. MaxTime /\ times # {} /\ MaxTime \in Nat
  BY AuditFacts DEF Stamped
<1>2. Newest(page) = Max(times)
  BY DEF Newest
<1>3. Max(times) \in Nat /\ Max(times) \in times
  <2> HIDE DEF times
  <2> QED BY <1>1, MaxIn
<1> QED BY <1>2, <1>3

LEMMA StartSettles ==
  ASSUME AuditAssumption, SettleInv, StartRound, AuditInv'
  PROVE  SettleInv'
<1> USE DEF SettleInv
<1>1. /\ UNCHANGED <<pco, sent, mirror, answer>> /\ answer = NoAnswer
      /\ round'.phase = "enumerate" /\ round'.cursor = 0 /\ round'.off = 0 /\ round'.restored = 0
      /\ round'.candidate = {id \in Owners : Live(mirror, id)}
      /\ round'.known = {id \in Owners : Known(mirror, id)} /\ round'.live = {}
      /\ owed' = {id \in Disagreed : Live(mirror, id) \/ ~ Known(mirror, id)}
  BY DEF StartRound, NoRound, AuditInv, InHand
<1>2. Stamped' /\ Answering'
  BY <1>1 DEF Stamped, Answering
<1>3. RoundShape'
  BY <1>1, AuditFacts DEF RoundShape, Phases, Live, Known
<1>4. ASSUME NEW id \in owed' PROVE id \in Owners /\ (Doomed(id)' \/ Missed(id)')
  <2>1. id \in Owners /\ Live(mirror, id) # HasIt(id) /\ (Live(mirror, id) \/ ~ Known(mirror, id))
    BY <1>1, <1>4 DEF Disagreed
  <2>2. CASE Live(mirror, id)
    <3>1. Known(mirror, id) /\ Exists(id)
      BY <2>1, <2>2 DEF Live, Known, AuditInv, Born
    <3>2. Final(id)
      BY <2>1, <2>2, <3>1 DEF HasIt, Exists, Final, AuditInv, Shapes, Live
    <3>3. Doomed(id)'
      BY <1>1, <2>1, <2>2, <3>1, <3>2 DEF Doomed, Final
    <3> QED BY <2>1, <3>3
  <2>3. CASE ~ Live(mirror, id)
    <3>1. HasIt(id) /\ ~ Known(mirror, id)
      BY <2>1, <2>3 DEF HasIt, Live
    <3>2. pco[id].born >= 0
      BY <2>1, AuditFacts DEF Stamped
    <3>3. Listed(0)' = Listed(0) /\ id \in Listed(0)
      BY <1>1, <2>1, <3>1, <3>2 DEF Listed, HasIt, StartRound
    <3>4. Cardinality({q \in Listed(0) : Elder(q, id)}) \in Nat
      BY <3>3, PageLeaves, 0 \in Nat
    <3>5. {q \in Listed(0) : Elder(q, id)}' = {q \in Listed(0) : Elder(q, id)}
      BY <1>1, <3>3 DEF Elder
    <3>6. Ahead(id)'
      BY <1>1, <3>3, <3>4, <3>5 DEF Ahead
    <3> QED BY <1>1, <2>1, <3>1, <3>6 DEF Missed, HasIt
  <2> QED BY <2>2, <2>3
<1> QED BY <1>1, <1>2, <1>3, <1>4 DEF Owing

LEMMA EnumerateSettles ==
  ASSUME AuditAssumption, SettleInv, Enumerate, AuditInv'
  PROVE  SettleInv'
<1> DEFINE page == PageOf(Listed(round.cursor), round.off)
           live == round.live \cup page
           next == NextPage(page)
<1> USE DEF SettleInv
<1>1. /\ round.phase = "enumerate" /\ answer = NoAnswer
      /\ UNCHANGED <<honours, pco, sent, mirror, answer, owed>>
      /\ \/ Cardinality(page) # PageSize /\ round' = Compared(live)
         \/ /\ page # {}
            /\ round' = [round EXCEPT !.live = live, !.keyset = next.keyset,
                           !.cursor = next.cursor, !.off = next.off]
  <2>1. round.phase = "enumerate" /\ answer = NoAnswer
        /\ UNCHANGED <<honours, pco, sent, mirror, answer, owed>>
    BY DEF Enumerate, AuditInv, InHand
  <2>2. CASE Cardinality(page) < PageSize /\ ~ (page # {} /\ round.keyset /\ Newest(page) < round.cursor)
    <3>1. Cardinality(page) # PageSize
      BY <2>2, AuditFacts
    <3>2. round' = Compared(live)
      BY <2>2 DEF Enumerate
    <3> QED BY <2>1, <3>1, <3>2
  <2>3. CASE ~ (Cardinality(page) < PageSize /\ ~ (page # {} /\ round.keyset /\ Newest(page) < round.cursor))
    <3>1. page # {}
      <4>1. SUFFICES ASSUME page = {} PROVE FALSE
        OBVIOUS
      <4>2. Cardinality(page) = 0
        BY <4>1, FS_EmptySet
      <4> QED BY <2>3, <4>1, <4>2, AuditFacts
    <3>2. round' = [round EXCEPT !.live = live, !.keyset = next.keyset,
                           !.cursor = next.cursor, !.off = next.off]
      BY <2>3 DEF Enumerate
    <3> QED BY <2>1, <3>1, <3>2
  <2> QED BY <2>2, <2>3
<1>2. /\ page \subseteq Listed(round.cursor) /\ Listed(round.cursor) \subseteq Owners
      /\ \A id \in Listed(round.cursor) :
           LET rank == Cardinality({q \in Listed(round.cursor) : Elder(q, id)})
           IN  /\ rank \in Nat
               /\ rank >= round.off /\ id \notin page =>
                    /\ rank >= round.off + PageSize /\ Cardinality(page) = PageSize
                    /\ \A q \in page : pco[q].born <= pco[id].born
  BY PageLeaves DEF RoundShape
<1>3. \A id \in page : id \in Owners /\ HasIt(id)
  BY <1>2 DEF Listed
<1> HIDE DEF page
<1>4. Stamped' /\ Answering'
  BY <1>1 DEF Stamped, Answering
<1>5. CASE Cardinality(page) # PageSize /\ round' = Compared(live)
  <2>1. /\ round'.phase = "confirm" /\ round'.candidate = round.candidate \ live
        /\ round'.live = live \ round.known /\ round'.known = round.known
        /\ round'.cursor = round.cursor /\ round'.off = round.off /\ round'.restored = round.restored
    BY <1>5 DEF Compared, AuditInv, Shapes, Fields
  <2>2. RoundShape'
    BY <2>1 DEF RoundShape, Phases
  <2>3. ASSUME NEW id \in owed, Doomed(id) PROVE Doomed(id)'
    <3>1. id \notin live
      BY <1>1, <1>3, <2>3 DEF Doomed, Final, HasIt
    <3> QED BY <1>1, <2>1, <2>3, <3>1 DEF Doomed, Final, Live
  <2>4. ASSUME NEW id \in owed, Missed(id) PROVE Missed(id)'
    <3>1. Live(mirror, id) \/ id \in live
      BY <1>2, <1>5, <2>4 DEF Missed, Ahead
    <3> QED BY <1>1, <2>1, <2>4, <3>1 DEF Missed, HasIt, Live
  <2>5. Owing'
    BY <1>1, <2>1, <2>3, <2>4 DEF Owing
  <2> QED BY <1>4, <2>2, <2>5
<1>6. CASE /\ page # {}
           /\ round' = [round EXCEPT !.live = live, !.keyset = next.keyset,
                          !.cursor = next.cursor, !.off = next.off]
  <2>1. /\ round'.phase = "enumerate" /\ round'.candidate = round.candidate
        /\ round'.live = live /\ round'.known = round.known /\ round'.restored = round.restored
        /\ round'.cursor = next.cursor /\ round'.off = next.off
    BY <1>1, <1>6 DEF AuditInv, Shapes, Fields
  <2>2. Newest(page) \in Nat /\ \E q \in page : Newest(page) = pco[q].born
    BY <1>2, <1>6, NewestIn
  <2>3. Cardinality(page) \in Nat
    BY <1>2, AuditFacts, FS_Subset, FS_CardinalityType
  <2>4. \/ next.cursor = 0 /\ next.off = 0
        \/ next.cursor = round.cursor /\ next.off = round.off + Cardinality(page)
        \/ next.cursor = Newest(page) /\ next.off = 0
    BY DEF NextPage
  <2>5. next.cursor \in Nat /\ next.off \in Nat
    BY <2>2, <2>3, <2>4 DEF RoundShape
  <2> HIDE DEF next
  <2>6. RoundShape'
    BY <1>1, <2>1, <2>5 DEF RoundShape, Phases
  <2>7. ASSUME NEW id \in owed, Doomed(id) PROVE Doomed(id)'
    <3>1. id \notin page
      BY <1>3, <2>7 DEF Doomed, Final, HasIt
    <3> QED BY <1>1, <2>1, <2>7, <3>1 DEF Doomed, Final, Live
  <2>8. ASSUME NEW id \in Listed(round.cursor), id \notin page,
               Cardinality({q \in Listed(round.cursor) : Elder(q, id)}) >= round.off
        PROVE  Ahead(id)'
    <3>0. /\ Cardinality({q \in Listed(round.cursor) : Elder(q, id)}) >= round.off + PageSize
          /\ Cardinality(page) = PageSize
          /\ \A q \in page : pco[q].born <= pco[id].born
      BY <1>2, <2>8
    <3>1. id \in Owners /\ HasIt(id) /\ pco[id].born \in Nat /\ (honours => pco[id].born >= round.cursor)
      BY <1>2, AuditFacts DEF Listed, Stamped
    <3>2. id \in Listed(next.cursor)
      <4>1. honours => pco[id].born >= next.cursor
        BY <2>2, <2>4, <3>0, <3>1
      <4> QED BY <3>1, <4>1 DEF Listed
    <3>3. Cardinality({q \in Listed(next.cursor) : Elder(q, id)}) >= next.off
      <4>1. Cardinality({q \in Listed(next.cursor) : Elder(q, id)}) \in Nat
        <5>1. {q \in Listed(next.cursor) : Elder(q, id)} \subseteq Owners
          BY DEF Listed
        <5> HIDE DEF live
        <5> QED BY <5>1, AuditFacts, FS_Subset, FS_CardinalityType
      <4>2. CASE next.off = 0
        BY <4>1, <4>2
      <4>3. CASE next.cursor = round.cursor /\ next.off = round.off + Cardinality(page)
        <5>1. Cardinality({q \in Listed(next.cursor) : Elder(q, id)})
                = Cardinality({q \in Listed(round.cursor) : Elder(q, id)})
          BY <4>3
        <5> QED BY <3>0, <4>3, <5>1
      <4> QED BY <2>4, <4>2, <4>3
    <3>4. Listed(round.cursor)' = Listed(next.cursor)
      BY <1>1, <2>1 DEF Listed, HasIt
    <3>5. {q \in Listed(round.cursor) : Elder(q, id)}' = {q \in Listed(next.cursor) : Elder(q, id)}
      BY <1>1, <2>1, <3>4 DEF Elder, Listed, HasIt
    <3> QED BY <2>1, <3>2, <3>3, <3>4, <3>5 DEF Ahead
  <2>9. ASSUME NEW id \in owed, Missed(id) PROVE Missed(id)'
    <3>1. Live(mirror, id) \/ id \in live \/ Ahead(id)'
      BY <2>8, <2>9 DEF Missed, Ahead
    <3> QED BY <1>1, <2>1, <2>9, <3>1 DEF Missed, HasIt, Live
  <2>10. Owing'
    BY <1>1, <2>1, <2>7, <2>9 DEF Owing
  <2> QED BY <1>4, <2>6, <2>10
<1> QED BY <1>1, <1>5, <1>6

LEMMA EnumerateErrorSettles ==
  ASSUME AuditAssumption, SettleInv, EnumerateError, AuditInv'
  PROVE  SettleInv'
<1> USE DEF SettleInv
<1>1. /\ round.phase = "enumerate" /\ answer = NoAnswer /\ round' = Compared(round.live)
      /\ UNCHANGED <<honours, pco, sent, mirror, answer>> /\ owed' = owed \cap round.known
  BY DEF EnumerateError, AuditInv, InHand
<1>2. /\ round'.phase = "confirm" /\ round'.candidate = round.candidate \ round.live
      /\ round'.live = round.live \ round.known /\ round'.known = round.known
      /\ round'.cursor = round.cursor /\ round'.off = round.off /\ round'.restored = round.restored
  BY <1>1 DEF Compared, AuditInv, Shapes, Fields
<1>3. Stamped' /\ Answering'
  BY <1>1 DEF Stamped, Answering
<1>4. RoundShape'
  BY <1>2 DEF RoundShape, Phases
<1>5. ASSUME NEW id \in owed' PROVE Doomed(id)' /\ id \in Owners
  <2>1. Doomed(id) /\ id \in Owners
    BY <1>1, <1>5 DEF Owing, Missed
  <2> QED BY <1>1, <1>2, <2>1 DEF Doomed, Final, Live
<1>6. Owing'
  BY <1>2, <1>5 DEF Owing
<1> QED BY <1>3, <1>4, <1>6

(* What a call of the writer makes of a row's updated_at.                  *)
LEMMA WriterStamps ==
  ASSUME AuditAssumption, NEW m, Held(m), NEW id \in Owners, m[id].raw.uat \in Time, NEW t \in Time
  PROVE  /\ Upsert(m, id, Copy(t))[id].raw.uat \in Time
         /\ ConfirmLive(m, id, Copy(t))[id].raw.uat \in Time
         /\ \A why : Tombstone(m, id, NoTime, why, Nobody)[id].raw.uat \in Time
<1>1. Upsert(m, id, Copy(t))[id].raw.uat \in Time
  <2> DEFINE w == [m EXCEPT ![id] = IF Known(m, id) THEN Upserted(m[id], Copy(t)) ELSE Inserted(Copy(t))]
  <2>1. Held(w)
    BY DEF Held
  <2>2. w[id].raw.uat \in Time
    BY DEF Held, Upserted, Lifted, Holding, Inserted, Copy
  <2>3. Upsert(m, id, Copy(t)) = Uncascade(w, id)
    BY DEF Upsert
  <2> HIDE DEF w
  <2> QED BY <2>1, <2>2, <2>3, NothingOwned
<1>2. ConfirmLive(m, id, Copy(t))[id].raw.uat \in Time
  <2> DEFINE w == [m EXCEPT ![id] = Inserted(Copy(t))]
  <2>1. Held(w) /\ w[id].raw.uat \in Time
    BY DEF Held, Inserted, Copy
  <2>2. ConfirmLive(m, id, Copy(t)) = Uncascade(w, id)
    BY DEF ConfirmLive
  <2> HIDE DEF w
  <2> QED BY <2>1, <2>2, NothingOwned
<1>3. ASSUME NEW why PROVE Tombstone(m, id, NoTime, why, Nobody)[id].raw.uat \in Time
  <2> DEFINE grave == Buried(m[id], why, Coalesce(NoTime, m[id].raw.uat),
                             IF Nobody # Nobody THEN Nobody ELSE m[id].into)
             w == IF Known(m, id) /\ Buries(m[id], NoTime, why)
                  THEN [m EXCEPT ![id] = grave] ELSE m
  <2>1. Held(w) /\ w[id].raw.uat \in Time
    BY DEF Held, Buried
  <2>2. Tombstone(m, id, NoTime, why, Nobody) = IF why \in Gone THEN Cascade(w, id) ELSE w
    BY DEF Tombstone
  <2> HIDE DEF w
  <2> QED BY <2>1, <2>2, NothingOwned
<1> QED BY <1>1, <1>2, <1>3

(* A 404 always buries: the audit's tombstone carries no timestamp.        *)
LEMMA AuditBuries ==
  ASSUME AuditAssumption, NEW m, Held(m), NEW id \in Owners, m[id].raw.uat \in Time
  PROVE  ~ Live(Tombstone(m, id, NoTime, "audit_absent", Nobody), id)
<1> DEFINE grave == Buried(m[id], "audit_absent", Coalesce(NoTime, m[id].raw.uat),
                           IF Nobody # Nobody THEN Nobody ELSE m[id].into)
           w == IF Known(m, id) /\ Buries(m[id], NoTime, "audit_absent")
                THEN [m EXCEPT ![id] = grave] ELSE m
<1>1. Held(w)
  BY DEF Held
<1>2. w[id].why # "live"
  <2>1. Buries(m[id], NoTime, "audit_absent")
    BY AuditFacts DEF Buries, Coalesce
  <2> QED BY <2>1 DEF Held, Buried, Known
<1>3. Tombstone(m, id, NoTime, "audit_absent", Nobody) = Cascade(w, id)
  BY DEF Tombstone, Gone
<1> HIDE DEF w
<1> QED BY <1>1, <1>2, <1>3, NothingOwned DEF Live

LEMMA AskSettles ==
  ASSUME AuditAssumption, SettleInv, Ask \/ AskError, AuditInv'
  PROVE  SettleInv'
<1> USE DEF SettleInv
<1>0. PICK id : id = Min(Left)
  OBVIOUS
<1>1. /\ Asking /\ UNCHANGED <<honours, pco, sent, mirror, round>>
      /\ answer'.at = "write" /\ answer'.id = id
      /\ \/ /\ owed' = owed /\ answer'.uat = (IF HasIt(id) THEN pco[id].uat ELSE 0)
            /\ answer'.status = IF HasIt(id) THEN "200" ELSE "404"
         \/ owed' = owed \ {id} /\ answer'.uat = 0
  BY <1>0 DEF Ask, AskError
<1>2. id \in Left /\ id \in Owners
  <2>1. Left # {} /\ Left \subseteq Owners
    BY <1>1 DEF Asking, Left, AuditInv, Born, Exists
  <2> QED BY <1>0, <2>1, AuditFacts, MinIn
<1>3. Stamped'
  <2>1. answer'.uat \in Time
    BY <1>1, <1>2, AuditFacts DEF Stamped
  <2> QED BY <1>1, <2>1 DEF Stamped
<1>4. RoundShape'
  BY <1>1 DEF RoundShape
<1>5. Answering'
  <2>1. round.phase = "restore" => round.restored < RestoreLimit
    BY <1>1 DEF Asking
  <2>2. Left' = Left /\ HasIt(id)' = HasIt(id) /\ HasIt(answer.id)' = HasIt(id)
    BY <1>1 DEF Left, HasIt
  <2> QED BY <1>1, <1>2, <2>1, <2>2 DEF Answering, HasIt
<1>6. Owing'
  <2>1. owed' \subseteq owed /\ Listed(round.cursor)' = Listed(round.cursor)
    BY <1>1 DEF Listed, HasIt
  <2>2. \A x : (Doomed(x)' <=> Doomed(x)) /\ (Ahead(x)' <=> Ahead(x)) /\ (HasIt(x)' <=> HasIt(x))
               /\ (Live(mirror, x)' <=> Live(mirror, x))
    BY <1>1, <2>1 DEF Doomed, Ahead, HasIt, Live, Final, Elder
  <2> QED BY <1>1, <2>1, <2>2 DEF Owing, Missed
<1> QED BY <1>3, <1>4, <1>5, <1>6

LEMMA WriteSettles ==
  ASSUME AuditAssumption, SettleInv, Write, AuditInv'
  PROVE  SettleInv'
<1> USE DEF SettleInv
<1>1. /\ answer.at = "write" /\ answer # NoAnswer /\ mirror' = Verdict
      /\ UNCHANGED <<honours, pco, sent, owed>>
      /\ answer'.at = "drop" /\ answer'.id = answer.id /\ answer'.status = answer.status /\ answer'.uat = answer.uat
      /\ answer.id \in Owners /\ round.phase \in {"confirm", "restore"}
      /\ Held(mirror)
  BY DEF Write, NoAnswer, AuditInv, InHand, Exists, Shapes
<1>2. /\ round'.phase = round.phase /\ round'.candidate = round.candidate /\ round'.live = round.live
      /\ round'.known = round.known /\ round'.cursor = round.cursor /\ round'.off = round.off
      /\ round'.restored = IF round.phase = "restore" /\ answer.status = "200"
                           THEN round.restored + 1 ELSE round.restored
  BY DEF Write, AuditInv, Shapes, Fields
<1>3. \A c \in Owners \ {answer.id} : mirror'[c] = mirror[c]
  BY <1>1, ConfirmLiveWhy, TombstoneWhy DEF Verdict
<1>4. mirror'[answer.id].raw.uat \in Time
  BY <1>1, WriterStamps DEF Verdict, Stamped
<1>5. answer.id \in owed => (Live(mirror', answer.id) <=> HasIt(answer.id))
  <2> SUFFICES ASSUME answer.id \in owed PROVE Live(mirror', answer.id) <=> HasIt(answer.id)
    OBVIOUS
  <2>1. answer.id \in Left /\ answer.status = IF HasIt(answer.id) THEN "200" ELSE "404"
    BY <1>1 DEF Answering
  <2>2. CASE HasIt(answer.id)
    BY <1>1, <2>1, <2>2, ConfirmLiveWhy DEF Verdict, Live
  <2>3. CASE ~ HasIt(answer.id)
    <3>1. round.phase = "confirm"
      BY <1>1, <2>1, <2>3 DEF Owing, Doomed, Missed, Left, RoundShape
    <3>2. mirror' = Tombstone(mirror, answer.id, NoTime, "audit_absent", Nobody)
      BY <1>1, <2>1, <2>3, <3>1 DEF Verdict
    <3> QED BY <1>1, <2>3, <3>2, AuditBuries DEF Stamped
  <2> QED BY <2>2, <2>3
<1>6. Stamped'
  BY <1>1, <1>3, <1>4 DEF Stamped
<1>7. RoundShape' /\ Answering'
  <2>1. /\ answer.id \in Left /\ round.restored \in 0 .. RestoreLimit
        /\ round.phase = "restore" => round.restored < RestoreLimit
    BY <1>1 DEF Answering, RoundShape
  <2>2. RoundShape'
    BY <1>2, <2>1, AuditFacts DEF RoundShape
  <2>3. Left' = Left /\ HasIt(answer.id)' = HasIt(answer.id) /\ Live(mirror, answer.id)' = Live(mirror', answer.id)
    BY <1>1, <1>2 DEF Left, HasIt, Live
  <2>4. answer.id \in owed => answer.status = IF HasIt(answer.id) THEN "200" ELSE "404"
    BY <1>1 DEF Answering
  <2>5. round.phase = "restore" /\ answer.status = "200" => round'.restored > 0
    BY <1>2, <2>1, AuditFacts
  <2>6. Answering'
    BY <1>1, <1>2, <1>5, <2>1, <2>3, <2>4, <2>5 DEF Answering, HasIt, Live
  <2> QED BY <2>2, <2>6
<1>8. ASSUME NEW id \in owed PROVE id \in Owners /\ (Doomed(id)' \/ Missed(id)')
  <2>1. CASE id # answer.id
    <3>1. id \in Owners /\ mirror'[id] = mirror[id] /\ (Doomed(id) \/ Missed(id))
      BY <1>3, <1>8, <2>1 DEF Owing
    <3> QED BY <1>1, <1>2, <3>1 DEF Doomed, Missed, Final, HasIt, Live
  <2>2. CASE id = answer.id
    BY <1>1, <1>2, <1>5, <1>8, <2>2 DEF Owing, Doomed, Missed, Final, HasIt, Live
  <2> QED BY <2>1, <2>2
<1>9. Owing'
  BY <1>1, <1>2, <1>8 DEF Owing
<1> QED BY <1>6, <1>7, <1>9

LEMMA DropSettles ==
  ASSUME AuditAssumption, SettleInv, Drop, AuditInv'
  PROVE  SettleInv'
<1> USE DEF SettleInv
<1>1. /\ answer.at = "drop" /\ answer # NoAnswer /\ answer' = NoAnswer
      /\ UNCHANGED <<honours, pco, sent, mirror, owed>>
      /\ answer.id \in Left /\ round.phase \in {"confirm", "restore"}
  BY DEF Drop, NoAnswer, AuditInv, InHand, Answering
<1>2. /\ round'.phase = round.phase /\ round'.candidate = round.candidate \ {answer.id}
      /\ round'.live = round.live \ {answer.id} /\ round'.known = round.known
      /\ round'.cursor = round.cursor /\ round'.off = round.off /\ round'.restored = round.restored
  BY DEF Drop, AuditInv, Shapes, Fields
<1>3. Stamped' /\ Answering'
  BY <1>1, AuditFacts DEF Stamped, Answering, NoAnswer
<1>4. RoundShape'
  BY <1>2 DEF RoundShape
<1>5. ASSUME NEW id \in owed PROVE id \in Owners /\ (Doomed(id)' \/ Missed(id)')
  <2>1. CASE id # answer.id
    BY <1>1, <1>2, <1>5, <2>1 DEF Owing, Doomed, Missed, Final, HasIt, Live
  <2>2. CASE id = answer.id
    <3>1. Live(mirror, id) <=> HasIt(id)
      BY <1>1, <1>5, <2>2 DEF Answering
    <3> QED BY <1>1, <1>2, <1>5, <2>2, <3>1 DEF Owing, Doomed, Missed, Final, HasIt, Live
  <2> QED BY <2>1, <2>2
<1>6. Owing'
  BY <1>1, <1>2, <1>5 DEF Owing
<1> QED BY <1>3, <1>4, <1>6

LEMMA PhaseSettles ==
  ASSUME AuditAssumption, SettleInv, Confirmed \/ FinishRound \/ Crash, AuditInv'
  PROVE  SettleInv'
<1> USE DEF SettleInv
<1>1. CASE Confirmed
  <2>1. /\ UNCHANGED <<honours, pco, sent, mirror, answer, owed>>
        /\ round.phase = "confirm" /\ round.candidate = {} /\ round'.phase = "restore"
        /\ round'.candidate = {} /\ round'.live = round.live /\ round'.known = round.known
        /\ round'.cursor = round.cursor /\ round'.off = round.off /\ round'.restored = round.restored
    BY <1>1 DEF Confirmed, AuditInv, Shapes, Fields
  <2>2. answer = NoAnswer
    BY <2>1 DEF Answering, Left
  <2>3. Stamped' /\ Answering' /\ RoundShape'
    BY <2>1, <2>2 DEF Stamped, Answering, RoundShape, Phases
  <2>4. Owing'
    BY <2>1 DEF Owing, Doomed, Missed, Final, HasIt, Live
  <2> QED BY <2>3, <2>4
<1>2. CASE FinishRound
  BY <1>2, AuditFacts DEF FinishRound, NoRound, Stamped, RoundShape, Answering, Owing, Phases
<1>3. CASE Crash
  <2>1. /\ UNCHANGED <<honours, pco, sent, mirror, owed>> /\ answer # NoAnswer /\ answer' = NoAnswer
        /\ round'.phase = round.phase /\ round'.candidate = round.candidate /\ round'.live = round.live
        /\ round'.known = round.known /\ round'.cursor = round.cursor /\ round'.off = round.off
        /\ round'.restored = IF round.phase = "restore" /\ answer.at = "drop" /\ answer.status = "200"
                             THEN round.restored - 1 ELSE round.restored
    BY <1>3 DEF Crash, AuditInv, Shapes, Fields
  <2>2. round'.restored \in 0 .. RestoreLimit
    <3>1. round.restored \in 0 .. RestoreLimit /\ RestoreLimit \in Nat
      BY AuditFacts DEF RoundShape
    <3>2. round.phase = "restore" /\ answer.at = "drop" /\ answer.status = "200" => round.restored > 0
      BY <2>1 DEF Answering
    <3> QED BY <2>1, <3>1, <3>2
  <2>3. RoundShape'
    BY <2>1, <2>2 DEF RoundShape
  <2>4. Stamped' /\ Answering'
    BY <2>1, AuditFacts DEF Stamped, Answering, NoAnswer
  <2>5. \A x : Ahead(x)' <=> Ahead(x)
    BY <2>1 DEF Ahead, Listed, HasIt, Elder
  <2>6. Owing'
    BY <2>1, <2>5 DEF Owing, Doomed, Missed, Final, HasIt, Live
  <2> QED BY <2>3, <2>4, <2>6
<1> QED BY <1>1, <1>2, <1>3

(* Planning Center's own steps leave the round alone.                      *)
LEMMA PcoSettles ==
  ASSUME AuditAssumption, SettleInv, AuditInv', UNCHANGED <<honours, mirror, round, answer>>,
         NEW x \in Owners, \A id \in Owners \ {x} : pco'[id] = pco[id],
         pco'[x].born \in Time, pco'[x].uat \in Time, pco[x].st # "unborn" => pco'[x].born = pco[x].born,
         \A f \in sent' : f \in sent \/ f.uat \in Time,
         owed' \subseteq owed,
         HasIt(x)' = HasIt(x) \/ x \notin owed',
         Final(x) => Final(x)',
         \/ HasIt(x) => HasIt(x)'
         \/ round.phase = "enumerate" /\ round.off > 0 => owed' \subseteq round.known
  PROVE  SettleInv'
<1> USE DEF SettleInv
<1>1. Stamped'
  BY DEF Stamped
<1>2. RoundShape'
  BY DEF RoundShape
<1>3. \A id \in owed' : /\ id \in Owners /\ (HasIt(id)' <=> HasIt(id)) /\ (Final(id) => Final(id)')
                        /\ (Live(mirror, id)' <=> Live(mirror, id))
  BY DEF Owing, HasIt, Final, Live
<1>4. Answering'
  <2>1. Left' = Left
    BY DEF Left
  <2> QED BY <1>3, <2>1 DEF Answering
<1>5. ASSUME NEW id \in owed', round.phase = "enumerate", Ahead(id), HasIt(id), id \notin round.known
      PROVE  Ahead(id)'
  <2> DEFINE old == {q \in Listed(round.cursor) : Elder(q, id)}
             new == {q \in Listed(round.cursor)' : Elder(q, id)'}
  <2>1. id \in Owners /\ HasIt(id)' /\ pco'[id].born = pco[id].born
    BY <1>3, <1>5 DEF HasIt
  <2>2. id \in Listed(round.cursor)'
    BY <1>5, <2>1 DEF Ahead, Listed
  <2>3. new \subseteq Owners /\ IsFiniteSet(new) /\ Cardinality(new) \in Nat
    <3>1. new \subseteq Owners
      BY DEF Listed
    <3> QED BY <3>1, AuditFacts, FS_Subset, FS_CardinalityType
  <2>4. Cardinality(new) >= round.off
    <3>1. CASE HasIt(x) => HasIt(x)'
      <4>1. \A q \in Owners : HasIt(q) => HasIt(q)' /\ pco'[q].born = pco[q].born
        BY <3>1 DEF HasIt
      <4>2. old \subseteq new
        BY <2>1, <4>1 DEF Listed, Elder
      <4>3. Cardinality(old) <= Cardinality(new) /\ Cardinality(old) \in Nat
        BY <2>3, <4>2, FS_Subset, FS_CardinalityType
      <4>4. Cardinality(old) >= round.off
        BY <1>5 DEF Ahead
      <4> QED BY <2>3, <4>3, <4>4 DEF RoundShape
    <3>2. CASE round.phase = "enumerate" /\ round.off > 0 => owed' \subseteq round.known
      <4>1. round.off = 0
        BY <1>5, <3>2 DEF RoundShape
      <4> QED BY <2>3, <4>1
    <3> QED BY <3>1, <3>2
  <2>5. new = {q \in Listed(round.cursor) : Elder(q, id)}'
    OBVIOUS
  <2> QED BY <2>2, <2>4, <2>5 DEF Ahead
<1>6. Owing'
  <2> SUFFICES ASSUME NEW id \in owed' PROVE id \in Owners /\ round.phase # "none" /\ (Doomed(id)' \/ Missed(id)')
    BY DEF Owing
  <2>1. id \in Owners /\ round.phase # "none" /\ (Doomed(id) \/ Missed(id))
    BY DEF Owing
  <2> QED BY <1>3, <1>5, <2>1 DEF Doomed, Missed
<1> QED BY <1>1, <1>2, <1>4, <1>6

LEMMA ChangeSettles ==
  ASSUME AuditAssumption, SettleInv, NEW x \in Owners, NEW t \in Time, PcoChange(x, t), AuditInv'
  PROVE  SettleInv'
<1>1. /\ UNCHANGED <<honours, mirror, round, answer, owed>> /\ pco[x].st # "gone"
      /\ pco' = [pco EXCEPT ![x] = [st |-> "live", uat |-> t,
                                    born |-> IF pco[x].st = "unborn" THEN t ELSE pco[x].born]]
      /\ sent' = sent \cup {[id |-> x, kind |-> "update", uat |-> t]}
  BY DEF PcoChange
<1>2. /\ \A id \in Owners \ {x} : pco'[id] = pco[id]
      /\ pco'[x].st = "live" /\ pco'[x].uat = t
      /\ pco'[x].born = IF pco[x].st = "unborn" THEN t ELSE pco[x].born
  BY <1>1 DEF SettleInv, AuditInv, Shapes
<1>3. pco'[x].born \in Time /\ pco'[x].uat \in Time
  BY <1>2 DEF SettleInv, Stamped
<1>4. \A f \in sent' : f \in sent \/ f.uat \in Time
  BY <1>1
<1>5. HasIt(x)' /\ (HasIt(x) \/ x \notin owed) /\ ~ Final(x)
  BY <1>1, <1>2 DEF HasIt, Final, SettleInv, Owing, Doomed, Missed
<1> QED BY <1>1, <1>2, <1>3, <1>4, <1>5, PcoSettles

LEMMA DestroySettles ==
  ASSUME AuditAssumption, SettleInv, NEW x \in Owners, PcoDestroy(x), AuditInv'
  PROVE  SettleInv'
<1>1. /\ UNCHANGED <<honours, mirror, round, answer>> /\ HasIt(x)
      /\ pco' = [pco EXCEPT ![x] = [st |-> "gone", uat |-> pco[x].uat, born |-> pco[x].born]]
      /\ sent' = sent \cup {[id |-> x, kind |-> "destroyed", uat |-> pco[x].uat]}
      /\ owed' = IF round.phase = "enumerate" /\ round.off > 0 THEN owed \cap round.known
                 ELSE owed \ {x}
  BY DEF PcoDestroy
<1>2. /\ \A id \in Owners \ {x} : pco'[id] = pco[id]
      /\ pco'[x].st = "gone" /\ pco'[x].uat = pco[x].uat /\ pco'[x].born = pco[x].born
  BY <1>1 DEF SettleInv, AuditInv, Shapes
<1>3. pco'[x].born \in Time /\ pco'[x].uat \in Time
  BY <1>2 DEF SettleInv, Stamped
<1>4. \A f \in sent' : f \in sent \/ f.uat \in Time
  BY <1>1 DEF SettleInv, Stamped
<1>5. Final(x)' /\ owed' \subseteq owed
  BY <1>1, <1>2 DEF Final
<1>6. x \notin owed'
  BY <1>1 DEF HasIt, SettleInv, Owing, Doomed, Missed, Final
<1>7. round.phase = "enumerate" /\ round.off > 0 => owed' \subseteq round.known
  BY <1>1
<1> QED BY <1>1, <1>2, <1>3, <1>4, <1>5, <1>6, <1>7, PcoSettles

LEMMA DeliverSettles ==
  ASSUME AuditAssumption, SettleInv, NEW f \in sent, Deliver(f), AuditInv'
  PROVE  SettleInv'
<1> USE DEF SettleInv
<1>1. /\ UNCHANGED <<honours, pco, sent, round, answer>> /\ owed' = owed \ {f.id}
      /\ f.id \in Owners /\ Held(mirror) /\ f.uat \in Time
  BY DEF Deliver, AuditInv, Born, Exists, Shapes, Stamped
<1>2. /\ \A c \in Owners \ {f.id} : mirror'[c] = mirror[c]
      /\ mirror'[f.id].raw.uat \in Time
  <2>0. mirror[f.id].raw.uat \in Time
    BY <1>1 DEF Stamped
  <2>1. CASE f.kind = "update"
    <3>1. mirror' = Upsert(mirror, f.id, Copy(f.uat))
      BY <2>1 DEF Deliver
    <3> QED BY <1>1, <2>0, <3>1, UpsertWhy, WriterStamps
  <2>2. CASE f.kind # "update"
    <3>1. mirror' = Tombstone(mirror, f.id, NoTime, "destroyed", Nobody)
      BY <2>2 DEF Deliver
    <3>2. \A c \in Owners \ {f.id} : mirror'[c] = mirror[c]
      BY <1>1, <3>1, TombstoneWhy
    <3>3. mirror'[f.id].raw.uat \in Time
      BY <1>1, <2>0, <3>1, WriterStamps
    <3> QED BY <3>2, <3>3
  <2> QED BY <2>1, <2>2
<1>3. Stamped' /\ RoundShape'
  BY <1>1, <1>2 DEF Stamped, RoundShape
<1>4. \A id \in owed' : id \in Owners /\ id \in owed /\ mirror'[id] = mirror[id]
  BY <1>1, <1>2 DEF Owing
<1>5. Answering'
  BY <1>1, <1>4 DEF Answering, Left, HasIt, Live
<1>6. \A x : (Ahead(x)' <=> Ahead(x))
  BY <1>1 DEF Ahead, Listed, HasIt, Elder
<1>7. Owing'
  BY <1>1, <1>4, <1>6 DEF Owing, Doomed, Missed, Final, HasIt, Live
<1> QED BY <1>3, <1>5, <1>7

LEMMA InitSettles == AuditAssumption /\ Init => SettleInv
<1> SUFFICES ASSUME AuditAssumption, Init PROVE SettleInv
  OBVIOUS
<1> USE AuditFacts
<1>1. Stamped
  <2>0. 0 \in Time /\ 1 \in Time /\ 2 \in Time /\ sent = {} /\ answer.uat = 0
    BY DEF Init, NoAnswer
  <2>1. \A id \in Owners : pco[id].born \in {0, 1, 2} /\ pco[id].uat \in {0, 2}
    BY DEF Init, NoTime
  <2>2. PICK held \in SUBSET {id \in Owners : pco[id].st # "unborn"} :
          mirror = [id \in Owners |-> IF id \in held THEN Inserted(Copy(2)) ELSE NoRow]
    BY DEF Init
  <2>3. \A id \in Owners : mirror[id].raw.uat \in {0, 2}
    BY <2>2 DEF Inserted, Copy, NoRow, NoTime
  <2> QED BY <2>0, <2>1, <2>3 DEF Stamped
<1>2. RoundShape /\ Answering /\ Owing
  BY DEF Init, NoRound, RoundShape, Answering, Owing, Phases
<1> QED BY <1>1, <1>2, InitAudit DEF SettleInv

LEMMA StepSettles ==
  AuditAssumption /\ SettleInv /\ [Next]_vars => SettleInv'
<1> SUFFICES ASSUME AuditAssumption, SettleInv, [Next]_vars PROVE SettleInv'
  OBVIOUS
<1>0. AuditInv'
  BY StepAudit DEF SettleInv
<1>1. CASE Audit
  BY <1>0, <1>1, StartSettles, EnumerateSettles, AskSettles, WriteSettles, DropSettles, PhaseSettles DEF Audit
<1>2. CASE EnumerateError \/ AskError \/ Crash
  BY <1>0, <1>2, EnumerateErrorSettles, AskSettles, PhaseSettles
<1>3. CASE \E id \in Owners : PcoDestroy(id) \/ \E t \in Time : PcoChange(id, t)
  BY <1>0, <1>3, ChangeSettles, DestroySettles
<1>4. CASE \E f \in sent : Deliver(f)
  BY <1>0, <1>4, DeliverSettles
<1>5. CASE UNCHANGED vars
  <2>1. UNCHANGED <<honours, pco, sent, mirror, round, answer, owed>>
    BY <1>5 DEF vars
  <2>2. Stamped' /\ RoundShape' /\ Answering'
    BY <2>1 DEF SettleInv, Stamped, RoundShape, Answering, Left, HasIt, Live
  <2>3. \A x : Ahead(x)' <=> Ahead(x)
    BY <2>1 DEF Ahead, Listed, HasIt, Elder
  <2>4. Owing'
    BY <2>1, <2>3 DEF SettleInv, Owing, Doomed, Missed, Final, HasIt, Live
  <2> QED BY <1>0, <2>2, <2>4 DEF SettleInv
<1> QED BY <1>1, <1>2, <1>3, <1>4, <1>5 DEF Next

LEMMA RoundEnds ==
  ASSUME AuditAssumption, SettleInv, FinishRound, NEW id \in owed
  PROVE  Live(mirror, id) = HasIt(id) \/ (HasIt(id) /\ round.restored = RestoreLimit)
<1>1. /\ round.phase = "restore" /\ round.candidate = {} /\ round.restored \in 0 .. RestoreLimit
      /\ round.live = {} \/ ~ (round.restored < RestoreLimit)
      /\ Doomed(id) \/ Missed(id)
  BY DEF FinishRound, Asking, Left, SettleInv, RoundShape, Owing
<1>2. CASE Doomed(id)
  BY <1>1, <1>2 DEF Doomed, Final, HasIt, Live
<1>3. CASE Missed(id)
  <2>1. HasIt(id) /\ (Live(mirror, id) \/ id \in round.live)
    BY <1>1, <1>3 DEF Missed
  <2>2. round.live = {} \/ round.restored = RestoreLimit
    BY <1>1, AuditFacts
  <2> QED BY <2>1, <2>2 DEF HasIt, Live
<1> QED BY <1>1, <1>2, <1>3

(* A round settles every id on which mirror and Planning Center disagreed  *)
(* when it began and on which it had its answers, unless a webhook came    *)
(* between or the bound on restorations was reached: however the list is   *)
(* paged, and whatever comes and goes meanwhile.                           *)
THEOREM RoundsSettle == AuditAssumption => (Spec => RoundSettles)
<1> SUFFICES ASSUME AuditAssumption PROVE Spec => RoundSettles
  OBVIOUS
<1>1. Init => SettleInv
  BY InitSettles
<1>2. SettleInv /\ [Next]_vars => SettleInv'
  BY StepSettles
<1>3. SettleInv => SettlesOwed
  BY RoundEnds DEF SettlesOwed
<1> QED BY <1>1, <1>2, <1>3, PTL DEF Spec, RoundSettles
=============================================================================
