---------------------------- MODULE DeleteAudit ----------------------------
(***************************************************************************)
(* The full-id audit of one resource (pcomirror/ingest.py,                 *)
(* delete_audit_step): in bounded units on the scheduler's cold lane it    *)
(* lists every id Planning Center (PCO) has, then asks about the ids only  *)
(* the mirror has, one by one, and fetches the ids only PCO has.  All of   *)
(* it is interleaved with PCO's changes and with the webhooks the hot lane *)
(* applies, late, repeatedly or never.  What a unit learns is committed    *)
(* request by request, so a crash loses at most the answer in hand.        *)
(*                                                                         *)
(* Rows and their writer come from Mirror, with no children: a cascade is  *)
(* the subject of Writer.                                                  *)
(*                                                                         *)
(* An operator named Mut... is a deliberately wrong variant of the one it  *)
(* precedes; nothing uses it but the checks that a property notices.       *)
(***************************************************************************)
EXTENDS Mirror, FiniteSetsExt

CONSTANTS
  PageSize,      \* 100 in the code
  RestoreLimit,  \* AUDIT_RESTORE_LIMIT, 500 in the code
  Honours,       \* whether PCO honours where[created_at]: both ways are possible
  MaxChanges,    \* bound on PCO's changes
  MaxFaults      \* bound on error answers and crashes

AuditAssumption ==
  /\ Owners \subseteq Nat /\ IsFiniteSet(Owners) /\ Children = {}
  /\ 2 \in Time   \* the second of the first states
  /\ {PageSize, RestoreLimit} \subseteq Nat \ {0}
  /\ Honours \subseteq BOOLEAN /\ {MaxChanges, MaxFaults} \subseteq Nat

VARIABLES
  honours,  \* PCO honours where[created_at] for this resource
  pco,      \* PCO's records
  sent,     \* webhooks PCO has sent
  mirror,   \* the mirror's rows
  round,    \* mirror_meta audit_round and audit_scratch
  answer,   \* the answer to a GET of one id, and what is done with it
  owed,     \* ids on which mirror and PCO disagreed when the round began
  budget    \* what is left of the bounds

vars == <<honours, pco, sent, mirror, round, answer, owed, budget>>

NoRound == [phase |-> "none", keyset |-> TRUE, cursor |-> 0, off |-> 0, restored |-> 0,
            candidate |-> {}, known |-> {}, live |-> {}]
NoAnswer == [at |-> "none", id |-> Nobody, uat |-> 0, status |-> "none"]

Phases == {"none", "enumerate", "confirm", "restore"}

TypeOK ==
  /\ honours \in BOOLEAN
  /\ pco \in [Owners -> [st : {"unborn", "live", "gone"}, born : Time, uat : Time]]
  /\ sent \subseteq [id : Owners, kind : {"update", "destroyed"}, uat : Time]
  /\ mirror \in [Owners -> Row]
  /\ round \in [phase : Phases, keyset : BOOLEAN, cursor : Time, off : Nat,
                restored : 0 .. RestoreLimit, candidate : SUBSET Owners,
                known : SUBSET Owners, live : SUBSET Owners]
  /\ answer \in [at : {"none", "write", "drop"}, id : Owners \cup {Nobody}, uat : Time,
                 status : {"none", "200", "404", "error"}]
  /\ owed \subseteq Owners
  /\ budget \in [changes : 0 .. MaxChanges, faults : 0 .. MaxFaults]
  /\ round.candidate \subseteq round.known
  /\ answer.at # "none" => answer.id \in (IF round.phase = "confirm" THEN round.candidate
                                          ELSE round.live)

Copy(uat) == [uat |-> uat, rels |-> {}, owner |-> Nobody]

(* Records PCO has and has destroyed, some of either missing or mirrored:  *)
(* webhooks were lost before the behaviour starts.                         *)
Init ==
  /\ honours \in Honours
  /\ pco \in [Owners -> [st : {"unborn"}, born : {NoTime}, uat : {NoTime}]
                  \cup [st : {"live"}, born : {1, 2}, uat : {2}]
                  \cup [st : {"gone"}, born : {1}, uat : {2}]]
  /\ \E held \in SUBSET {id \in Owners : pco[id].st # "unborn"} :
       mirror = [id \in Owners |-> IF id \in held THEN Inserted(Copy(2)) ELSE NoRow]
  /\ sent = {}
  /\ round = NoRound /\ answer = NoAnswer /\ owed = {}
  /\ budget = [changes |-> MaxChanges, faults |-> MaxFaults]

Spend(what) == budget[what] > 0 /\ budget' = [budget EXCEPT ![what] = @ - 1]

HasIt(id) == pco[id].st = "live"
Disagreed == {id \in Owners : Live(mirror, id) # HasIt(id)}

-----------------------------------------------------------------------------
(* The registry may know that the filter is ignored, or have to find out.  *)
(* The snapshots are two statements; a row that comes between them is in   *)
(* `known' only, and a record the round leaves alone.                      *)
StartRound ==
  /\ round.phase = "none"
  /\ \E keyset \in {TRUE, honours} :
       round' = [NoRound EXCEPT !.phase = "enumerate", !.keyset = keyset,
                 !.candidate = {id \in Owners : Live(mirror, id)},
                 !.known = {id \in Owners : Known(mirror, id)}]
  /\ owed' = {id \in Disagreed : Live(mirror, id) \/ ~ Known(mirror, id)}
  /\ UNCHANGED <<honours, pco, sent, mirror, answer, budget>>

Elder(a, b) == pco[a].born < pco[b].born \/ (pco[a].born = pco[b].born /\ a < b)

MutListed(from) == {id \in Owners : HasIt(id) /\ (honours => pco[id].born > from)}

(* What PCO lists, by created_at, from a second on; a page of it.          *)
Listed(from) == {id \in Owners : HasIt(id) /\ (honours => pco[id].born >= from)}

PageOf(ids, off) ==
  {r \in ids : Cardinality({q \in ids : Elder(q, r)}) \in off .. off + PageSize - 1}

Newest(page) == Max({pco[id].born : id \in page})

MutNextPage(page) ==
  LET newest == Newest(page)
  IN  IF round.keyset THEN [keyset |-> TRUE, cursor |-> newest, off |-> 0]
      ELSE [keyset |-> FALSE, cursor |-> 0, off |-> round.off + Cardinality(page)]

(* Where a full page leads.  A page behind the cursor shows that the       *)
(* filter is ignored; a page inside one second is paged through by offset. *)
NextPage(page) ==
  LET newest == Newest(page)
  IN  IF round.keyset /\ newest < round.cursor
      THEN [keyset |-> FALSE, cursor |-> 0, off |-> 0]
      ELSE IF ~ round.keyset \/ newest = round.cursor
      THEN [keyset |-> round.keyset, cursor |-> round.cursor, off |-> round.off + Cardinality(page)]
      ELSE [keyset |-> TRUE, cursor |-> newest, off |-> 0]

(* The end of the enumeration: only the ids the two sides do not share.    *)
Compared(live) ==
  [round EXCEPT !.phase = "confirm", !.candidate = @ \ live, !.live = live \ round.known]

Enumerate ==
  /\ round.phase = "enumerate"
  /\ LET page == PageOf(Listed(round.cursor), round.off)
         live == round.live \cup page
     IN  round' = IF Cardinality(page) < PageSize
                     /\ ~ (page # {} /\ round.keyset /\ Newest(page) < round.cursor)
                  THEN Compared(live)
                  ELSE LET next == NextPage(page)
                       IN  [round EXCEPT !.live = live, !.keyset = next.keyset,
                              !.cursor = next.cursor, !.off = next.off]
  /\ UNCHANGED <<honours, pco, sent, mirror, answer, owed, budget>>

(* The body of an error is an empty page. *)
EnumerateError ==
  /\ round.phase = "enumerate" /\ Spend("faults")
  /\ round' = Compared(round.live)
  /\ owed' = owed \cap round.known
  /\ UNCHANGED <<honours, pco, sent, mirror, answer>>

Left == IF round.phase = "confirm" THEN round.candidate ELSE round.live

(* There is an id to ask about; restorations are bounded by round.         *)
Asking ==
  /\ round.phase \in {"confirm", "restore"} /\ answer = NoAnswer /\ Left # {}
  /\ round.phase = "restore" => round.restored < RestoreLimit

(* PCO answers a GET for the next id; what it says may be old news when it *)
(* is written.                                                             *)
Ask ==
  /\ Asking
  /\ LET id == Min(Left)
     IN  answer' = [at |-> "write", id |-> id, uat |-> IF HasIt(id) THEN pco[id].uat ELSE 0,
                    status |-> IF HasIt(id) THEN "200" ELSE "404"]
  /\ UNCHANGED <<honours, pco, sent, mirror, round, owed, budget>>

AskError ==
  /\ Asking /\ Spend("faults")
  /\ answer' = [at |-> "write", id |-> Min(Left), uat |-> 0, status |-> "error"]
  /\ owed' = owed \ {Min(Left)}
  /\ UNCHANGED <<honours, pco, sent, mirror, round>>

MutVerdict ==
  CASE answer.status = "200" -> ConfirmLive(mirror, answer.id, Copy(answer.uat))
    [] round.phase = "confirm" -> Tombstone(mirror, answer.id, NoTime, "audit_absent", Nobody)
    [] OTHER -> mirror

(* Only a 404 buries, and only in the confirm phase. *)
Verdict ==
  CASE answer.status = "200" -> ConfirmLive(mirror, answer.id, Copy(answer.uat))
    [] answer.status = "404" /\ round.phase = "confirm" ->
         Tombstone(mirror, answer.id, NoTime, "audit_absent", Nobody)
    [] OTHER -> mirror

Write ==
  /\ answer.at = "write"
  /\ mirror' = Verdict
  /\ round' = [round EXCEPT !.restored =
                 IF round.phase = "restore" /\ answer.status = "200" THEN @ + 1 ELSE @]
  /\ answer' = [answer EXCEPT !.at = "drop"]
  /\ UNCHANGED <<honours, pco, sent, owed, budget>>

Drop ==
  /\ answer.at = "drop"
  /\ round' = [round EXCEPT !.candidate = @ \ {answer.id}, !.live = @ \ {answer.id}]
  /\ answer' = NoAnswer
  /\ UNCHANGED <<honours, pco, sent, mirror, owed, budget>>

Confirmed ==
  /\ round.phase = "confirm" /\ round.candidate = {}
  /\ round' = [round EXCEPT !.phase = "restore"]
  /\ UNCHANGED <<honours, pco, sent, mirror, answer, owed, budget>>

FinishRound ==
  /\ round.phase = "restore" /\ answer = NoAnswer /\ ~ Asking
  /\ round' = NoRound /\ owed' = {}
  /\ UNCHANGED <<honours, pco, sent, mirror, answer, budget>>

(* The process dies with an answer in hand; the counters of a step are     *)
(* saved with the drop.                                                    *)
Crash ==
  /\ answer # NoAnswer /\ Spend("faults")
  /\ answer' = NoAnswer
  /\ round' = [round EXCEPT !.restored = IF round.phase = "restore" /\ answer.at = "drop"
                                            /\ answer.status = "200" THEN @ - 1 ELSE @]
  /\ UNCHANGED <<honours, pco, sent, mirror, owed>>

-----------------------------------------------------------------------------
(* PCO and its webhooks. *)
Now == Max({2} \cup {pco[id].uat : id \in Owners})

PcoChange(id, t) ==
  /\ t \in Now .. MaxTime /\ pco[id].st # "gone" /\ Spend("changes")
  /\ pco' = [pco EXCEPT ![id] = [st |-> "live", uat |-> t,
                                 born |-> IF @.st = "unborn" THEN t ELSE @.born]]
  /\ sent' = sent \cup {[id |-> id, kind |-> "update", uat |-> t]}
  /\ UNCHANGED <<honours, mirror, round, answer, owed>>

(* A page an offset leads to moves up by one when a record goes. *)
PcoDestroy(id) ==
  /\ HasIt(id) /\ Spend("changes")
  /\ pco' = [pco EXCEPT ![id] = [st |-> "gone", uat |-> @.uat, born |-> @.born]]
  /\ sent' = sent \cup {[id |-> id, kind |-> "destroyed", uat |-> pco[id].uat]}
  /\ owed' = IF round.phase = "enumerate" /\ round.off > 0 THEN owed \cap round.known
             ELSE owed \ {id}
  /\ UNCHANGED <<honours, mirror, round, answer>>

Deliver(f) ==
  /\ mirror' = IF f.kind = "update" THEN Upsert(mirror, f.id, Copy(f.uat))
               ELSE Tombstone(mirror, f.id, NoTime, "destroyed", Nobody)
  /\ owed' = owed \ {f.id}
  /\ UNCHANGED <<honours, pco, sent, round, answer, budget>>

-----------------------------------------------------------------------------
Audit == StartRound \/ Enumerate \/ Ask \/ Write \/ Drop \/ Confirmed \/ FinishRound

Next ==
  \/ Audit \/ EnumerateError \/ AskError \/ Crash
  \/ \E id \in Owners : PcoDestroy(id) \/ \E t \in Time : PcoChange(id, t)
  \/ \E f \in sent : Deliver(f)

(* The scheduler comes back to a round in progress whatever the cadence    *)
(* says, and starts one when it is due.  No webhook need ever arrive.      *)
Spec == Init /\ [][Next]_vars
FairSpec == Spec /\ WF_vars(Audit)

-----------------------------------------------------------------------------
(* The audit buries only what PCO has destroyed: no reading of the list,   *)
(* however torn by errors, changes and crashes, buries a record PCO has.   *)
AbsentIsGone == \A id \in Owners : mirror[id].why = "audit_absent" => ~ HasIt(id)

(* One round settles every id on which mirror and PCO disagreed when it    *)
(* began and on which it had its answers, unless a webhook came between or *)
(* the bound on restorations was reached.                                  *)
SettlesOwed ==
  FinishRound => \A id \in owed :
    \/ Live(mirror, id) = HasIt(id)
    \/ HasIt(id) /\ round.restored = RestoreLimit

RoundSettles == [][SettlesOwed]_vars

(* Whatever webhooks were lost, late or repeated, once PCO is quiet the    *)
(* rounds bring the mirror's live ids to PCO's, and they stay so.          *)
Converges == <>[](Disagreed = {})
=============================================================================
