------------------------------ MODULE Families ------------------------------
(***************************************************************************)
(* A household and its members, in the mirror twice: the household's own   *)
(* `people' array and each member's `households' array.  What keeps the    *)
(* two halves together: the write-through of serving.py, which relays a    *)
(* write to Planning Center (PCO) and re-reads what it moved; the          *)
(* hydration queue of ingest.py, drained by the scheduler's hot lane; and  *)
(* the repair passes of the same lane.  PCO answers a re-read of a person  *)
(* from a replica that may lag behind, and with the household beside the   *)
(* person.  Joining or leaving moves nobody's updated_at (registry.py), so *)
(* no sweep reads any of this again.                                       *)
(*                                                                         *)
(* An operator named Mut... is a deliberately wrong variant of the one it  *)
(* precedes; nothing uses it but the checks that a property notices.       *)
(***************************************************************************)
EXTENDS Naturals, Sequences, SequencesExt

CONSTANTS
  Members,      \* person ids
  Household,    \* the household's id
  MaxSyncPeers, \* peers re-read before the response, 8 in the code
  DrainLimit,   \* tasks of one drain, 25 in the code
  MaxWrites,    \* bound on the writes
  MaxFaults     \* bound on lost, failed and error answers, and crashes

FamiliesAssumption ==
  /\ IsFiniteSet(Members) /\ Household \notin Members
  /\ {MaxSyncPeers, MaxWrites, MaxFaults} \subseteq Nat
  /\ DrainLimit \in Nat \ {0}

VARIABLES
  there,    \* the household exists at PCO
  joined,   \* its members at PCO
  served,   \* the people whose re-read would name it
  house,    \* the mirror's copy of the household
  carry,    \* the people whose copy in the mirror names it
  young,    \* what the mirror has read within the hour
  task,     \* hydration_task: the rows due, in order of not_before; the others
  hot,      \* the drain of the hot lane
  web,      \* the write-through in progress
  budget    \* what is left of the bounds

vars == <<there, joined, served, house, carry, young, task, hot, web, budget>>

Recs == Members \cup {Household}
Answer == [st : {"ok", "missing", "error"}, people : SUBSET Members, beside : SUBSET Members]
NoAnswer == [st |-> "error", people |-> {}, beside |-> {}]
IdleHot == [at |-> "idle", todo |-> <<>>, ans |-> NoAnswer]
IdleWeb == [at |-> "idle", kind |-> "family", who |-> {}, todo |-> {}, ans |-> NoAnswer]

TypeOK ==
  /\ there \in BOOLEAN /\ (~ there => joined = {})
  /\ joined \in SUBSET Members /\ served \in SUBSET Members
  /\ house \in [st : {"none", "live", "dead"}, people : SUBSET Members]
  /\ carry \in SUBSET Members /\ young \in SUBSET Recs
  /\ task.due \in Seq(Recs) /\ task.later \in SUBSET Recs
  /\ IsInjective(task.due) /\ ToSet(task.due) \cap task.later = {}
  /\ hot.at \in {"idle", "ask"} \cup Recs /\ hot.todo \in Seq(Recs) /\ hot.ans \in Answer
  /\ web \in [at : {"idle", "record", "peers", "queue"} \cup Members,
              kind : {"family", "join", "leave", "delete"},
              who : SUBSET Members, todo : SUBSET Members, ans : Answer]
  /\ ToSet(hot.todo) \cup ({hot.at} \cap Recs) \subseteq ToSet(task.due)
  /\ web.todo \cap web.who = {}
  /\ budget \in [writes : 0 .. MaxWrites, faults : 0 .. MaxFaults]

(* The mirror starts with no household, or in agreement with PCO. *)
Init ==
  /\ there \in BOOLEAN /\ joined \in SUBSET Members /\ (~ there => joined = {})
  /\ served = joined /\ carry = joined
  /\ house = [st |-> IF there THEN "live" ELSE "none", people |-> joined]
  /\ young = {}
  /\ task = [due |-> <<>>, later |-> {}]
  /\ hot = IdleHot /\ web = IdleWeb
  /\ budget = [writes |-> MaxWrites, faults |-> MaxFaults]

Spend(what) == budget[what] > 0 /\ budget' = [budget EXCEPT ![what] = @ - 1]

mirror == <<house, carry, young>>
upstream == <<there, joined, served>>

-----------------------------------------------------------------------------
(* enqueue_hydration, of each record of a set, for now or for a minute     *)
(* hence: a record has one row, and of two times for it the earlier wins.  *)
Queued(t, recs) ==
  [due   |-> t.due \o SetToSeq(recs \ ToSet(t.due)),
   later |-> t.later \ recs]

Delayed(t, x) == [t EXCEPT !.later = @ \cup ({x} \ ToSet(t.due))]

(* Of a person: whether it names the household, and if it does the members *)
(* of the copy included beside it.                                         *)
Fetched(x) ==
  IF x \in Members
  THEN [st |-> "ok", people |-> served \cap {x}, beside |-> IF x \in served THEN served ELSE {}]
  ELSE IF there THEN [st |-> "ok", people |-> joined, beside |-> {}]
  ELSE [st |-> "missing", people |-> {}, beside |-> {}]

(* What a GET of x may answer. *)
Get(x, ans) ==
  \/ ans = Fetched(x) /\ UNCHANGED budget
  \/ ans = NoAnswer /\ Spend("faults")

(* The household included beside a person goes through upsert.  The copy   *)
(* may leave its people out, which enters in a new row only; it is refused *)
(* if an edit made it older; and it digs the row up if one the mirror      *)
(* missed made it newer than the tombstone.                                *)
Sideloaded(people) ==
  IF house.st = "none" THEN {[st |-> "live", people |-> {}], [st |-> "live", people |-> people]}
  ELSE {house, [st |-> "live", people |-> people]}

(* hydrate, once it has its answer: a household is confirmed live, a       *)
(* person's copy replaced at an equal updated_at.  A tombstone on a row    *)
(* that is not there does nothing, and an error changes nothing.           *)
Land(x, ans) ==
  IF ans.st = "error" THEN UNCHANGED mirror
  ELSE IF x = Household
  THEN /\ house' = CASE ans.st = "ok" -> [st |-> "live", people |-> ans.people]
                     [] ans.st # "ok" /\ house.st = "none" -> house
                     [] OTHER -> [house EXCEPT !.st = "dead"]
       /\ young' = young \cup {x} /\ UNCHANGED carry
  ELSE /\ carry' = (carry \ {x}) \cup ans.people
       /\ IF ans.people = {} THEN UNCHANGED house ELSE house' \in Sideloaded(ans.beside)
       /\ young' = young \cup {x} \cup (IF ans.people = {} THEN {} ELSE {Household})

-----------------------------------------------------------------------------
(* PCO applies a write: what it does to the household and its members.     *)
Applied(kind, who) ==
  CASE kind = "family" -> there' = TRUE /\ joined' = who
    [] kind = "join"   -> there' = TRUE /\ joined' = joined \cup who
    [] kind = "leave"  -> there' = TRUE /\ joined' = joined \ who
    [] kind = "delete" -> there' = FALSE /\ joined' = {}

(* What may be written: POST /households once, PATCH and DELETE of it,     *)
(* POST and DELETE of one membership.                                      *)
Writable(kind, who) ==
  CASE kind = "family" -> there \/ house.st = "none"
    [] kind = "join"   -> there /\ Cardinality(who) = 1
    [] kind = "leave"  -> there /\ Cardinality(who) = 1 /\ who \subseteq joined
    [] kind = "delete" -> there /\ who = {}

(* The write is relayed and applied.  Its response may be lost: the caller *)
(* is told so, and the mirror is not touched.                              *)
Relay(kind, who) ==
  /\ web.at = "idle" /\ Writable(kind, who)
  /\ budget.writes > 0
  /\ Applied(kind, who)
  /\ \/ /\ budget' = [budget EXCEPT !.writes = @ - 1]
        /\ web' = [IdleWeb EXCEPT !.at = "record", !.kind = kind, !.who = who]
     \/ /\ budget.faults > 0
        /\ budget' = [writes |-> budget.writes - 1, faults |-> budget.faults - 1]
        /\ UNCHANGED web
  /\ UNCHANGED <<served, mirror, task, hot>>

(* _record_locally: a household is upserted as the response has it, or     *)
(* tombstoned; a membership is not a row of this module.  A failure is     *)
(* noted and swallowed.  Of the people a family names the first few are    *)
(* re-read at once.                                                        *)
Record ==
  /\ web.at = "record"
  /\ \/ /\ house' = CASE web.kind = "family" /\ house.st # "dead" ->
                           [st |-> "live", people |-> web.who]
                      [] web.kind = "delete" /\ house.st # "none" ->
                           [house EXCEPT !.st = "dead"]
                      [] OTHER -> house
        /\ young' = IF web.kind \in {"family", "delete"} /\ house'.st # "none"
                    THEN young \cup {Household} ELSE young
        /\ UNCHANGED budget
     \/ web.kind \in {"family", "delete"} /\ Spend("faults") /\ UNCHANGED <<house, young>>
  /\ \E first \in SUBSET web.who :
       /\ Cardinality(first) =
            IF web.kind # "family" THEN 0
            ELSE Min({MaxSyncPeers, Cardinality(web.who)})
       /\ web' = [web EXCEPT !.at = "peers", !.todo = first,
                             !.who = IF web.kind = "family" THEN @ \ first ELSE @]
  /\ UNCHANGED <<upstream, carry, task, hot>>

AskPeer(p) ==
  /\ web.at = "peers" /\ p \in web.todo
  /\ \E ans \in {Fetched(p), NoAnswer} :
       /\ Get(p, ans)
       /\ web' = [web EXCEPT !.at = p, !.todo = @ \ {p}, !.ans = ans]
  /\ UNCHANGED <<upstream, mirror, task, hot>>

(* The re-read lands, and _verify_peer_edge looks at the stored copy. *)
LandPeer(p) ==
  /\ web.at = p
  /\ Land(p, web.ans)
  /\ task' = IF p \in carry' THEN task ELSE Delayed(task, p)
  /\ web' = [web EXCEPT !.at = "peers", !.ans = NoAnswer]
  /\ UNCHANGED <<upstream, hot, budget>>

(* What is not read at once is queued: the tail of a family; the parent of *)
(* a nested write, and the member its request or its response names, which *)
(* a DELETE's do not.                                                      *)
QueueRest ==
  /\ web.at = "peers" /\ web.todo = {}
  /\ task' = Queued(task, CASE web.kind = "family" -> web.who
                            [] web.kind = "join"   -> web.who \cup {Household}
                            [] web.kind = "leave"  -> {Household}
                            [] web.kind = "delete" -> {})
  /\ web' = IdleWeb
  /\ UNCHANGED <<upstream, mirror, hot, budget>>

-----------------------------------------------------------------------------
(* drain_hydration: a bounded number of the rows that are due, the oldest  *)
(* first.                                                                  *)
Drain ==
  /\ hot.at = "idle" /\ task.due # <<>>
  /\ hot' = [hot EXCEPT !.at = "ask",
                        !.todo = SubSeq(task.due, 1, Min({DrainLimit, Len(task.due)}))]
  /\ UNCHANGED <<upstream, mirror, task, web, budget>>

(* A connection that fails raises, and ends the drain. *)
HotAsk(x) ==
  /\ hot.at = "ask" /\ x = Head(hot.todo)
  /\ \/ \E ans \in {Fetched(x), NoAnswer} :
          /\ Get(x, ans)
          /\ hot' = [at |-> x, todo |-> Tail(hot.todo), ans |-> ans]
     \/ Spend("faults") /\ hot' = IdleHot
  /\ UNCHANGED <<upstream, mirror, task, web>>

(* The row goes whatever the answer was, and whoever has queued it again   *)
(* since it was read.                                                      *)
HotLand(x) ==
  /\ hot.at = x
  /\ Land(x, hot.ans)
  /\ task' = [due |-> Remove(task.due, x), later |-> task.later \ {x}]
  /\ hot' = IF hot.todo = <<>> THEN IdleHot ELSE [hot EXCEPT !.at = "ask", !.ans = NoAnswer]
  /\ UNCHANGED <<upstream, web, budget>>

MutDangling == {}

(* People whose copy names a household the mirror cannot serve.  Both ends *)
(* are queued.                                                             *)
Dangling ==
  LET holders == {p \in carry \ young : house.st # "live"}
  IN  IF holders = {} THEN {} ELSE holders \cup {Household}

MutSplit == {h \in {Household} \ young : house.st = "live" /\ carry # house.people}

(* Where one half has the edge, the half that lacks it. *)
Split ==
  IF house.st # "live" THEN {}
  ELSE {p \in house.people \ carry : p \notin young}
       \cup {h \in {Household} \ young : carry \ house.people # {}}

(* The repairs of one drift pass: repair_dangling, repair_split_edges. *)
Repair ==
  /\ hot.at = "idle"
  /\ task' = Queued(task, Dangling \cup Split)
  /\ UNCHANGED <<upstream, mirror, hot, web, budget>>

(* The process dies, and what it had in flight with it; the queue is in    *)
(* the database.  A row may have been written and its task not removed.    *)
Crash ==
  /\ Spend("faults")
  /\ hot # IdleHot \/ web # IdleWeb
  /\ \/ UNCHANGED mirror
     \/ hot.at \in Recs /\ Land(hot.at, hot.ans)
  /\ hot' = IdleHot /\ web' = IdleWeb
  /\ UNCHANGED <<upstream, task>>

-----------------------------------------------------------------------------
(* not_before passes for the delayed rows; last_synced_at turns an hour    *)
(* old; a replica catches up; the delete audit buries what PCO lacks.      *)
MinutePasses ==
  /\ task.later # {}
  /\ task' = Queued(task, task.later)
  /\ UNCHANGED <<upstream, mirror, hot, web, budget>>

HourPasses ==
  /\ young # {}
  /\ young' = {}
  /\ UNCHANGED <<upstream, house, carry, task, hot, web, budget>>

Replicate(p) ==
  /\ (p \in served) # (p \in joined)
  /\ served' = IF p \in joined THEN served \cup {p} ELSE served \ {p}
  /\ UNCHANGED <<there, joined, mirror, task, hot, web, budget>>

AuditBuries ==
  /\ ~ there /\ house.st = "live"
  /\ house' = [house EXCEPT !.st = "dead"]
  /\ young' = young \cup {Household}
  /\ UNCHANGED <<upstream, carry, task, hot, web, budget>>

-----------------------------------------------------------------------------
WebStep == Record \/ QueueRest \/ \E p \in Members : AskPeer(p) \/ LandPeer(p)
HotStep == \E x \in Recs : HotAsk(x) \/ HotLand(x)

Next ==
  \/ \E kind \in {"family", "join", "leave", "delete"}, who \in SUBSET Members :
       Relay(kind, who)
  \/ WebStep \/ HotStep \/ Drain \/ Repair \/ Crash
  \/ MinutePasses \/ HourPasses \/ AuditBuries
  \/ \E p \in Members : Replicate(p)

Spec == Init /\ [][Next]_vars

(* Every tick of the hot lane drains, and every so many repair: neither    *)
(* keeps the other from happening, whence SF.                              *)
FairSpec ==
  /\ Spec
  /\ WF_vars(WebStep) /\ WF_vars(HotStep) /\ SF_vars(Drain) /\ SF_vars(Repair)
  /\ WF_vars(MinutePasses) /\ WF_vars(HourPasses) /\ WF_vars(AuditBuries)
  /\ WF_vars(\E p \in Members : Replicate(p))

-----------------------------------------------------------------------------
(* Of an edge PCO has the mirror holds both halves or none. *)
EdgesMeet ==
  house.st = "live" => \A p \in joined : p \in house.people <=> p \in carry

(* Nobody names a household that is gone from the mirror. *)
DeadUnnamed == house.st = "dead" => carry = {}

(* DESIGN 8.4: repair_split_edges owns every disagreement between the      *)
(* edge's two stored halves that the write path misses.                    *)
HalvesAgree ==
  <>[](house.st = "live" => house.people = carry)
=============================================================================
