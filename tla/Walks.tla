------------------------------- MODULE Walks --------------------------------
(***************************************************************************)
(* Child collections Planning Center (PCO) serves one parent at a time:    *)
(* the memberships of a household, the results of a list (method           *)
(* "nested_walk" of registry.py).  The mirror walks the parents and keeps  *)
(* a ledger of those it has walked, nested_walk_state:                     *)
(*   cold  the scheduler's rounds, a bounded number of parents at a step,  *)
(*         the least recently walked first (ingest.walk_round_step)        *)
(*   web   a read of a parent not walked yet (serving._ensure_walked), and *)
(*         the walk that follows a write of a membership                   *)
(* A walk is a GET and, once it is answered, the writes it entails: the    *)
(* other walker and PCO may come between.  A parent's collection is one    *)
(* page.                                                                   *)
(*                                                                         *)
(* An operator named Mut... is a deliberately wrong variant of the one it  *)
(* precedes; nothing uses it but the checks that a property notices.       *)
(***************************************************************************)
EXTENDS Naturals, Sequences, SequencesExt

CONSTANTS
  Parents,      \* households, or lists
  Kids,         \* every child there may be: its parent, and a number
  StepBudget,   \* parents of one step, 8 in the scheduler
  MaxChanges,   \* bound on what happens at PCO
  MaxFaults,    \* bound on failed requests and crashes
  MaxNotices    \* bound on `refreshed' events

ASSUME WalksAssumption ==
  /\ IsFiniteSet(Parents) /\ Kids \subseteq Parents \X Nat
  /\ StepBudget \in Nat \ {0}
  /\ {MaxChanges, MaxFaults, MaxNotices} \subseteq Nat

Under(p) == {k \in Kids : k[1] = p}

VARIABLES
  exists,   \* parents PCO has
  has,      \* children PCO has
  born,     \* children it ever had: an id is not used again
  parent,   \* the mirror's rows of parents
  kid,      \* the mirror's rows of children
  walked,   \* the ledger: parents walked, least recently first
  since,    \* those walked since the round began, or since the last one ended
  round,    \* a round is open
  job,      \* what each walker is at
  hurt,     \* history: children buried while PCO had them
  owed,     \* history: the children PCO had at the last walk recorded of
            \* their parent
  budget    \* what is left of the bounds

vars == <<exists, has, born, parent, kid, walked, since, round, job, hurt, owed, budget>>
upstream == <<exists, has, born>>
ledger == <<walked, since, owed>>

Walkers == {"cold", "web"}
Idle == [at |-> "idle", todo |-> <<>>, kids |-> {}]

TypeOK ==
  /\ exists \in SUBSET Parents /\ has \subseteq born /\ born \in SUBSET Kids
  /\ \A k \in has : k[1] \in exists
  /\ parent \in [Parents -> {"none", "live", "dead"}]
  /\ kid \in [Kids -> {"none", "live", "destroyed", "owner_deleted"}]
  /\ \A k \in Kids : /\ kid[k] = "owner_deleted" => parent[k[1]] = "dead"
                     /\ kid[k] # "none" => k \in born
  /\ walked \in Seq(Parents) /\ IsInjective(walked)
  /\ since \subseteq ToSet(walked)
  /\ round \in BOOLEAN
  /\ \A w \in Walkers :
       /\ job[w].at \in {"idle", "posted", "deleted", "ask", "answered", "missing"}
       /\ job[w].todo \in Seq(Parents) /\ job[w].kids \in SUBSET Kids
       /\ job[w].at # "idle" <=> job[w].todo # <<>>
  /\ hurt \subseteq born /\ owed \subseteq born
  /\ budget \in [changes : 0 .. MaxChanges, faults : 0 .. MaxFaults, notices : 0 .. MaxNotices]

(* The parents have been mirrored, none of their children has. *)
Init ==
  /\ exists = Parents /\ parent = [p \in Parents |-> "live"]
  /\ has \in SUBSET Kids /\ born = has
  /\ kid = [k \in Kids |-> "none"]
  /\ walked = <<>> /\ since = {} /\ round = FALSE
  /\ job = [w \in Walkers |-> Idle]
  /\ hurt = {} /\ owed = {}
  /\ budget = [changes |-> MaxChanges, faults |-> MaxFaults, notices |-> MaxNotices]

Spend(what) == budget[what] > 0 /\ budget' = [budget EXCEPT ![what] = @ - 1]

(* On to the next parent of the step, if there is one. *)
Onward(j) ==
  IF Len(j.todo) = 1 THEN Idle ELSE [at |-> "ask", todo |-> Tail(j.todo), kids |-> {}]

(* walk_parent's upsert of the ledger. *)
Recorded(p, there) ==
  /\ walked' = Append(Remove(walked, p), p)
  /\ since' = since \cup {p}
  /\ owed' = (owed \ Under(p)) \cup there

-----------------------------------------------------------------------------
(* The parents walk_round_step selects: live, and not walked since the     *)
(* round began; those never walked first, then the least recent.           *)
DueIn(fresh) ==
  LET Wanted(p) == parent[p] = "live" /\ p \notin fresh
  IN  SetToSeq({p \in Parents \ ToSet(walked) : Wanted(p)}) \o SelectSeq(walked, Wanted)

(* One step of a round: it begins, if none is open, it ends, if nothing is *)
(* due, or it has parents to walk.  walked_at < started is by the second:  *)
(* a parent walked in the very second the round begins is not due.  Rounds *)
(* are hours apart, so no walk of the last round is that recent.           *)
RoundStep ==
  /\ job["cold"] = Idle
  /\ \E fresh \in IF round THEN {since} ELSE SUBSET since :
       LET due == DueIn(fresh)
       IN  /\ since' = IF due = <<>> THEN {} ELSE fresh
           /\ round' = (due # <<>>)
           /\ job' = IF due = <<>> THEN job
                     ELSE [job EXCEPT !["cold"] =
                             [Idle EXCEPT !.at = "ask",
                                !.todo = SubSeq(due, 1, Min({StepBudget, Len(due)}))]]
  /\ UNCHANGED <<upstream, parent, kid, walked, owed, hurt, budget>>

(* A read of a collection nobody has asked for yet. *)
Read(p) ==
  /\ job["web"] = Idle
  /\ parent[p] = "live" /\ p \notin ToSet(walked)
  /\ job' = [job EXCEPT !["web"] = [Idle EXCEPT !.at = "ask", !.todo = <<p>>]]
  /\ UNCHANGED <<upstream, parent, kid, ledger, round, hurt, budget>>

(* The GET of a parent's collection. *)
Ask(w) ==
  /\ job[w].at = "ask"
  /\ LET p == Head(job[w].todo)
     IN  job' = [job EXCEPT ![w] = [@ EXCEPT
                   !.at = IF p \in exists THEN "answered" ELSE "missing",
                   !.kids = has \cap Under(p)]]
  /\ UNCHANGED <<upstream, parent, kid, ledger, round, hurt, budget>>

MutFailed(w) ==
  /\ job[w].at = "ask" /\ Spend("faults")
  /\ job' = [job EXCEPT ![w] = Onward(@)]
  /\ LET p == Head(job[w].todo) IN Recorded(p, has \cap Under(p))
  /\ UNCHANGED <<upstream, parent, kid, round, hurt>>

(* An error, or no answer: the parent stays as it was, and the read that   *)
(* wanted it answers 503.                                                  *)
Failed(w) ==
  /\ job[w].at = "ask" /\ Spend("faults")
  /\ job' = [job EXCEPT ![w] = Onward(@)]
  /\ UNCHANGED <<upstream, parent, kid, ledger, round, hurt>>

MutStale(p, kids) == {}

(* What the mirror holds for a parent and PCO did not return. *)
Stale(p, kids) == {k \in Under(p) \ kids : kid[k] = "live"}

(* _walk_one: the rows are untimed, so one that is buried stays buried.    *)
Land(w) ==
  /\ job[w].at = "answered"
  /\ LET p == Head(job[w].todo)
         gone == Stale(p, job[w].kids)
     IN  /\ kid' = [k \in Kids |-> IF k \in gone THEN "destroyed"
                                   ELSE IF k \in job[w].kids /\ kid[k] = "none" THEN "live"
                                   ELSE kid[k]]
         /\ hurt' = hurt \cup (gone \cap has)
         /\ Recorded(p, job[w].kids)
  /\ job' = [job EXCEPT ![w] = Onward(@)]
  /\ UNCHANGED <<upstream, parent, round, budget>>

(* A 404: the parent itself is asked for, and buried, with its children,   *)
(* if that is a 404 too.  The walk is recorded either way.                 *)
LandMissing(w) ==
  /\ job[w].at = "missing"
  /\ LET p == Head(job[w].todo)
     IN  /\ \/ /\ parent' = [parent EXCEPT ![p] = "dead"]
               /\ kid' = [k \in Kids |-> IF k[1] = p /\ kid[k] = "live" THEN "owner_deleted"
                                         ELSE kid[k]]
               /\ UNCHANGED budget
            \/ Spend("faults") /\ UNCHANGED <<parent, kid>>
         /\ Recorded(p, {})
  /\ job' = [job EXCEPT ![w] = Onward(@)]
  /\ UNCHANGED <<upstream, round, hurt>>

-----------------------------------------------------------------------------
Added(k) ==
  /\ k \notin born /\ k[1] \in exists
  /\ has' = has \cup {k} /\ born' = born \cup {k}
  /\ UNCHANGED exists

Removed(k) ==
  /\ k \in has /\ has' = has \ {k}
  /\ UNCHANGED <<exists, born>>

(* POST and DELETE of a membership through the mirror: PCO applies it.     *)
Write(k) ==
  /\ job["web"] = Idle /\ Spend("changes")
  /\ \/ Added(k) /\ job' = [job EXCEPT !["web"] =
                               [at |-> "posted", todo |-> <<k[1]>>, kids |-> {k}]]
     \/ Removed(k) /\ job' = [job EXCEPT !["web"] =
                                 [at |-> "deleted", todo |-> <<k[1]>>, kids |-> {k}]]
  /\ UNCHANGED <<parent, kid, ledger, round, hurt>>

(* _record_locally, whose failure is noted and swallowed, then walk_parent.*)
Record ==
  /\ job["web"].at \in {"posted", "deleted"}
  /\ \/ /\ kid' = [k \in Kids |->
                    IF k \notin job["web"].kids THEN kid[k]
                    ELSE IF job["web"].at = "posted" /\ kid[k] = "none" THEN "live"
                    ELSE IF job["web"].at = "deleted" /\ kid[k] # "none" THEN "destroyed"
                    ELSE kid[k]]
        /\ UNCHANGED budget
     \/ Spend("faults") /\ UNCHANGED kid
  /\ job' = [job EXCEPT !["web"] = [@ EXCEPT !.at = "ask", !.kids = {}]]
  /\ UNCHANGED <<upstream, parent, ledger, round, hurt>>

(* _forget_child_walks: the contents of a list have changed. *)
Forget(p) ==
  /\ p \in ToSet(walked) /\ Spend("notices")
  /\ walked' = Remove(walked, p) /\ since' = since \ {p}
  /\ UNCHANGED <<upstream, parent, kid, owed, round, job, hurt>>

(* The process dies and starts again.  A ledger that is empty is seeded    *)
(* with the parents of the rows there are.                                 *)
Crash ==
  /\ Spend("faults")
  /\ job' = [w \in Walkers |-> Idle]
  /\ LET seeded == {p \in Parents : \E k \in Under(p) : kid[k] # "none"}
     IN  IF walked = <<>> THEN walked' = SetToSeq(seeded) /\ since' = seeded /\ UNCHANGED owed
         ELSE UNCHANGED ledger
  /\ UNCHANGED <<upstream, parent, kid, round, hurt>>

PcoAdd(k) ==
  Added(k) /\ Spend("changes") /\ UNCHANGED <<parent, kid, ledger, round, job, hurt>>

PcoRemove(k) ==
  Removed(k) /\ Spend("changes") /\ UNCHANGED <<parent, kid, ledger, round, job, hurt>>

PcoDestroy(p) ==
  /\ p \in exists /\ Spend("changes")
  /\ exists' = exists \ {p} /\ has' = has \ Under(p)
  /\ UNCHANGED <<born, parent, kid, ledger, round, job, hurt>>

-----------------------------------------------------------------------------
WalkStep(w) == Ask(w) \/ Land(w) \/ LandMissing(w)

Next ==
  \/ RoundStep \/ Record \/ Crash
  \/ \E w \in Walkers : WalkStep(w) \/ Failed(w)
  \/ \E p \in Parents : Read(p) \/ Forget(p) \/ PcoDestroy(p)
  \/ \E k \in Kids : Write(k) \/ PcoAdd(k) \/ PcoRemove(k)

Spec == Init /\ [][Next]_vars

(* Rounds recur, and a walk goes on; nobody has to read. *)
FairSpec ==
  /\ Spec /\ WF_vars(RoundStep) /\ WF_vars(Record)
  /\ \A w \in Walkers : WF_vars(WalkStep(w))

-----------------------------------------------------------------------------
Agrees(p, kids) == \A k \in kids : k \in Under(p) => (kid[k] = "live" <=> k \in has)

(* A parent in the ledger is served from the mirror, and then shows every  *)
(* child PCO had when it was last walked and still has: unknown is never   *)
(* served as empty (docstring of _ensure_walked, DESIGN 8).  Apart from    *)
(* children the mirror has buried by mistake; and a restart that credits a *)
(* parent with a walk (_seed_walk_ledger) has not walked it.               *)
WalkedIsWhole ==
  \A k \in owed \cap has :
    parent[k[1]] = "live" /\ k[1] \in ToSet(walked) => kid[k] = "live" \/ k \in hurt

(* Once PCO is quiet the rounds find every child that came or went, and    *)
(* bury every parent that went: those buried by mistake apart.             *)
CatchesUp ==
  <>[](\A p \in Parents : parent[p] = "live" => p \in exists /\ Agrees(p, Kids \ hurt))

(* The staleness of a walked collection is the interval of the rounds      *)
(* rather than unbounded (DESIGN, Household membership).                   *)
StalenessIsBounded ==
  <>[](\A p \in Parents : parent[p] = "live" => Agrees(p, Kids))
=============================================================================
