---------------------------- MODULE WebhookInbox ----------------------------
(***************************************************************************)
(* The webhook inbox of pcomirror (pcomirror/webhooks.py): HTTP threads    *)
(* capture deliveries row by row and acknowledge them, the scheduler's hot *)
(* lane drains the inbox, and the admin page puts dead letters back.  Each *)
(* SQL statement commits on its own, so each is a step of its own and a    *)
(* crash may fall between any two.  What an event's handler does to the    *)
(* mirror is abstracted to the stages that have landed.                    *)
(*                                                                         *)
(* An operator named Mut... is a deliberately wrong variant of the one it  *)
(* precedes; nothing uses it but the checks that a property notices.       *)
(***************************************************************************)
EXTENDS Naturals, Sequences, FiniteSets

CONSTANTS
  Events,        \* event ids
  Unmirrored,    \* events of a resource with no table
  Thin,          \* events whose resource projects children: hydrate them
  Mergers,       \* person_merger events
  Refreshed,     \* events whose action says the contents of a list changed
  Poison,        \* events whose payload is not a JSON document
  Deliveries,    \* deliveries PCO makes, and repeats until acknowledged
  Batch,         \* the events of each, in order
  Handlers,      \* HTTP threads
  MaxAttempts,   \* 8 in the code
  MaxFaults,     \* bound on statements that fail and answers that are lost
  MaxCrashes,    \* bound on restarts
  MaxReplays,    \* bound on the operator's replays
  NoEvent, NoDelivery

ASSUME InboxAssumption ==
  /\ Unmirrored \cup Thin \cup Mergers \cup Refreshed \cup Poison \subseteq Events
  /\ Unmirrored \cap (Thin \cup Mergers \cup Refreshed) = {}
  /\ Mergers \cap (Thin \cup Refreshed) = {}
  /\ Batch \in [Deliveries -> Seq(Events)]
  /\ MaxAttempts \in Nat \ {0}
  /\ {MaxFaults, MaxCrashes, MaxReplays} \subseteq Nat
  /\ NoEvent \notin Events /\ NoDelivery \notin Deliveries

VARIABLES
  outbox,   \* deliveries PCO has had no 204 for
  rx,       \* the delivery each HTTP thread is capturing, and the next item
  inbox,    \* webhook_event: status, process_attempts, next_attempt_at ahead
  letters,  \* webhook_dead_letter
  work,     \* the drain: what is left of its snapshot, the event in hand
  did,      \* the stages of each event's handler that have landed, ever
  door,     \* the operator's replay: letters left, the one in hand
  budget    \* what is left of the bounds

vars == <<outbox, rx, inbox, letters, work, did, door, budget>>

Stages == {"apply", "enqueue", "record", "forget"}

IdleRx == [d |-> NoDelivery, next |-> 1]
IdleWork == [todo |-> {}, ev |-> NoEvent, tries |-> 0, at |-> "idle"]
IdleDoor == [left |-> {}, ev |-> NoEvent, at |-> "idle"]

TypeOK ==
  /\ outbox \subseteq Deliveries
  /\ rx \in [Handlers -> [d : Deliveries \cup {NoDelivery}, next : Nat \ {0}]]
  /\ inbox \in [Events -> [status : {"none", "pending", "done", "ignored", "dead"},
                           attempts : 0 .. MaxAttempts - 1, later : BOOLEAN]]
  /\ letters \subseteq Events
  /\ work \in [todo : SUBSET [ev : Events, tries : 0 .. MaxAttempts - 1],
               ev : Events \cup {NoEvent}, tries : 0 .. MaxAttempts - 1,
               at : Stages \cup {"idle", "ignore", "mark", "letter", "bury"}]
  /\ did \in [Events -> SUBSET Stages]
  /\ door \in [left : SUBSET Events, ev : Events \cup {NoEvent},
               at : {"idle", "requeue", "unfile"}]
  /\ budget \in [faults : 0 .. MaxFaults, crashes : 0 .. MaxCrashes,
                 replays : 0 .. MaxReplays]

Init ==
  /\ outbox = Deliveries
  /\ rx = [h \in Handlers |-> IdleRx]
  /\ inbox = [e \in Events |-> [status |-> "none", attempts |-> 0, later |-> FALSE]]
  /\ letters = {}
  /\ work = IdleWork
  /\ did = [e \in Events |-> {}]
  /\ door = IdleDoor
  /\ budget = [faults |-> MaxFaults, crashes |-> MaxCrashes, replays |-> MaxReplays]

Spend(what) == budget[what] > 0 /\ budget' = [budget EXCEPT ![what] = @ - 1]

-----------------------------------------------------------------------------
(* receive: one thread per request.  The signature has been verified; a    *)
(* refused request changes nothing and PCO sends the delivery again.       *)
Arrive(h, d) ==
  /\ rx[h] = IdleRx /\ d \in outbox
  /\ rx' = [rx EXCEPT ![h] = [d |-> d, next |-> 1]]
  /\ UNCHANGED <<outbox, inbox, letters, work, did, door, budget>>

Item(h) == Batch[rx[h].d][rx[h].next]
Capturing(h) == rx[h] # IdleRx /\ rx[h].next <= Len(Batch[rx[h].d])

(* INSERT OR IGNORE: an event already held keeps its row. *)
MutInserted(row) == [status |-> "pending", attempts |-> 0, later |-> FALSE]

Inserted(row) == IF row.status = "none" THEN [row EXCEPT !.status = "pending"] ELSE row

Capture(h) ==
  /\ Capturing(h) /\ Item(h) \notin Poison
  /\ inbox' = [inbox EXCEPT ![Item(h)] = Inserted(@)]
  /\ rx' = [rx EXCEPT ![h].next = @ + 1]
  /\ UNCHANGED <<outbox, letters, work, did, door, budget>>

(* 503: the payload is parsed before the row is inserted, and the parse    *)
(* fails; or a statement fails.  What was captured stays.                  *)
Refuse(h) ==
  /\ rx[h] # IdleRx
  /\ \/ Capturing(h) /\ Item(h) \in Poison /\ UNCHANGED budget
     \/ Spend("faults")
  /\ rx' = [rx EXCEPT ![h] = IdleRx]
  /\ UNCHANGED <<outbox, inbox, letters, work, did, door>>

MutCaptured(h) == rx[h] # IdleRx

Captured(h) == rx[h] # IdleRx /\ rx[h].next > Len(Batch[rx[h].d])

(* 204, which may never reach PCO. *)
Acknowledge(h) ==
  /\ Captured(h)
  /\ \/ outbox' = outbox \ {rx[h].d} /\ UNCHANGED budget
     \/ Spend("faults") /\ UNCHANGED outbox
  /\ rx' = [rx EXCEPT ![h] = IdleRx]
  /\ UNCHANGED <<inbox, letters, work, did, door>>

-----------------------------------------------------------------------------
(* drain: a snapshot of the rows due, processed one after another. *)
MutDue == {e \in Events : inbox[e].status = "pending" /\ inbox[e].attempts = 0}

Due == {e \in Events : inbox[e].status = "pending" /\ ~ inbox[e].later}

Drain ==
  /\ work.at = "idle" /\ work.todo = {} /\ Due # {}
  /\ work' = [todo |-> {[ev |-> e, tries |-> inbox[e].attempts] : e \in Due},
              ev |-> NoEvent, tries |-> 0, at |-> "idle"]
  /\ UNCHANGED <<outbox, rx, inbox, letters, did, door, budget>>

(* Where process_event goes with an event: a merge already in the merger   *)
(* log is not news.                                                        *)
FirstStage(e) ==
  CASE e \in Poison -> "letter"
    [] e \in Unmirrored \ Poison -> "ignore"
    [] e \in Mergers \ Poison /\ "record" \in did[e] -> "mark"
    [] OTHER -> "apply"

MutFollowing(e, stage) ==
  CASE stage = "apply" /\ e \in Thin -> "enqueue"
    [] stage = "apply" /\ e \in Mergers -> "record"
    [] stage = "record" -> "enqueue"
    [] stage # "forget" /\ e \in Refreshed -> "forget"
    [] OTHER -> "mark"

(* A merge is recorded last, after the tombstone and the survivor's task.  *)
(* Enqueueing is a hydration task or, in a burst, an earlier sweep.        *)
Following(e, stage) ==
  CASE stage = "apply" /\ e \in Thin \cup Mergers -> "enqueue"
    [] stage = "enqueue" /\ e \in Mergers -> "record"
    [] stage = (IF e \in Thin THEN "enqueue" ELSE "apply") /\ e \in Refreshed -> "forget"
    [] OTHER -> "mark"

Take(s) ==
  /\ work.at = "idle" /\ s \in work.todo
  /\ work' = [todo |-> work.todo \ {s}, ev |-> s.ev, tries |-> s.tries,
              at |-> FirstStage(s.ev)]
  /\ UNCHANGED <<outbox, rx, inbox, letters, did, door, budget>>

NextEvent == [todo |-> work.todo, ev |-> NoEvent, tries |-> 0, at |-> "idle"]
OnTo(at) == [todo |-> work.todo, ev |-> work.ev, tries |-> work.tries, at |-> at]

Stage ==
  /\ work.at \in Stages
  /\ did' = [did EXCEPT ![work.ev] = @ \cup {work.at}]
  /\ work' = OnTo(Following(work.ev, work.at))
  /\ UNCHANGED <<outbox, rx, inbox, letters, door, budget>>

Settle ==
  /\ work.at \in {"mark", "ignore"}
  /\ inbox' = [inbox EXCEPT ![work.ev].status =
                 IF work.at = "mark" THEN "done" ELSE "ignored"]
  /\ work' = NextEvent
  /\ UNCHANGED <<outbox, rx, letters, did, door, budget>>

GivesUp(tries) == tries + 1 >= MaxAttempts

(* _retry_or_dead: back off, or give up at the last attempt. *)
Fail ==
  /\ work.at \in Stages \cup {"mark"}
  /\ Spend("faults")
  /\ IF GivesUp(work.tries)
     THEN /\ work' = OnTo("letter")
          /\ UNCHANGED inbox
     ELSE /\ inbox' = [inbox EXCEPT ![work.ev].attempts = work.tries + 1,
                                    ![work.ev].later = TRUE]
          /\ work' = NextEvent
  /\ UNCHANGED <<outbox, rx, letters, did, door>>

(* A statement of _retry_or_dead, _dead or _ignore itself fails: the drain *)
(* ends there and the event keeps the status it has.                       *)
Abandon ==
  /\ work.at # "idle"
  /\ Spend("faults")
  /\ work' = IdleWork
  /\ UNCHANGED <<outbox, rx, inbox, letters, did, door>>

(* _dead: two statements, the letter first. *)
Letter ==
  /\ work.at = "letter"
  /\ letters' = letters \cup {work.ev}
  /\ work' = OnTo("bury")
  /\ UNCHANGED <<outbox, rx, inbox, did, door, budget>>

Bury ==
  /\ work.at = "bury"
  /\ inbox' = [inbox EXCEPT ![work.ev].status = "dead"]
  /\ work' = NextEvent
  /\ UNCHANGED <<outbox, rx, letters, did, door, budget>>

(* The backoff elapses. *)
Wake(e) ==
  /\ inbox[e].later
  /\ inbox' = [inbox EXCEPT ![e].later = FALSE]
  /\ UNCHANGED <<outbox, rx, letters, work, did, door, budget>>

-----------------------------------------------------------------------------
(* retry_dead_letters, on the admin page's thread. *)
Replay ==
  /\ door.at = "idle" /\ letters # {}
  /\ Spend("replays")
  /\ door' = [left |-> letters, ev |-> NoEvent, at |-> "requeue"]
  /\ UNCHANGED <<outbox, rx, inbox, letters, work, did>>

Requeue(e) ==
  /\ door.at = "requeue" /\ e \in door.left
  /\ inbox' = [inbox EXCEPT ![e] = [status |-> "pending", attempts |-> 0, later |-> FALSE]]
  /\ door' = [left |-> door.left \ {e}, ev |-> e, at |-> "unfile"]
  /\ UNCHANGED <<outbox, rx, letters, work, did, budget>>

Unfile ==
  /\ door.at = "unfile"
  /\ letters' = letters \ {door.ev}
  /\ door' = IF door.left = {} THEN IdleDoor
             ELSE [door EXCEPT !.ev = NoEvent, !.at = "requeue"]
  /\ UNCHANGED <<outbox, rx, inbox, work, did, budget>>

(* The process dies: the database keeps what was committed. *)
Crash ==
  /\ Spend("crashes")
  /\ rx' = [h \in Handlers |-> IdleRx]
  /\ work' = IdleWork
  /\ door' = IdleDoor
  /\ UNCHANGED <<outbox, inbox, letters, did>>

-----------------------------------------------------------------------------
Receiver(h) ==
  \/ \E d \in Deliveries : Arrive(h, d)
  \/ Capture(h) \/ Refuse(h) \/ Acknowledge(h)

Worker ==
  \/ Drain \/ Stage \/ Settle \/ Letter \/ Bury
  \/ \E s \in work.todo : Take(s)

Operator == Replay \/ Unfile \/ \E e \in Events : Requeue(e)

Next ==
  \/ \E h \in Handlers : Receiver(h)
  \/ Worker \/ Fail \/ Abandon
  \/ \E e \in Events : Wake(e)
  \/ Operator
  \/ Crash

(* The hot lane never stops, backoffs elapse, an HTTP thread carries its   *)
(* request to an answer, and PCO repeats a delivery until it is            *)
(* acknowledged: strongly fair, since the server starts a thread for each  *)
(* request and none waits for another's.  Nothing makes the operator       *)
(* replay or a fault happen.                                               *)
Fairness ==
  /\ WF_vars(Worker)
  /\ \A e \in Events : WF_vars(Wake(e))
  /\ \A h \in Handlers : /\ WF_vars(Capture(h) \/ Acknowledge(h))
                         /\ WF_vars(Refuse(h) /\ UNCHANGED budget)
  /\ \A d \in Deliveries : SF_vars(\E h \in Handlers : Arrive(h, d))

Spec == Init /\ [][Next]_vars
FairSpec == Spec /\ Fairness

-----------------------------------------------------------------------------
(* Every event of a delivery PCO has an acknowledgement for is in the      *)
(* database: nothing can be lost after the 204 (DESIGN 6.4).               *)
AckedIsCaptured ==
  \A d \in Deliveries \ outbox : \A i \in 1 .. Len(Batch[d]) :
    inbox[Batch[d][i]].status # "none"

(* Every stage the handler of an event has, in whatever order, has landed. *)
Whole(e) ==
  /\ "apply" \in did[e]
  /\ e \in Thin => "enqueue" \in did[e]
  /\ e \in Mergers => "record" \in did[e]
  /\ e \in Refreshed => "forget" \in did[e]

(* A merge is in the merger log only once its tombstone and the survivor's *)
(* hydration have landed, and an event is done only once every stage of    *)
(* its handler has: a crash never makes half a handler permanent.          *)
DoneIsWhole ==
  \A e \in Events :
    /\ "record" \in did[e] => {"apply", "enqueue"} \subseteq did[e]
    /\ inbox[e].status = "done" => Whole(e)

(* The inbox implements the abstract one: what PCO may forget, what has    *)
(* become of an event, whether its effects have all landed, its letter.    *)
Standing(status) ==
  CASE status = "none" -> "unknown" [] status = "pending" -> "waiting" [] OTHER -> status

Promise == INSTANCE InboxPromise WITH
  owed <- outbox,
  standing <- [e \in Events |-> Standing(inbox[e].status)],
  whole <- {e \in Events : Whole(e)}

(* Every step of capture, drain, retry, replay and restart is a step of    *)
(* InboxPromise or leaves what it speaks of unchanged.                     *)
Promised == Promise!Spec

Healthy(d) == \A i \in 1 .. Len(Batch[d]) : Batch[d][i] \notin Poison

(* Every delivery that parses is acknowledged in the end, and every        *)
(* captured event is done, ignored or dead-lettered, whatever crashes and  *)
(* fails on the way.                                                       *)
EverythingSettles ==
  /\ \A d \in Deliveries : Healthy(d) => <>(d \notin outbox)
  /\ \A e \in Events : inbox[e].status = "pending" ~>
                         inbox[e].status \in {"done", "ignored", "dead"}
=============================================================================
