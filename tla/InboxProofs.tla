---------------------------- MODULE InboxProofs -----------------------------
(***************************************************************************)
(* Theorems about WebhookInbox, for every set of events, deliveries and    *)
(* threads and every bound: types, what an acknowledgement and a `done'    *)
(* stand for, and that the inbox implements InboxPromise.                  *)
(***************************************************************************)
EXTENDS WebhookInbox, TLAPS

Statuses == {"none", "pending", "done", "ignored", "dead"}
Tries == 0 .. MaxAttempts - 1
Rows == [status : Statuses, attempts : Tries, later : BOOLEAN]
Seats == [d : Deliveries \cup {NoDelivery}, next : Nat \ {0}]
Ats == Stages \cup {"idle", "ignore", "mark", "letter", "bury"}
Snapshots == [ev : Events, tries : Tries]
Works == [todo : SUBSET Snapshots, ev : Events \cup {NoEvent}, tries : Tries, at : Ats]
Doors == [left : SUBSET Events, ev : Events \cup {NoEvent}, at : {"idle", "requeue", "unfile"}]
Budgets == [faults : 0 .. MaxFaults, crashes : 0 .. MaxCrashes, replays : 0 .. MaxReplays]

LEMMA Bounds ==
  /\ MaxAttempts \in Nat /\ MaxAttempts # 0 /\ 0 \in Tries
  /\ MaxFaults \in Nat /\ MaxCrashes \in Nat /\ MaxReplays \in Nat
  /\ NoEvent \notin Events /\ NoDelivery \notin Deliveries
  BY InboxAssumption DEF Tries

LEMMA Types ==
  TypeOK <=> /\ outbox \subseteq Deliveries
             /\ rx \in [Handlers -> Seats]
             /\ inbox \in [Events -> Rows]
             /\ letters \subseteq Events
             /\ work \in Works
             /\ did \in [Events -> SUBSET Stages]
             /\ door \in Doors
             /\ budget \in Budgets
  BY DEF TypeOK, Seats, Rows, Statuses, Tries, Works, Snapshots, Ats, Doors, Budgets

LEMMA TypesNext ==
  TypeOK' <=> /\ outbox' \subseteq Deliveries
              /\ rx' \in [Handlers -> Seats]
              /\ inbox' \in [Events -> Rows]
              /\ letters' \subseteq Events
              /\ work' \in Works
              /\ did' \in [Events -> SUBSET Stages]
              /\ door' \in Doors
              /\ budget' \in Budgets
  BY DEF TypeOK, Seats, Rows, Statuses, Tries, Works, Snapshots, Ats, Doors, Budgets

LEMMA InitType == Init => TypeOK
<1> SUFFICES ASSUME Init PROVE TypeOK
  OBVIOUS
<1>1. IdleRx \in Seats /\ IdleWork \in Works /\ IdleDoor \in Doors
  BY Bounds DEF IdleRx, Seats, IdleWork, Works, Ats, IdleDoor, Doors
<1>2. [status |-> "none", attempts |-> 0, later |-> FALSE] \in Rows
  BY Bounds DEF Rows, Statuses
<1>3. budget \in Budgets
  BY Bounds DEF Init, Budgets
<1> QED BY <1>1, <1>2, <1>3, Types DEF Init

LEMMA SpendType ==
  ASSUME budget \in Budgets, NEW what \in {"faults", "crashes", "replays"}, Spend(what)
  PROVE  budget' \in Budgets
  BY Bounds DEF Budgets, Spend

LEMMA InsertedRow ==
  ASSUME NEW row \in Rows
  PROVE  /\ Inserted(row) \in Rows /\ Inserted(row).status # "none"
         /\ row.status # "none" => Inserted(row) = row
  BY DEF Inserted, Rows, Statuses

LEMMA StageTypes ==
  ASSUME NEW e \in Events
  PROVE  /\ FirstStage(e) \in {"letter", "ignore", "mark", "apply"}
         /\ \A stage \in Stages : Following(e, stage) \in {"enqueue", "record", "forget", "mark"}
  BY DEF FirstStage, Following, Stages

-----------------------------------------------------------------------------
(* Types. *)

LEMMA CaptureType ==
  ASSUME TypeOK, NEW h \in Handlers, Capture(h)
  PROVE  TypeOK'
<1>1. rx[h] \in Seats /\ rx[h] # IdleRx
  BY Types DEF Capture, Capturing
<1>2. Item(h) \in Events => inbox[Item(h)] \in Rows
  BY Types
<1>3. inbox' \in [Events -> Rows]
  BY <1>2, InsertedRow, Types DEF Capture
<1>4. rx' \in [Handlers -> Seats]
  BY <1>1, Types DEF Capture, Seats
<1> QED BY <1>3, <1>4, Types, TypesNext DEF Capture

LEMMA ReceiverType ==
  ASSUME TypeOK, NEW h \in Handlers, Receiver(h)
  PROVE  TypeOK'
<1>1. ASSUME NEW d \in Deliveries, Arrive(h, d) PROVE TypeOK'
  <2>1. [d |-> d, next |-> 1] \in Seats
    BY DEF Seats
  <2> QED BY <1>1, <2>1, Types, TypesNext DEF Arrive
<1>2. CASE Refuse(h) \/ Acknowledge(h)
  <2>1. IdleRx \in Seats
    BY DEF IdleRx, Seats
  <2>2. budget' \in Budgets
    BY <1>2, SpendType, Types DEF Refuse, Acknowledge
  <2> QED BY <1>2, <2>1, <2>2, Types, TypesNext DEF Refuse, Acknowledge
<1> QED BY <1>1, <1>2, CaptureType DEF Receiver

LEMMA DrainType ==
  ASSUME TypeOK, Drain PROVE TypeOK'
<1> DEFINE snap == {[ev |-> e, tries |-> inbox[e].attempts] : e \in Due}
<1>1. snap \subseteq Snapshots
  BY Types DEF Due, Rows, Snapshots
<1>2. /\ work' = [todo |-> snap, ev |-> NoEvent, tries |-> 0, at |-> "idle"]
      /\ UNCHANGED <<outbox, rx, inbox, letters, did, door, budget>>
  BY DEF Drain
<1> HIDE DEF snap
<1>3. work' \in Works
  BY <1>1, <1>2, Bounds DEF Works, Ats
<1> QED BY <1>2, <1>3, Types, TypesNext

LEMMA TakeType ==
  ASSUME TypeOK, NEW s \in work.todo, Take(s) PROVE TypeOK'
<1>1. s.ev \in Events /\ s.tries \in Tries /\ work.todo \ {s} \in SUBSET Snapshots
  BY Types DEF Works, Snapshots
<1>2. FirstStage(s.ev) \in Ats
  BY <1>1, StageTypes DEF Ats, Stages
<1>3. work' \in Works
  BY <1>1, <1>2 DEF Take, Works
<1> QED BY <1>3, Types, TypesNext DEF Take

LEMMA NextEventType ==
  ASSUME TypeOK PROVE NextEvent \in Works
  BY Bounds, Types DEF NextEvent, Works, Ats

LEMMA OnToType ==
  ASSUME TypeOK, NEW at \in Ats PROVE OnTo(at) \in Works
  BY Types DEF OnTo, Works

LEMMA StageType ==
  ASSUME TypeOK, work.ev \in Events, Stage PROVE TypeOK'
<1>1. Following(work.ev, work.at) \in Ats
  BY StageTypes DEF Stage, Ats, Stages
<1>2. work' \in Works
  BY <1>1, OnToType DEF Stage
<1>3. did' \in [Events -> SUBSET Stages]
  BY Types DEF Stage
<1> QED BY <1>2, <1>3, Types, TypesNext DEF Stage

LEMMA SettleType ==
  ASSUME TypeOK, work.ev \in Events, Settle PROVE TypeOK'
<1>1. inbox' \in [Events -> Rows]
  BY Types DEF Settle, Rows, Statuses
<1>2. work' \in Works
  BY NextEventType DEF Settle
<1> QED BY <1>1, <1>2, Types, TypesNext DEF Settle

LEMMA FailType ==
  ASSUME TypeOK, work.ev \in Events, Fail PROVE TypeOK'
<1>1. budget' \in Budgets
  BY SpendType, Types DEF Fail
<1>2. CASE GivesUp(work.tries)
  <2>1. work' \in Works /\ inbox' = inbox
    BY <1>2, OnToType DEF Fail, Ats
  <2> QED BY <1>1, <2>1, Types, TypesNext DEF Fail
<1>3. CASE ~ GivesUp(work.tries)
  <2>1. work.tries \in Tries /\ work.tries + 1 \in Tries
    BY <1>3, Bounds, Types DEF Works, GivesUp, Tries
  <2>2. inbox' \in [Events -> Rows]
    BY <1>3, <2>1, Types DEF Fail, Rows
  <2>3. work' \in Works
    BY <1>3, NextEventType DEF Fail
  <2> QED BY <1>1, <2>2, <2>3, Types, TypesNext DEF Fail
<1> QED BY <1>2, <1>3

LEMMA EndingsType ==
  ASSUME TypeOK, work.ev \in Events, Abandon \/ Letter \/ Bury PROVE TypeOK'
<1>1. CASE Abandon
  <2>1. IdleWork \in Works /\ budget' \in Budgets
    BY <1>1, Bounds, SpendType, Types DEF Abandon, IdleWork, Works, Ats
  <2> QED BY <1>1, <2>1, Types, TypesNext DEF Abandon
<1>2. CASE Letter
  <2>1. work' \in Works
    BY <1>2, OnToType DEF Letter, Ats
  <2> QED BY <1>2, <2>1, Types, TypesNext DEF Letter
<1>3. CASE Bury
  <2>1. inbox' \in [Events -> Rows]
    BY <1>3, Types DEF Bury, Rows, Statuses
  <2>2. work' \in Works
    BY <1>3, NextEventType DEF Bury
  <2> QED BY <1>3, <2>1, <2>2, Types, TypesNext DEF Bury
<1> QED BY <1>1, <1>2, <1>3

LEMMA WakeType ==
  ASSUME TypeOK, NEW e \in Events, Wake(e) PROVE TypeOK'
<1>1. inbox' \in [Events -> Rows]
  BY Types DEF Wake, Rows
<1> QED BY <1>1, Types, TypesNext DEF Wake

LEMMA OperatorType ==
  ASSUME TypeOK, door.at = "unfile" => door.ev \in Events, Operator PROVE TypeOK'
<1>1. CASE Replay
  <2>1. door' \in Doors /\ budget' \in Budgets
    BY <1>1, SpendType, Types DEF Replay, Doors
  <2> QED BY <1>1, <2>1, Types, TypesNext DEF Replay
<1>2. ASSUME NEW e \in Events, Requeue(e) PROVE TypeOK'
  <2>1. [status |-> "pending", attempts |-> 0, later |-> FALSE] \in Rows
    BY Bounds DEF Rows, Statuses
  <2>2. door' \in Doors
    BY <1>2, Types DEF Requeue, Doors
  <2> QED BY <1>2, <2>1, <2>2, Types, TypesNext DEF Requeue
<1>3. CASE Unfile
  <2>1. door' \in Doors
    BY <1>3, Types DEF Unfile, Doors, IdleDoor
  <2> QED BY <1>3, <2>1, Types, TypesNext DEF Unfile
<1> QED BY <1>1, <1>2, <1>3 DEF Operator

LEMMA CrashType ==
  ASSUME TypeOK, Crash PROVE TypeOK'
<1>1. IdleRx \in Seats /\ IdleWork \in Works /\ IdleDoor \in Doors
  BY Bounds DEF IdleRx, Seats, IdleWork, Works, Ats, IdleDoor, Doors
<1>2. budget' \in Budgets
  BY SpendType, Types DEF Crash
<1> QED BY <1>1, <1>2, Types, TypesNext DEF Crash

-----------------------------------------------------------------------------
(* What each step does to the events' standing. *)

StatusStays == \A e \in Events : inbox'[e].status = inbox[e].status
OnlyMoves(x, status) == \A e \in Events :
  inbox'[e].status = IF e = x THEN status ELSE inbox[e].status

LEMMA CaptureStatus ==
  ASSUME TypeOK, NEW h \in Handlers, Capture(h), NEW e \in Events
  PROVE  inbox'[e].status = IF e = Item(h) /\ inbox[e].status = "none"
                            THEN "pending" ELSE inbox[e].status
<1>1. inbox \in [Events -> Rows] /\ inbox[e] \in Rows
  BY Types
<1>2. inbox'[e] = IF e = Item(h) THEN Inserted(inbox[e]) ELSE inbox[e]
  BY <1>1 DEF Capture
<1>3. Inserted(inbox[e]).status = IF inbox[e].status = "none" THEN "pending"
                                  ELSE inbox[e].status
  BY <1>1 DEF Inserted, Rows
<1> QED BY <1>2, <1>3

LEMMA SettleStatus ==
  ASSUME TypeOK, Settle
  PROVE  OnlyMoves(work.ev, IF work.at = "mark" THEN "done" ELSE "ignored")
  BY Types DEF Settle, OnlyMoves, Rows

LEMMA BuryStatus ==
  ASSUME TypeOK, Bury PROVE OnlyMoves(work.ev, "dead")
  BY Types DEF Bury, OnlyMoves, Rows

LEMMA RequeueStatus ==
  ASSUME TypeOK, NEW x \in Events, Requeue(x) PROVE OnlyMoves(x, "pending")
  BY Types DEF Requeue, OnlyMoves

LEMMA FailStatus ==
  ASSUME TypeOK, Fail PROVE StatusStays
<1>1. CASE GivesUp(work.tries)
  BY <1>1 DEF Fail, StatusStays
<1>2. CASE ~ GivesUp(work.tries)
  BY <1>2, Types DEF Fail, StatusStays, Rows
<1> QED BY <1>1, <1>2

LEMMA WakeStatus ==
  ASSUME TypeOK, NEW x \in Events, Wake(x) PROVE StatusStays
  BY Types DEF Wake, StatusStays, Rows

-----------------------------------------------------------------------------
(* The inductive invariant, in parts. *)

(* A thread that is capturing has every earlier item of its delivery in    *)
(* the database.                                                           *)
Captures == \A h \in Handlers : rx[h] # IdleRx =>
  /\ rx[h].d \in Deliveries
  /\ \A i \in 1 .. Len(Batch[rx[h].d]) :
       i < rx[h].next => inbox[Batch[rx[h].d][i]].status # "none"

(* The event in hand and those left of the snapshot are pending, and each  *)
(* is there once: nothing else settles an event.                           *)
InHand ==
  work.at # "idle" => work.ev \in Events /\ inbox[work.ev].status = "pending"
Ahead == \A s \in work.todo :
  inbox[s.ev].status = "pending" /\ (work.at # "idle" => s.ev # work.ev)
Once == \A s, t \in work.todo : s.ev = t.ev => s = t
Hand == InHand /\ Ahead /\ Once

(* The stages before the one at hand have landed. *)
LandedBefore(e, at) ==
  /\ at = "enqueue" => "apply" \in did[e] /\ e \in Thin \cup Mergers
  /\ at = "record" => {"apply", "enqueue"} \subseteq did[e] /\ e \in Mergers
  /\ at = "forget" => /\ "apply" \in did[e] /\ e \in Refreshed
                      /\ e \in Thin => "enqueue" \in did[e]
  /\ at = "mark" => Whole(e)
  /\ at = "ignore" => e \in Unmirrored
Landed == work.at # "idle" => LandedBefore(work.ev, work.at)

(* What is left of a replay still has its letter. *)
Desk ==
  /\ door.at # "idle" => door.left \subseteq letters
  /\ door.at = "unfile" => door.ev \in Events /\ door.ev \notin door.left

InboxInv == /\ TypeOK /\ AckedIsCaptured /\ Captures
            /\ Hand /\ Landed /\ DoneIsWhole /\ Desk

-----------------------------------------------------------------------------
(* Reception: what PCO may forget, and how far each thread is. *)

LEMMA ItemIsEvent ==
  ASSUME NEW d \in Deliveries, NEW i \in 1 .. Len(Batch[d])
  PROVE  Batch[d][i] \in Events
<1>1. Batch[d] \in Seq(Events)
  BY InboxAssumption
<1> QED BY <1>1

LEMMA ReceptionFrame ==
  ASSUME AckedIsCaptured, Captures, UNCHANGED outbox,
         rx' = rx \/ rx' = [h \in Handlers |-> IdleRx],
         \A e \in Events : inbox[e].status # "none" => inbox'[e].status # "none"
  PROVE  AckedIsCaptured' /\ Captures'
<1>1. AckedIsCaptured'
  <2> SUFFICES ASSUME NEW d \in Deliveries \ outbox, NEW i \in 1 .. Len(Batch[d])
               PROVE  inbox'[Batch[d][i]].status # "none"
    BY DEF AckedIsCaptured
  <2> QED BY ItemIsEvent DEF AckedIsCaptured
<1>2. Captures'
  <2> SUFFICES ASSUME NEW h \in Handlers, rx'[h] # IdleRx
               PROVE  /\ rx'[h].d \in Deliveries
                      /\ \A i \in 1 .. Len(Batch[rx'[h].d]) : i < rx'[h].next =>
                           inbox'[Batch[rx'[h].d][i]].status # "none"
    BY DEF Captures
  <2>1. rx' = rx
    OBVIOUS
  <2>2. rx[h].d \in Deliveries
    BY <2>1 DEF Captures
  <2>3. ASSUME NEW i \in 1 .. Len(Batch[rx[h].d]), i < rx[h].next
        PROVE  inbox'[Batch[rx[h].d][i]].status # "none"
    <3>1. inbox[Batch[rx[h].d][i]].status # "none"
      BY <2>1, <2>3 DEF Captures
    <3> QED BY <2>2, <3>1, ItemIsEvent
  <2> QED BY <2>1, <2>2, <2>3
<1> QED BY <1>1, <1>2

LEMMA ReceptionStep ==
  ASSUME TypeOK, AckedIsCaptured, Captures, NEW h \in Handlers, Receiver(h)
  PROVE  AckedIsCaptured' /\ Captures'
<1>0. rx \in [Handlers -> Seats]
  BY Types
<1>1. ASSUME NEW d \in Deliveries, Arrive(h, d) PROVE AckedIsCaptured' /\ Captures'
  <2>1. AckedIsCaptured'
    BY <1>1 DEF Arrive, AckedIsCaptured
  <2>2. rx'[h].d = d /\ rx'[h].next = 1 /\ \A g \in Handlers \ {h} : rx'[g] = rx[g]
    BY <1>0, <1>1 DEF Arrive
  <2>3. inbox' = inbox
    BY <1>1 DEF Arrive
  <2> QED BY <2>1, <2>2, <2>3 DEF Captures
<1>2. CASE Capture(h)
  <2>1. \A e \in Events : inbox[e].status # "none" => inbox'[e].status # "none"
    BY <1>2, CaptureStatus
  <2>2. AckedIsCaptured'
    <3> SUFFICES ASSUME NEW d \in Deliveries \ outbox, NEW i \in 1 .. Len(Batch[d])
                 PROVE  inbox'[Batch[d][i]].status # "none"
      BY <1>2 DEF AckedIsCaptured, Capture
    <3> QED BY <2>1, ItemIsEvent DEF AckedIsCaptured
  <2>3. /\ rx[h] # IdleRx /\ rx[h].d \in Deliveries /\ rx[h].next \in Nat \ {0}
        /\ rx[h].next <= Len(Batch[rx[h].d])
    BY <1>0, <1>2 DEF Capture, Capturing, Captures, Seats
  <2>4. Item(h) \in Events /\ inbox'[Item(h)].status # "none"
    <3>0. Len(Batch[rx[h].d]) \in Nat
      BY <2>3, InboxAssumption
    <3>1. Item(h) \in Events
      BY <2>3, <3>0, ItemIsEvent DEF Item
    <3> QED BY <1>2, <3>1, CaptureStatus
  <2>5. /\ rx'[h].d = rx[h].d /\ rx'[h].next = rx[h].next + 1
        /\ \A g \in Handlers \ {h} : rx'[g] = rx[g]
    BY <1>0, <1>2, <2>3 DEF Capture, Seats
  <2>6. ASSUME NEW g \in Handlers, rx'[g] # IdleRx,
               NEW i \in 1 .. Len(Batch[rx'[g].d]), i < rx'[g].next
        PROVE  inbox'[Batch[rx'[g].d][i]].status # "none"
    <3>1. CASE g = h /\ i = rx[h].next
      BY <2>4, <2>5, <3>1 DEF Item
    <3>2. CASE ~ (g = h /\ i = rx[h].next)
      <4>1. rx[g] # IdleRx /\ rx'[g].d = rx[g].d /\ i < rx[g].next /\ rx[g].d \in Deliveries
        BY <2>3, <2>5, <2>6, <3>2 DEF Captures
      <4>2. inbox[Batch[rx[g].d][i]].status # "none"
        BY <2>6, <4>1 DEF Captures
      <4>3. Batch[rx[g].d][i] \in Events
        BY <2>6, <4>1, ItemIsEvent
      <4> QED BY <2>1, <4>1, <4>2, <4>3
    <3> QED BY <3>1, <3>2
  <2>7. \A g \in Handlers : rx'[g] # IdleRx => rx'[g].d \in Deliveries
    BY <2>3, <2>5 DEF Captures
  <2> QED BY <2>2, <2>6, <2>7 DEF Captures
<1>3. CASE Refuse(h) \/ Acknowledge(h)
  <2>1. /\ rx'[h] = IdleRx /\ \A g \in Handlers \ {h} : rx'[g] = rx[g]
        /\ inbox' = inbox
    BY <1>0, <1>3 DEF Refuse, Acknowledge
  <2>2. Captures'
    BY <2>1 DEF Captures
  <2>3. CASE outbox' = outbox
    BY <2>1, <2>2, <2>3 DEF AckedIsCaptured
  <2>4. CASE Captured(h) /\ outbox' = outbox \ {rx[h].d}
    <3>1. /\ rx[h] # IdleRx /\ rx[h].d \in Deliveries /\ rx[h].next \in Nat
          /\ rx[h].next > Len(Batch[rx[h].d])
      BY <1>0, <2>4 DEF Captured, Captures, Seats
    <3>2. Len(Batch[rx[h].d]) \in Nat
      BY <3>1, InboxAssumption
    <3>3. ASSUME NEW i \in 1 .. Len(Batch[rx[h].d])
          PROVE  inbox[Batch[rx[h].d][i]].status # "none"
      BY <3>1, <3>2 DEF Captures
    <3> QED BY <2>1, <2>2, <2>4, <3>3 DEF AckedIsCaptured
  <2> QED BY <1>3, <2>3, <2>4 DEF Refuse, Acknowledge
<1> QED BY <1>1, <1>2, <1>3 DEF Receiver

-----------------------------------------------------------------------------
(* The drain: the event in hand and the rest of its snapshot. *)

LEMMA HandFrame ==
  ASSUME TypeOK, Hand, work' = work \/ work' = IdleWork,
         \A e \in Events : inbox[e].status = "pending" => inbox'[e].status = "pending"
  PROVE  Hand'
<1>1. CASE work' = work
  <2>1. \A s \in work.todo : s.ev \in Events
    BY Types DEF Works, Snapshots
  <2> QED BY <1>1, <2>1 DEF Hand, InHand, Ahead, Once
<1>2. CASE work' = IdleWork
  BY <1>2 DEF Hand, InHand, Ahead, Once, IdleWork
<1> QED BY <1>1, <1>2

LEMMA HandDrain ==
  ASSUME TypeOK, Drain PROVE Hand'
<1>1. work'.at = "idle" /\ inbox' = inbox
  BY DEF Drain
<1>2. work'.todo = {[ev |-> e, tries |-> inbox[e].attempts] : e \in Due}
  BY DEF Drain
<1>3. Ahead'
  BY <1>1, <1>2 DEF Ahead, Due
<1>4. Once'
  BY <1>2 DEF Once
<1> QED BY <1>1, <1>3, <1>4 DEF Hand, InHand

LEMMA HandTake ==
  ASSUME TypeOK, Hand, NEW s \in work.todo, Take(s) PROVE Hand'
<1>1. s.ev \in Events
  BY Types DEF Works, Snapshots
<1>2. work'.todo = work.todo \ {s} /\ work'.ev = s.ev /\ inbox' = inbox
  BY DEF Take
<1>3. InHand'
  BY <1>1, <1>2 DEF Hand, InHand, Ahead
<1>4. Ahead'
  BY <1>2 DEF Hand, Ahead, Once
<1>5. Once'
  BY <1>2 DEF Hand, Once
<1> QED BY <1>3, <1>4, <1>5 DEF Hand

(* A step that keeps the event in hand. *)
LEMMA HandOnTo ==
  ASSUME TypeOK, Hand, work.at # "idle", UNCHANGED inbox,
         NEW at, work' = OnTo(at)
  PROVE  Hand'
<1>1. work'.todo = work.todo /\ work'.ev = work.ev
  BY DEF OnTo
<1> QED BY <1>1 DEF Hand, InHand, Ahead, Once

(* A step that puts it down, whatever becomes of it. *)
LEMMA HandNext ==
  ASSUME TypeOK, Hand, work.at # "idle", work' = NextEvent,
         \A e \in Events \ {work.ev} : inbox'[e].status = inbox[e].status
  PROVE  Hand'
<1>1. work'.todo = work.todo /\ work'.at = "idle"
  BY DEF NextEvent
<1>2. \A s \in work.todo : s.ev \in Events
  BY Types DEF Works, Snapshots
<1>3. Ahead'
  BY <1>1, <1>2 DEF Hand, Ahead
<1>4. Once' /\ InHand'
  BY <1>1 DEF Hand, Once, InHand
<1> QED BY <1>3, <1>4 DEF Hand

-----------------------------------------------------------------------------
(* The stages of the handlers. *)

Effects == Landed /\ DoneIsWhole

LEMMA EffectsFrame ==
  ASSUME Effects, UNCHANGED did, work' = work \/ work'.at = "idle",
         \A e \in Events : inbox'[e].status = "done" => inbox[e].status = "done"
  PROVE  Effects'
<1>1. \A e : Whole(e)' <=> Whole(e)
  BY DEF Whole
<1>2. DoneIsWhole'
  BY <1>1 DEF Effects, DoneIsWhole
<1>3. Landed'
  BY <1>1 DEF Effects, Landed, LandedBefore
<1> QED BY <1>2, <1>3 DEF Effects

LEMMA EffectsTake ==
  ASSUME TypeOK, Effects, NEW s \in work.todo, Take(s) PROVE Effects'
<1>1. s.ev \in Events
  BY Types DEF Works, Snapshots
<1>2. work'.ev = s.ev /\ work'.at = FirstStage(s.ev) /\ UNCHANGED <<inbox, did>>
  BY DEF Take
<1>3. \A e : Whole(e)' <=> Whole(e)
  BY <1>2 DEF Whole
<1>4. s.ev \in Mergers /\ "record" \in did[s.ev] => Whole(s.ev)
  BY <1>1, InboxAssumption DEF Effects, DoneIsWhole, Whole
<1>5. LandedBefore(s.ev, FirstStage(s.ev))
  BY <1>4 DEF LandedBefore, FirstStage
<1>6. Landed'
  BY <1>2, <1>3, <1>5 DEF Landed, LandedBefore
<1>7. DoneIsWhole'
  BY <1>2, <1>3 DEF Effects, DoneIsWhole
<1> QED BY <1>6, <1>7 DEF Effects

LEMMA StageGrows ==
  ASSUME TypeOK, InHand, Stage
  PROVE  /\ work.ev \in Events
         /\ did'[work.ev] = did[work.ev] \cup {work.at}
         /\ \A e \in Events \ {work.ev} : did'[e] = did[e]
  BY Types DEF Stage, InHand, Stages

LEMMA EffectsStage ==
  ASSUME TypeOK, Hand, Effects, Stage PROVE Effects'
<1>1. /\ work.ev \in Events /\ did'[work.ev] = did[work.ev] \cup {work.at}
      /\ \A e \in Events \ {work.ev} : did'[e] = did[e]
  BY StageGrows DEF Hand
<1>2. /\ work'.ev = work.ev /\ work'.at = Following(work.ev, work.at)
      /\ inbox' = inbox /\ work.at \in Stages
  BY DEF Stage, OnTo
<1>3. LandedBefore(work.ev, work.at)
  BY <1>2 DEF Effects, Landed, Stages
<1>4. LandedBefore(work.ev, work.at)'
  <2> DEFINE e == work.ev
             at == work.at
             done == did'[work.ev]
  <2>1. /\ at = "enqueue" => "apply" \in done /\ e \in Thin \cup Mergers
        /\ at = "record" => {"apply", "enqueue"} \subseteq done /\ e \in Mergers
        /\ at = "forget" => /\ "apply" \in done /\ e \in Refreshed
                            /\ e \in Thin => "enqueue" \in done
    BY <1>1, <1>3 DEF LandedBefore
  <2>2. at \in done
    BY <1>1
  <2>3. at \in {"apply", "enqueue", "record", "forget"}
    BY <1>2 DEF Stages
  <2> DEFINE to == Following(e, at)
  <2>4. /\ to = "enqueue" => "apply" \in done /\ e \in Thin \cup Mergers
        /\ to = "record" => {"apply", "enqueue"} \subseteq done /\ e \in Mergers
        /\ to = "forget" => /\ "apply" \in done /\ e \in Refreshed
                            /\ e \in Thin => "enqueue" \in done
        /\ to # "ignore"
    BY <2>1, <2>2, <2>3, InboxAssumption DEF Following
  <2>5. to = "mark" => /\ "apply" \in done
                       /\ e \in Thin => "enqueue" \in done
                       /\ e \in Mergers => "record" \in done
                       /\ e \in Refreshed => "forget" \in done
    BY <2>1, <2>2, <2>3, InboxAssumption DEF Following
  <2>6. work'.ev = e /\ work'.at = to
    BY <1>2
  <2> HIDE DEF to
  <2> QED BY <2>4, <2>5, <2>6 DEF LandedBefore, Whole
<1>5. Landed'
  BY <1>2, <1>4 DEF Landed, LandedBefore, Whole
<1>6. \A x \in Events : Whole(x) => Whole(x)'
  BY <1>1 DEF Whole
<1>7. ASSUME NEW x \in Events, "record" \in did'[x]
      PROVE  {"apply", "enqueue"} \subseteq did'[x]
  <2>1. CASE x # work.ev
    BY <1>1, <1>7, <2>1 DEF Effects, DoneIsWhole
  <2>2. CASE x = work.ev /\ "record" \in did[x]
    BY <1>1, <2>2 DEF Effects, DoneIsWhole
  <2>3. CASE x = work.ev /\ work.at = "record"
    BY <1>1, <1>3, <2>3 DEF LandedBefore
  <2> QED BY <1>1, <1>7, <2>1, <2>2, <2>3
<1>8. DoneIsWhole'
  BY <1>2, <1>6, <1>7 DEF Effects, DoneIsWhole
<1> QED BY <1>5, <1>8 DEF Effects

LEMMA EffectsSettle ==
  ASSUME TypeOK, Hand, Effects, Settle PROVE Effects'
<1>1. OnlyMoves(work.ev, IF work.at = "mark" THEN "done" ELSE "ignored")
  BY SettleStatus
<1>2. did' = did /\ work'.at = "idle"
  BY DEF Settle, NextEvent
<1>3. \A e : Whole(e)' <=> Whole(e)
  BY <1>2 DEF Whole
<1>4. work.at = "mark" => Whole(work.ev)
  BY DEF Effects, Landed, LandedBefore
<1>5. DoneIsWhole'
  BY <1>1, <1>2, <1>3, <1>4 DEF Effects, DoneIsWhole, OnlyMoves
<1> QED BY <1>2, <1>5 DEF Effects, Landed

(* A failing event goes straight to its letter. *)
LEMMA EffectsOnTo ==
  ASSUME Effects, UNCHANGED did, NEW at \in {"letter", "bury"}, work' = OnTo(at),
         UNCHANGED inbox
  PROVE  Effects'
<1>1. \A e : Whole(e)' <=> Whole(e)
  BY DEF Whole
<1>2. DoneIsWhole'
  BY <1>1 DEF Effects, DoneIsWhole
<1>3. work'.at = at
  BY DEF OnTo
<1>4. Landed'
  BY <1>3 DEF Landed, LandedBefore
<1> QED BY <1>2, <1>4 DEF Effects

-----------------------------------------------------------------------------
(* The operator's replay. *)

LEMMA DeskFrame ==
  ASSUME Desk, UNCHANGED door, letters \subseteq letters' PROVE Desk'
  BY DEF Desk

LEMMA DeskStep ==
  ASSUME TypeOK, Desk, Operator PROVE Desk'
<1>1. CASE Replay
  <2>1. door'.left = letters /\ door'.at = "requeue" /\ letters' = letters
    BY <1>1 DEF Replay
  <2> QED BY <2>1 DEF Desk
<1>2. ASSUME NEW e \in Events, Requeue(e) PROVE Desk'
  <2>1. /\ door'.left = door.left \ {e} /\ door'.ev = e /\ letters' = letters
        /\ door.at = "requeue"
    BY <1>2 DEF Requeue
  <2> QED BY <2>1 DEF Desk
<1>3. CASE Unfile
  <2>1. letters' = letters \ {door.ev} /\ door.at = "unfile"
    BY <1>3 DEF Unfile
  <2>2. CASE door.left = {}
    <3>1. door'.at = "idle"
      BY <1>3, <2>2 DEF Unfile, IdleDoor
    <3> QED BY <3>1 DEF Desk
  <2>3. CASE door.left # {}
    <3>1. door'.left = door.left /\ door'.at = "requeue"
      BY <1>3, <2>3, Types DEF Unfile, Doors
    <3> QED BY <2>1, <3>1 DEF Desk
  <2> QED BY <2>2, <2>3
<1> QED BY <1>1, <1>2, <1>3 DEF Operator

-----------------------------------------------------------------------------
(* Every step keeps the invariant. *)

LEMMA InitInv == Init => InboxInv
<1> SUFFICES ASSUME Init PROVE InboxInv
  OBVIOUS
<1>1. \A h \in Handlers : rx[h] = IdleRx
  BY DEF Init
<1>2. \A e \in Events : inbox[e].status = "none" /\ did[e] = {}
  BY DEF Init
<1>3. outbox = Deliveries /\ work.at = "idle" /\ work.todo = {} /\ door.at = "idle"
  BY DEF Init, IdleWork, IdleDoor
<1>4. AckedIsCaptured /\ Captures
  BY <1>1, <1>3 DEF AckedIsCaptured, Captures
<1>5. Hand /\ Landed /\ Desk
  BY <1>3 DEF Hand, InHand, Ahead, Once, Landed, Desk
<1>6. DoneIsWhole
  BY <1>2 DEF DoneIsWhole
<1> QED BY <1>4, <1>5, <1>6, InitType DEF InboxInv

(* What follows from how a step moves the standings, for the parts it does *)
(* not otherwise touch.                                                    *)
LEMMA Settled ==
  ASSUME InboxInv, UNCHANGED <<outbox, rx>>, NEW x, NEW status \in Statuses \ {"none"},
         OnlyMoves(x, status)
  PROVE  AckedIsCaptured' /\ Captures'
  BY ReceptionFrame DEF InboxInv, OnlyMoves, Statuses

LEMMA ReceiverInv ==
  ASSUME InboxInv, NEW h \in Handlers, Receiver(h) PROVE InboxInv'
<1>1. TypeOK'
  BY ReceiverType DEF InboxInv
<1>2. AckedIsCaptured' /\ Captures'
  BY ReceptionStep DEF InboxInv
<1>3. UNCHANGED <<letters, work, did, door>>
  BY DEF Receiver, Arrive, Capture, Refuse, Acknowledge
<1>4. \A e \in Events : /\ inbox[e].status = "pending" => inbox'[e].status = "pending"
                        /\ inbox'[e].status = "done" => inbox[e].status = "done"
  <2>1. CASE Capture(h)
    BY <2>1, CaptureStatus DEF InboxInv
  <2>2. CASE ~ Capture(h)
    BY <2>2 DEF Receiver, Arrive, Refuse, Acknowledge
  <2> QED BY <2>1, <2>2
<1>5. Hand'
  BY <1>3, <1>4, HandFrame DEF InboxInv
<1>6. Landed' /\ DoneIsWhole'
  BY <1>3, <1>4, EffectsFrame DEF InboxInv, Effects
<1>7. Desk'
  BY <1>3, DeskFrame DEF InboxInv
<1> QED BY <1>1, <1>2, <1>5, <1>6, <1>7 DEF InboxInv

LEMMA WorkerInv ==
  ASSUME InboxInv, Worker PROVE InboxInv'
<1>0. TypeOK /\ AckedIsCaptured /\ Captures /\ Hand /\ Effects /\ Desk
  BY DEF InboxInv, Effects
<1>1. CASE Drain
  <2>1. UNCHANGED <<outbox, rx, inbox, letters, did, door>> /\ work'.at = "idle"
    BY <1>1 DEF Drain
  <2>2. AckedIsCaptured' /\ Captures'
    BY <1>0, <2>1, ReceptionFrame
  <2>3. Effects' /\ Desk'
    BY <1>0, <2>1, EffectsFrame, DeskFrame
  <2> QED BY <1>0, <1>1, <2>2, <2>3, DrainType, HandDrain DEF InboxInv, Effects
<1>2. ASSUME NEW s \in work.todo, Take(s) PROVE InboxInv'
  <2>1. UNCHANGED <<outbox, rx, inbox, letters, did, door>>
    BY <1>2 DEF Take
  <2>2. AckedIsCaptured' /\ Captures'
    BY <1>0, <2>1, ReceptionFrame
  <2>3. Desk'
    BY <1>0, <2>1, DeskFrame
  <2> QED BY <1>0, <1>2, <2>2, <2>3, TakeType, HandTake, EffectsTake DEF InboxInv, Effects
<1>3. CASE Stage
  <2>1. /\ UNCHANGED <<outbox, rx, inbox, letters, door>>
        /\ work.at # "idle" /\ work' = OnTo(Following(work.ev, work.at))
    BY <1>3 DEF Stage, Stages
  <2>2. AckedIsCaptured' /\ Captures'
    BY <1>0, <2>1, ReceptionFrame
  <2>3. Desk'
    BY <1>0, <2>1, DeskFrame
  <2>4. Hand'
    BY <1>0, <2>1, HandOnTo
  <2>5. TypeOK'
    BY <1>0, <1>3, <2>1, StageType DEF Hand, InHand
  <2> QED BY <1>0, <1>3, <2>2, <2>3, <2>4, <2>5, EffectsStage DEF InboxInv, Effects
<1>4. CASE Settle
  <2>1. /\ UNCHANGED <<outbox, rx, letters, did, door>>
        /\ work.at # "idle" /\ work' = NextEvent
    BY <1>4 DEF Settle
  <2>2. OnlyMoves(work.ev, IF work.at = "mark" THEN "done" ELSE "ignored")
    BY <1>0, <1>4, SettleStatus
  <2>3. AckedIsCaptured' /\ Captures'
    BY <2>1, <2>2, Settled DEF Statuses
  <2>4. Desk'
    BY <1>0, <2>1, DeskFrame
  <2>5. Hand'
    BY <1>0, <2>1, <2>2, HandNext DEF OnlyMoves
  <2>6. TypeOK'
    BY <1>0, <1>4, <2>1, SettleType DEF Hand, InHand
  <2> QED BY <1>0, <1>4, <2>3, <2>4, <2>5, <2>6, EffectsSettle DEF InboxInv, Effects
<1>5. CASE Letter
  <2>1. /\ UNCHANGED <<outbox, rx, inbox, did, door>> /\ letters \subseteq letters'
        /\ work.at # "idle" /\ work' = OnTo("bury")
    BY <1>5 DEF Letter
  <2>2. AckedIsCaptured' /\ Captures'
    BY <1>0, <2>1, ReceptionFrame
  <2>3. Desk'
    BY <1>0, <2>1, DeskFrame
  <2>4. Hand'
    BY <1>0, <2>1, HandOnTo
  <2>5. Effects'
    BY <1>0, <2>1, EffectsOnTo
  <2>6. TypeOK'
    BY <1>0, <1>5, <2>1, EndingsType DEF Hand, InHand
  <2> QED BY <2>2, <2>3, <2>4, <2>5, <2>6 DEF InboxInv, Effects
<1>6. CASE Bury
  <2>1. /\ UNCHANGED <<outbox, rx, letters, did, door>>
        /\ work.at # "idle" /\ work' = NextEvent
    BY <1>6 DEF Bury
  <2>2. OnlyMoves(work.ev, "dead")
    BY <1>0, <1>6, BuryStatus
  <2>3. AckedIsCaptured' /\ Captures'
    BY <2>1, <2>2, Settled DEF Statuses
  <2>4. Desk'
    BY <1>0, <2>1, DeskFrame
  <2>5. Hand'
    BY <1>0, <2>1, <2>2, HandNext DEF OnlyMoves
  <2>6. Effects'
    <3>1. work'.at = "idle"
      BY <2>1 DEF NextEvent
    <3>2. \A e \in Events : inbox'[e].status = "done" => inbox[e].status = "done"
      BY <2>2 DEF OnlyMoves
    <3> QED BY <1>0, <2>1, <3>1, <3>2, EffectsFrame
  <2>7. TypeOK'
    BY <1>0, <1>6, <2>1, EndingsType DEF Hand, InHand
  <2> QED BY <2>3, <2>4, <2>5, <2>6, <2>7 DEF InboxInv, Effects
<1> QED BY <1>1, <1>2, <1>3, <1>4, <1>5, <1>6 DEF Worker

LEMMA FaultInv ==
  ASSUME InboxInv, Fail \/ Abandon \/ Crash PROVE InboxInv'
<1>0. TypeOK /\ AckedIsCaptured /\ Captures /\ Hand /\ Effects /\ Desk
  BY DEF InboxInv, Effects
<1>1. CASE Fail
  <2>1. UNCHANGED <<outbox, rx, letters, did, door>> /\ work.at # "idle"
    BY <1>1 DEF Fail, Stages
  <2>2. StatusStays
    BY <1>0, <1>1, FailStatus
  <2>3. AckedIsCaptured' /\ Captures'
    BY <1>0, <2>1, <2>2, ReceptionFrame DEF StatusStays
  <2>4. Desk'
    BY <1>0, <2>1, DeskFrame
  <2>5. TypeOK'
    BY <1>0, <1>1, <2>1, FailType DEF Hand, InHand
  <2>6. Hand' /\ Effects'
    <3>1. CASE GivesUp(work.tries)
      <4>1. work' = OnTo("letter") /\ inbox' = inbox
        BY <1>1, <3>1 DEF Fail
      <4> QED BY <1>0, <2>1, <4>1, HandOnTo, EffectsOnTo
    <3>2. CASE ~ GivesUp(work.tries)
      <4>1. work' = NextEvent /\ work'.at = "idle"
        BY <1>1, <3>2 DEF Fail, NextEvent
      <4>2. Hand'
        BY <1>0, <2>1, <2>2, <4>1, HandNext DEF StatusStays
      <4>3. Effects'
        BY <1>0, <2>1, <2>2, <4>1, EffectsFrame DEF StatusStays
      <4> QED BY <4>2, <4>3
    <3> QED BY <3>1, <3>2
  <2> QED BY <2>3, <2>4, <2>5, <2>6 DEF InboxInv, Effects
<1>2. CASE Abandon
  <2>1. /\ UNCHANGED <<outbox, rx, inbox, letters, did, door>> /\ work.at # "idle"
        /\ work' = IdleWork /\ work'.at = "idle"
    BY <1>2 DEF Abandon, IdleWork
  <2>2. AckedIsCaptured' /\ Captures'
    BY <1>0, <2>1, ReceptionFrame
  <2>3. Desk' /\ Hand' /\ Effects'
    BY <1>0, <2>1, DeskFrame, HandFrame, EffectsFrame
  <2>4. TypeOK'
    BY <1>0, <1>2, <2>1, EndingsType DEF Hand, InHand
  <2> QED BY <2>2, <2>3, <2>4 DEF InboxInv, Effects
<1>3. CASE Crash
  <2>1. /\ UNCHANGED <<outbox, inbox, letters, did>>
        /\ rx' = [h \in Handlers |-> IdleRx]
        /\ work' = IdleWork /\ work'.at = "idle" /\ door'.at = "idle"
    BY <1>3 DEF Crash, IdleWork, IdleDoor
  <2>2. AckedIsCaptured' /\ Captures'
    BY <1>0, <2>1, ReceptionFrame
  <2>3. Hand' /\ Effects'
    BY <1>0, <2>1, HandFrame, EffectsFrame
  <2>4. Desk'
    BY <2>1 DEF Desk
  <2> QED BY <1>0, <1>3, <2>2, <2>3, <2>4, CrashType DEF InboxInv, Effects
<1> QED BY <1>1, <1>2, <1>3

LEMMA OutsideInv ==
  ASSUME InboxInv, Operator \/ \E e \in Events : Wake(e) PROVE InboxInv'
<1>0. TypeOK /\ AckedIsCaptured /\ Captures /\ Hand /\ Effects /\ Desk
  BY DEF InboxInv, Effects
<1>1. ASSUME NEW e \in Events, Wake(e) PROVE InboxInv'
  <2>1. UNCHANGED <<outbox, rx, letters, work, did, door>>
    BY <1>1 DEF Wake
  <2>2. StatusStays
    BY <1>0, <1>1, WakeStatus
  <2>3. AckedIsCaptured' /\ Captures'
    BY <1>0, <2>1, <2>2, ReceptionFrame DEF StatusStays
  <2>4. Desk' /\ Hand' /\ Effects'
    BY <1>0, <2>1, <2>2, DeskFrame, HandFrame, EffectsFrame DEF StatusStays
  <2> QED BY <1>0, <1>1, <2>3, <2>4, WakeType DEF InboxInv, Effects
<1>2. CASE Operator
  <2>1. UNCHANGED <<outbox, rx, work, did>>
    BY <1>2 DEF Operator, Replay, Requeue, Unfile
  <2>2. StatusStays \/ \E x \in Events : OnlyMoves(x, "pending")
    BY <1>0, <1>2, RequeueStatus DEF Operator, Replay, Unfile, StatusStays
  <2>3. AckedIsCaptured' /\ Captures'
    BY <1>0, <2>1, <2>2, ReceptionFrame DEF StatusStays, OnlyMoves
  <2>4. Hand' /\ Effects'
    BY <1>0, <2>1, <2>2, HandFrame, EffectsFrame DEF StatusStays, OnlyMoves
  <2>5. TypeOK' /\ Desk'
    BY <1>0, <1>2, OperatorType, DeskStep DEF Desk
  <2> QED BY <2>3, <2>4, <2>5 DEF InboxInv, Effects
<1> QED BY <1>1, <1>2

LEMMA StutterInv ==
  ASSUME InboxInv, UNCHANGED vars PROVE InboxInv'
<1> USE DEF vars
<1>1. TypeOK'
  BY Types, TypesNext DEF InboxInv
<1>2. AckedIsCaptured' /\ Captures'
  BY ReceptionFrame DEF InboxInv
<1>3. Hand' /\ Landed' /\ DoneIsWhole' /\ Desk'
  BY HandFrame, EffectsFrame, DeskFrame DEF InboxInv, Effects
<1> QED BY <1>1, <1>2, <1>3 DEF InboxInv

LEMMA StepInv == InboxInv /\ [Next]_vars => InboxInv'
  BY ReceiverInv, WorkerInv, FaultInv, OutsideInv, StutterInv DEF Next

LEMMA AlwaysInv == Spec => []InboxInv
  BY InitInv, StepInv, PTL DEF Spec

(* Every variable keeps its type. *)
THEOREM InboxTypes == Spec => []TypeOK
<1>1. InboxInv => TypeOK
  BY DEF InboxInv
<1> QED BY <1>1, AlwaysInv, PTL

(* What PCO has been told it may forget is in the database, whatever       *)
(* crashes between the rows and the 204.                                   *)
THEOREM AcknowledgedIsCaptured == Spec => []AckedIsCaptured
<1>1. InboxInv => AckedIsCaptured
  BY DEF InboxInv
<1> QED BY <1>1, AlwaysInv, PTL

(* An event is marked done only after every stage of its handler, and a    *)
(* merge enters the merger log only after what it must carry out.          *)
THEOREM DoneMeansWhole == Spec => []DoneIsWhole
<1>1. InboxInv => DoneIsWhole
  BY DEF InboxInv
<1> QED BY <1>1, AlwaysInv, PTL

-----------------------------------------------------------------------------
(* The refinement: each step of the inbox is one of InboxPromise or leaves *)
(* what that speaks of unchanged.                                          *)

StandingNow == [e \in Events |-> Standing(inbox[e].status)]
WholeNow == {e \in Events : Whole(e)}

LEMMA PromiseSteps ==
  [Promise!Next]_(Promise!promised) <=>
    \/ \E d \in Deliveries : Promise!Acknowledge(d)
    \/ \E e \in Events : \/ Promise!Capture(e) \/ Promise!Land(e) \/ Promise!File(e)
                         \/ Promise!Unfile(e) \/ Promise!Reopen(e)
    \/ \E e \in Events : \E how \in {"done", "ignored", "dead"} : Promise!Finish(e, how)
    \/ UNCHANGED <<outbox, StandingNow, WholeNow, letters>>
  BY DEF Promise!Next, Promise!promised, StandingNow, WholeNow

LEMMA StandingIs ==
  /\ Standing("none") = "unknown" /\ Standing("pending") = "waiting"
  /\ \A status \in Statuses \ {"none", "pending"} : Standing(status) = status
  BY DEF Standing, Statuses

LEMMA StandingKept == ASSUME StatusStays PROVE UNCHANGED StandingNow
  BY DEF StandingNow, StatusStays

LEMMA StandingMoves ==
  ASSUME NEW x, NEW status, OnlyMoves(x, status)
  PROVE  StandingNow' = [StandingNow EXCEPT ![x] = Standing(status)]
  BY DEF StandingNow, OnlyMoves

LEMMA WholeKept == ASSUME UNCHANGED did PROVE UNCHANGED WholeNow
  BY DEF WholeNow, Whole

(* Steps that leave the standings, the effects and the letters alone. *)
LEMMA Stutters ==
  ASSUME UNCHANGED <<outbox, letters, did>>, StatusStays
  PROVE  [Promise!Next]_(Promise!promised)
  BY PromiseSteps, StandingKept, WholeKept

LEMMA CaptureMaps ==
  ASSUME InboxInv, NEW h \in Handlers, Capture(h)
  PROVE  [Promise!Next]_(Promise!promised)
<1>1. /\ rx[h] # IdleRx /\ rx[h].d \in Deliveries /\ rx[h].next \in Nat \ {0}
      /\ rx[h].next <= Len(Batch[rx[h].d]) /\ rx \in [Handlers -> Seats]
  BY Types DEF InboxInv, Capture, Capturing, Captures, Seats
<1>2. Len(Batch[rx[h].d]) \in Nat
  BY <1>1, InboxAssumption
<1>3. rx[h].next \in 1 .. Len(Batch[rx[h].d]) /\ Item(h) \in Events
  BY <1>1, <1>2, ItemIsEvent DEF Item
<1>4. UNCHANGED <<outbox, letters, did>>
  BY DEF Capture
<1>5. CASE inbox[Item(h)].status = "none"
  <2>1. OnlyMoves(Item(h), "pending")
    BY <1>5, CaptureStatus DEF OnlyMoves, InboxInv
  <2>2. StandingNow' = [StandingNow EXCEPT ![Item(h)] = "waiting"]
    BY <2>1, StandingMoves, StandingIs
  <2>3. StandingNow[Item(h)] = "unknown"
    BY <1>3, <1>5, StandingIs DEF StandingNow
  <2>4. rx[h].d \in outbox
    BY <1>1, <1>3, <1>5 DEF InboxInv, AckedIsCaptured, Item
  <2>5. Item(h) \in Promise!Of(rx[h].d)
    BY <1>3 DEF Promise!Of, Item
  <2>6. UNCHANGED WholeNow
    BY <1>4, WholeKept
  <2>7. Promise!Capture(Item(h))
    BY <1>4, <2>2, <2>3, <2>4, <2>5, <2>6 DEF Promise!Capture, StandingNow, WholeNow
  <2> QED BY <1>3, <2>7, PromiseSteps
<1>6. CASE inbox[Item(h)].status # "none"
  <2>1. StatusStays
    BY <1>6, CaptureStatus DEF StatusStays, InboxInv
  <2> QED BY <1>4, <2>1, Stutters
<1> QED BY <1>5, <1>6

LEMMA AcknowledgeMaps ==
  ASSUME InboxInv, NEW h \in Handlers, Acknowledge(h)
  PROVE  [Promise!Next]_(Promise!promised)
<1>1. UNCHANGED <<inbox, letters, did>>
  BY DEF Acknowledge
<1>2. StatusStays
  BY <1>1 DEF StatusStays
<1>3. CASE outbox' = outbox
  BY <1>1, <1>2, <1>3, Stutters
<1>4. CASE outbox' # outbox
  <2>1. outbox' = outbox \ {rx[h].d} /\ rx[h].d \in outbox
    BY <1>4 DEF Acknowledge
  <2>2. /\ rx[h].d \in Deliveries /\ rx[h].next \in Nat
        /\ rx[h].next > Len(Batch[rx[h].d]) /\ rx[h] # IdleRx
    BY Types DEF InboxInv, Acknowledge, Captured, Captures, Seats
  <2>3. Len(Batch[rx[h].d]) \in Nat
    BY <2>2, InboxAssumption
  <2>4. ASSUME NEW e \in Promise!Of(rx[h].d) PROVE StandingNow[e] # "unknown"
    <3>1. PICK i \in 1 .. Len(Batch[rx[h].d]) : e = Batch[rx[h].d][i]
      BY DEF Promise!Of
    <3>2. inbox[e].status # "none" /\ e \in Events
      BY <2>2, <2>3, <3>1, ItemIsEvent DEF InboxInv, Captures
    <3>3. inbox[e].status \in Statuses
      BY <3>2, Types DEF InboxInv, Rows
    <3> QED BY <3>2, <3>3, StandingIs DEF StandingNow, Statuses
  <2>5. UNCHANGED StandingNow /\ UNCHANGED WholeNow
    BY <1>1, <1>2, StandingKept, WholeKept
  <2>6. Promise!Acknowledge(rx[h].d)
    BY <1>1, <2>1, <2>4, <2>5 DEF Promise!Acknowledge, StandingNow, WholeNow
  <2> QED BY <2>2, <2>6, PromiseSteps
<1> QED BY <1>3, <1>4

LEMMA StageMaps ==
  ASSUME InboxInv, Stage PROVE [Promise!Next]_(Promise!promised)
<1>1. /\ work.ev \in Events /\ inbox[work.ev].status = "pending"
      /\ did'[work.ev] = did[work.ev] \cup {work.at}
      /\ \A e \in Events \ {work.ev} : did'[e] = did[e]
  BY StageGrows DEF InboxInv, Hand, InHand, Stage, Stages
<1>2. UNCHANGED <<outbox, inbox, letters>>
  BY DEF Stage
<1>3. WholeNow' = WholeNow \/ WholeNow' = WholeNow \cup {work.ev}
  BY <1>1 DEF WholeNow, Whole
<1>4. UNCHANGED StandingNow
  BY <1>2 DEF StandingNow
<1>5. CASE WholeNow' = WholeNow
  BY <1>2, <1>4, <1>5, PromiseSteps
<1>6. CASE WholeNow' = WholeNow \cup {work.ev}
  <2>1. StandingNow[work.ev] = "waiting"
    BY <1>1, StandingIs DEF StandingNow
  <2>2. Promise!Land(work.ev)
    BY <1>2, <1>4, <1>6, <2>1 DEF Promise!Land, StandingNow, WholeNow
  <2> QED BY <1>1, <2>2, PromiseSteps
<1> QED BY <1>3, <1>5, <1>6

LEMMA FinishMaps ==
  ASSUME InboxInv, Settle \/ Bury PROVE [Promise!Next]_(Promise!promised)
<1> DEFINE how == CASE work.at = "mark" -> "done" [] work.at = "ignore" -> "ignored"
                    [] work.at = "bury" -> "dead"
<1>1. how \in {"done", "ignored", "dead"} /\ OnlyMoves(work.ev, how)
  BY SettleStatus, BuryStatus DEF InboxInv, Settle, Bury
<1>2. /\ how = "done" => Whole(work.ev)
      /\ how = "ignored" => work.ev \in Unmirrored
  BY DEF InboxInv, Landed, LandedBefore, Settle, Bury
<1> HIDE DEF how
<1>3. work.ev \in Events /\ inbox[work.ev].status = "pending"
  BY DEF InboxInv, Hand, InHand, Settle, Bury
<1>4. UNCHANGED <<outbox, letters, did>>
  BY DEF Settle, Bury
<1>5. StandingNow' = [StandingNow EXCEPT ![work.ev] = how]
  BY <1>1, StandingMoves, StandingIs DEF Statuses
<1>6. StandingNow[work.ev] = "waiting" /\ UNCHANGED WholeNow
  BY <1>3, <1>4, StandingIs, WholeKept DEF StandingNow
<1>7. Promise!Finish(work.ev, how)
  BY <1>2, <1>3, <1>4, <1>5, <1>6 DEF Promise!Finish, StandingNow, WholeNow
<1> QED BY <1>1, <1>3, <1>7, PromiseSteps

LEMMA LetterMaps ==
  ASSUME InboxInv, Letter PROVE [Promise!Next]_(Promise!promised)
<1>1. work.ev \in Events /\ inbox[work.ev].status = "pending"
  BY DEF InboxInv, Hand, InHand, Letter
<1>2. UNCHANGED <<outbox, inbox, did>> /\ letters' = letters \cup {work.ev}
  BY DEF Letter
<1>3. UNCHANGED StandingNow /\ UNCHANGED WholeNow
  BY <1>2, WholeKept DEF StandingNow
<1>4. StandingNow[work.ev] = "waiting"
  BY <1>1, StandingIs DEF StandingNow
<1>5. Promise!File(work.ev)
  BY <1>2, <1>3, <1>4 DEF Promise!File, StandingNow, WholeNow
<1> QED BY <1>1, <1>5, PromiseSteps

LEMMA OperatorMaps ==
  ASSUME InboxInv, Operator PROVE [Promise!Next]_(Promise!promised)
<1>1. CASE Replay
  <2>1. UNCHANGED <<outbox, inbox, letters, did>>
    BY <1>1 DEF Replay
  <2> QED BY <2>1, Stutters DEF StatusStays
<1>2. ASSUME NEW e \in Events, Requeue(e) PROVE [Promise!Next]_(Promise!promised)
  <2>1. UNCHANGED <<outbox, letters, did>> /\ e \in letters
    BY <1>2 DEF Requeue, InboxInv, Desk
  <2>2. StandingNow' = [StandingNow EXCEPT ![e] = "waiting"] /\ UNCHANGED WholeNow
    BY <1>2, <2>1, RequeueStatus, StandingMoves, StandingIs, WholeKept DEF InboxInv
  <2>3. Promise!Reopen(e)
    BY <2>1, <2>2 DEF Promise!Reopen, StandingNow, WholeNow
  <2> QED BY <2>3, PromiseSteps
<1>3. CASE Unfile
  <2>1. /\ UNCHANGED <<outbox, inbox, did>> /\ letters' = letters \ {door.ev}
        /\ door.ev \in Events
    BY <1>3 DEF Unfile, InboxInv, Desk
  <2>2. UNCHANGED StandingNow /\ UNCHANGED WholeNow
    BY <2>1, WholeKept DEF StandingNow
  <2>3. Promise!Unfile(door.ev)
    BY <2>1, <2>2 DEF Promise!Unfile, StandingNow, WholeNow
  <2> QED BY <2>1, <2>3, PromiseSteps
<1> QED BY <1>1, <1>2, <1>3 DEF Operator

LEMMA QuietMaps ==
  ASSUME InboxInv,
         \/ \E h \in Handlers : Refuse(h) \/ \E d \in Deliveries : Arrive(h, d)
         \/ Drain \/ \E s \in work.todo : Take(s)
         \/ Fail \/ Abandon \/ Crash \/ \E e \in Events : Wake(e)
         \/ UNCHANGED vars
  PROVE  [Promise!Next]_(Promise!promised)
<1>1. UNCHANGED <<outbox, letters, did>>
  BY DEF Refuse, Arrive, Drain, Take, Fail, Abandon, Crash, Wake, vars
<1>2. StatusStays
  <2>1. CASE inbox' = inbox
    BY <2>1 DEF StatusStays
  <2>2. CASE Fail \/ \E e \in Events : Wake(e)
    BY <2>2, FailStatus, WakeStatus DEF InboxInv
  <2> QED BY <2>1, <2>2 DEF Refuse, Arrive, Drain, Take, Abandon, Crash, vars
<1> QED BY <1>1, <1>2, Stutters

LEMMA InitMaps == Init => Promise!Init
<1> SUFFICES ASSUME Init PROVE Promise!Init
  OBVIOUS
<1>1. outbox = Deliveries /\ letters = {}
  BY DEF Init
<1>2. \A e \in Events : Standing(inbox[e].status) = "unknown" /\ ~ Whole(e)
  BY StandingIs DEF Init, Whole
<1> QED BY <1>1, <1>2 DEF Promise!Init

LEMMA StepMaps ==
  InboxInv /\ [Next]_vars => [Promise!Next]_(Promise!promised)
  BY CaptureMaps, AcknowledgeMaps, StageMaps, FinishMaps, LetterMaps, OperatorMaps,
     QuietMaps DEF Next, Receiver, Worker

(* The inbox, crashes, retries, replays and lost answers included,         *)
(* implements what InboxPromise says of it.                                *)
THEOREM InboxKeepsItsPromise == Spec => Promised
  BY InitMaps, StepMaps, AlwaysInv, PTL DEF Spec, Promised, Promise!Spec
=============================================================================
