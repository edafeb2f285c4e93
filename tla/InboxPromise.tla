---------------------------- MODULE InboxPromise ----------------------------
(***************************************************************************)
(* What the webhook inbox promises, with nothing of how: PCO repeats a     *)
(* delivery until every event of it has been taken in; an event waits,     *)
(* its effects land, and it is over: done once they have all landed,       *)
(* ignored if the mirror has no table for it, or dead; and what is over    *)
(* is opened again only from a dead letter.                                *)
(* WebhookInbox implements this.                                           *)
(***************************************************************************)
EXTENDS Naturals, Sequences

CONSTANTS Events, Unmirrored, Deliveries, Batch

VARIABLES
  owed,      \* deliveries PCO has had no acknowledgement for
  standing,  \* what has become of each event
  whole,     \* events whose every effect has landed
  letters    \* events that have a dead letter

promised == <<owed, standing, whole, letters>>

Of(d) == {Batch[d][i] : i \in 1 .. Len(Batch[d])}

Init ==
  /\ owed = Deliveries
  /\ standing = [e \in Events |-> "unknown"]
  /\ whole = {} /\ letters = {}

Capture(e) ==
  /\ standing[e] = "unknown" /\ \E d \in owed : e \in Of(d)
  /\ standing' = [standing EXCEPT ![e] = "waiting"]
  /\ UNCHANGED <<owed, whole, letters>>

Acknowledge(d) ==
  /\ d \in owed /\ \A e \in Of(d) : standing[e] # "unknown"
  /\ owed' = owed \ {d}
  /\ UNCHANGED <<standing, whole, letters>>

Land(e) ==
  /\ standing[e] = "waiting"
  /\ whole' = whole \cup {e}
  /\ UNCHANGED <<owed, standing, letters>>

Finish(e, how) ==
  /\ standing[e] = "waiting"
  /\ how = "done" => e \in whole
  /\ how = "ignored" => e \in Unmirrored
  /\ standing' = [standing EXCEPT ![e] = how]
  /\ UNCHANGED <<owed, whole, letters>>

File(e) ==
  /\ standing[e] = "waiting"
  /\ letters' = letters \cup {e}
  /\ UNCHANGED <<owed, standing, whole>>

Unfile(e) ==
  /\ letters' = letters \ {e}
  /\ UNCHANGED <<owed, standing, whole>>

Reopen(e) ==
  /\ e \in letters
  /\ standing' = [standing EXCEPT ![e] = "waiting"]
  /\ UNCHANGED <<owed, whole, letters>>

Next ==
  \/ \E d \in Deliveries : Acknowledge(d)
  \/ \E e \in Events :
       \/ Capture(e) \/ Land(e) \/ File(e) \/ Unfile(e) \/ Reopen(e)
       \/ \E how \in {"done", "ignored", "dead"} : Finish(e, how)

Spec == Init /\ [][Next]_promised
=============================================================================
