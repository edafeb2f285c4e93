----------------------------- MODULE PcoClient -----------------------------
(***************************************************************************)
(* PcoClient.request (pcomirror/pcoclient.py): the one way to PCO, over    *)
(* the shared limiter.  A thread keeps one request until it has an answer  *)
(* or an error: it sends it, and sends it again as the answer and the      *)
(* method allow.  What PCO did with a request whose answer was lost or     *)
(* came from a proxy in front of it is nobody's to know: it is a choice.   *)
(***************************************************************************)
EXTENDS RateLimiter

CONSTANTS
  Writers,       \* the threads that also send POST, PATCH and DELETE
  MaxAttempts    \* 6 in the code

ASSUME ClientAssumption ==
  Writers \subseteq Callers \ Background /\ MaxAttempts \in Nat \ {0}

VARIABLE req     \* what each thread has asked for and been told

clientVars == <<vars, req>>

NoRequest == [method |-> "none", attempt |-> 0, applied |-> 0, told |-> "none"]

Request == [method : {"none", "GET", "WRITE"}, attempt : 0 .. MaxAttempts,
            applied : Nat,
            told : {"none", "answer", "refused", "unknown", "busy"}]

ClientTypeOK ==
  /\ TypeOK
  /\ req \in [Callers -> Request]
  /\ \A c \in Callers : req[c].told # "none" => call[c] = Idle

Open(c) == req[c].method # "none" /\ req[c].told = "none"

(* A new request takes the place of the one that is over. *)
Start(c, method) ==
  /\ ~ Open(c)
  /\ method = "WRITE" => c \in Writers
  /\ req' = [req EXCEPT ![c] = [NoRequest EXCEPT !.method = method]]
  /\ Ask(c)

(* A later round of the loop, its sleep over. *)
Again(c) == Open(c) /\ Ask(c) /\ UNCHANGED req

Send(c) == Acquire(c) /\ UNCHANGED req

Wait(c) == Poll(c) /\ UNCHANGED req

(* The same request after one more exchange that applied it n times. *)
After(c, attempts, n, what) ==
  [method |-> req[c].method, attempt |-> req[c].attempt + attempts,
   applied |-> req[c].applied + n, told |-> what]

(* What the caller of a write is told.  Of a read only its end matters.    *)
Told(c, what, n) ==
  req' = [req EXCEPT ![c] = IF req[c].method = "GET" THEN NoRequest
                            ELSE After(c, 0, n, what)]

(* RateLimitBusy leaves request at whatever attempt it is raised. *)
Busy(c) == GiveUp(c) /\ Told(c, "busy", 0)

LastAttempt(c) == req[c].attempt + 1 = MaxAttempts

MutMayRepeat(c) == ~ LastAttempt(c)

(* Only a GET is sent again on an error that leaves its fate unknown. *)
MayRepeat(c) == req[c].method = "GET" /\ ~ LastAttempt(c)

(* What PCO made of a request it was sent: the number of times it applied. *)
Fates(c) == IF req[c].method = "WRITE" THEN {0, 1} ELSE {0}

Unknown(c, n) ==
  IF MayRepeat(c)
  THEN req' = [req EXCEPT ![c] = After(c, 1, n, "none")]
  ELSE Told(c, "unknown", n)

(* 2xx, or a 4xx other than 429: returned at once. *)
Accept(c) ==
  \E limit \in Limits, near \in BOOLEAN :
    Respond(c, limit, near) /\ Told(c, "answer", IF req[c].method = "WRITE" THEN 1 ELSE 0)

Decline(c) ==
  \E limit \in Limits, near \in BOOLEAN :
    Respond(c, limit, near) /\ Told(c, "refused", 0)

(* 500, 502, 503, 504, with PCO's rate headers or without. *)
ServerError(c) ==
  \E n \in Fates(c) :
    /\ Unknown(c, n)
    /\ \/ \E limit \in Limits, near \in BOOLEAN : Respond(c, limit, near)
       \/ Lose(c)

(* A dropped socket, a timeout. *)
Drop(c) == \E n \in Fates(c) : Unknown(c, n) /\ Lose(c)

(* 429: refused before anything could apply it, so writes go again too. *)
Throttle(c) ==
  \E limit \in Limits, after \in RetryAfters \cup {0} :
    /\ Refuse(c, limit, after)
    /\ IF LastAttempt(c) THEN Told(c, "refused", 0)
       ELSE req' = [req EXCEPT ![c] = After(c, 1, 0, "none")]

ClientInit == Init /\ req = [c \in Callers |-> NoRequest]

Outcome(c) == Accept(c) \/ Decline(c) \/ ServerError(c) \/ Drop(c) \/ Throttle(c)

ClientNext ==
  \/ Tick /\ UNCHANGED req
  \/ \E c \in Callers :
       \/ \E method \in {"GET", "WRITE"} : Start(c, method)
       \/ Again(c) \/ Send(c) \/ Wait(c) \/ Busy(c) \/ Outcome(c)

ClientSpec == ClientInit /\ [][ClientNext]_clientVars

(* Time passes; a thread wakes from its sleep, takes a token it may take   *)
(* when it polls, and the transport's timeout ends every exchange.         *)
FairClientSpec ==
  /\ ClientSpec
  /\ WF_clientVars(Tick /\ UNCHANGED req)
  /\ \A c \in Callers :
       WF_clientVars(Again(c)) /\ WF_clientVars(Send(c)) /\ WF_clientVars(Outcome(c))

-----------------------------------------------------------------------------
(* One request is applied by PCO at most once, whatever is retried, and    *)
(* who is told that PCO refused it may rely on that: PCO did not apply it. *)
WriteOnce ==
  \A c \in Callers : /\ req[c].applied <= 1
                     /\ req[c].told \in {"refused", "busy"} => req[c].applied = 0

(* Deferrable work waits only on the foreground and on PCO's own pauses:   *)
(* once the foreground is quiet for good, every request of a background    *)
(* thread comes to an end.                                                 *)
BackgroundRuns ==
  <>[](\A f \in Callers \ Background : ~ Open(f))
  => \A b \in Background : Open(b) ~> ~ Open(b)
=============================================================================
