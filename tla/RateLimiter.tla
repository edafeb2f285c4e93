---------------------------- MODULE RateLimiter ----------------------------
(***************************************************************************)
(* The token bucket every PCO caller of the process shares                 *)
(* (pcomirror/ratelimit.py), with the threads that wait on it.  Time is    *)
(* counted in ticks, tokens in Units (fractions of a token), so that rates *)
(* are whole numbers.  The bucket is refilled lazily, as the code does it: *)
(* the time since the last refill is credited at the rate of the moment    *)
(* somebody looks.                                                         *)
(*                                                                         *)
(* An operator named Mut... is a deliberately wrong variant of the one it  *)
(* precedes; nothing uses it but the checks that a property notices.       *)
(***************************************************************************)
EXTENDS Naturals, FiniteSetsExt

CONSTANTS
  Callers,      \* threads that send requests
  Background,   \* of these, the ones whose priority is deferrable
  Impatient,    \* the ones that pass max_wait
  Unit,         \* units to a token
  SeedRate,     \* configured target, units per tick
  Period,       \* PCO's window, in ticks
  Limits,       \* request limits per window PCO's headers may announce
  RetryAfters,  \* what a 429 may ask for, in ticks; none: PCO never refuses
  LongIdle      \* ticks after which any bucket is full: bound on `since'

VARIABLES
  tokens,   \* units in the bucket
  since,    \* ticks since the last refill
  cap,      \* capacity, in units
  rate,     \* units per tick
  pause,    \* ticks until _pause_until
  call,     \* what each thread is doing
  sends,    \* requests sent in this tick and in the last Period ones, newest first
  hush,     \* history: ticks left of the longest Retry-After PCO asked for
  cut       \* history: an answer that came since asks for less

vars == <<tokens, since, cap, rate, pause, call, sends, hush, cut>>

Larger(a, b) == IF a > b THEN a ELSE b
Smaller(a, b) == IF a < b THEN a ELSE b

MutCapacityOf(limit) == Unit + (limit * Unit) \div Period

(* limit/period tokens, never less than one; 0.80 of limit/period a tick.  *)
CapacityOf(limit) == Larger(Unit, (limit * Unit) \div Period)
RateOf(limit) == (limit * Unit * 4) \div (Period * 5)
SeedCapacity == Larger(Unit, SeedRate)

Capacities == {SeedCapacity} \cup {CapacityOf(l) : l \in Limits}
Rates == {SeedRate} \cup {RateOf(l) : l \in Limits}

ASSUME LimiterAssumption ==
  /\ Background \subseteq Callers /\ Impatient \subseteq Callers
  /\ {Unit, SeedRate, Period} \subseteq Nat \ {0} /\ LongIdle \in Nat
  /\ Limits \subseteq Nat \ {0} /\ RetryAfters \subseteq Nat \ {0}
  /\ \A r \in Rates, k \in Capacities : r * LongIdle >= k

Idle == [at |-> "idle", floor |-> 0]

(* Whatever falls into a window of PCO's lies in as many ticks and one. *)
Window == 0 .. Period

Pauses == {0} \cup UNION {0 .. p : p \in RetryAfters \cup {Period}}

TypeOK ==
  /\ cap \in Capacities /\ rate \in Rates
  /\ tokens \in 0 .. Max(Capacities)
  /\ since \in 0 .. LongIdle
  /\ pause \in Pauses /\ hush \in Pauses /\ cut \in BOOLEAN
  /\ call \in [Callers -> [at : {"idle", "waiting", "sent"}, floor : Nat]]
  /\ sends \in [Window -> Nat]
  /\ \A c \in Callers \ Background : call[c].floor = 0

Init ==
  /\ tokens = SeedCapacity /\ cap = SeedCapacity /\ rate = SeedRate
  /\ since = 0 /\ pause = 0 /\ hush = 0 /\ cut = FALSE
  /\ call = [c \in Callers |-> Idle]
  /\ sends = [i \in Window |-> 0]

-----------------------------------------------------------------------------
MutReserve(c) == IF c \in Background THEN cap ELSE 0

(* acquire computes the reserve once, before it takes the lock. *)
Reserve(c) == IF c \in Background THEN cap \div 2 ELSE 0

Ask(c) ==
  /\ call[c].at = "idle"
  /\ call' = [call EXCEPT ![c] = [at |-> "waiting", floor |-> Reserve(c)]]
  /\ UNCHANGED <<tokens, since, cap, rate, pause, sends, hush, cut>>

Refilled == Smaller(cap, tokens + since * rate)

MayTake(c) == Refilled >= Unit + call[c].floor /\ pause = 0

(* One turn of acquire's loop under the lock: the token is taken and the   *)
(* request goes out, or the bucket is only refilled.                       *)
Acquire(c) ==
  /\ call[c].at = "waiting" /\ MayTake(c)
  /\ tokens' = Refilled - Unit
  /\ since' = 0
  /\ call' = [call EXCEPT ![c].at = "sent"]
  /\ sends' = [sends EXCEPT ![0] = @ + 1]
  /\ UNCHANGED <<cap, rate, pause, hush, cut>>

Poll(c) ==
  /\ call[c].at = "waiting" /\ ~ MayTake(c) /\ since > 0
  /\ tokens' = Refilled
  /\ since' = 0
  /\ UNCHANGED <<cap, rate, pause, call, sends, hush, cut>>

(* RateLimitBusy *)
GiveUp(c) ==
  /\ call[c].at = "waiting" /\ c \in Impatient /\ ~ MayTake(c)
  /\ call' = [call EXCEPT ![c] = Idle]
  /\ UNCHANGED <<tokens, since, cap, rate, pause, sends, hush, cut>>

(* on_response: the next refill uses the new rate.  PCO counts the whole   *)
(* organization's requests, so `near' is not ours to compute.              *)
Retargeted(limit, near) ==
  /\ rate' = RateOf(limit)
  /\ cap' = CapacityOf(limit)
  /\ pause' = IF near THEN Period ELSE pause

Respond(c, limit, near) ==
  /\ call[c].at = "sent"
  /\ Retargeted(limit, near)
  /\ cut' = (cut \/ (near /\ Period < hush))
  /\ call' = [call EXCEPT ![c] = Idle]
  /\ UNCHANGED <<tokens, since, sends, hush>>

MutRefusedFor(after) == Smaller(pause, after)

(* The pause a 429 leaves behind replaces the one that stood. *)
RefusedFor(after) == after

(* What a 429 asks for: a whole period, when PCO names no time. *)
SpanOf(after) == IF after = 0 THEN Period ELSE after

(* A 429 goes through on_response and then on_429; a new acquire follows. *)
Refuse(c, limit, after) ==
  /\ call[c].at = "sent"
  /\ rate' = RateOf(limit) /\ cap' = CapacityOf(limit)
  /\ tokens' = 0
  /\ pause' = RefusedFor(SpanOf(after))
  /\ hush' = Larger(hush, after)
  /\ cut' = (cut \/ SpanOf(after) < hush)
  /\ call' = [call EXCEPT ![c] = Idle]
  /\ UNCHANGED <<since, sends>>

(* No answer, or one without the rate headers. *)
Lose(c) ==
  /\ call[c].at = "sent"
  /\ call' = [call EXCEPT ![c] = Idle]
  /\ UNCHANGED <<tokens, since, cap, rate, pause, sends, hush, cut>>

Tick ==
  /\ since' = Smaller(LongIdle, since + 1)
  /\ pause' = IF pause = 0 THEN 0 ELSE pause - 1
  /\ hush' = IF hush = 0 THEN 0 ELSE hush - 1
  /\ cut' = (cut /\ hush > 1)
  /\ sends' = [i \in Window |-> IF i = 0 THEN 0 ELSE sends[i - 1]]
  /\ UNCHANGED <<tokens, cap, rate, call>>

-----------------------------------------------------------------------------
(* What was sent in the ticks 0 .. i. *)
Totals(s) == LET sum[i \in Window] == IF i = 0 THEN s[0] ELSE sum[i - 1] + s[i] IN sum

Sent == Totals(sends)[Period]

(* The requests of any PCO window stay within the limit PCO announces, the *)
(* burst a full bucket allows included (while that limit stands).          *)
WindowBudget == \A limit \in Limits : Sent <= limit

(* Whichever threads wait, and whichever of them was refused, no request   *)
(* goes out before the Retry-After of every 429 has passed (DESIGN 5.2:    *)
(* honor Retry-After verbatim), unless the answer to another request that  *)
(* was out asked for less since: a shorter 429, or a count near the limit. *)
(* The last answer's pause replaces the one that stood (on_429,            *)
(* on_response).                                                           *)
RetryAfterHonoured ==
  [][\A c \in Callers :
       call[c].at = "waiting" /\ call'[c].at = "sent" => hush = 0 \/ cut]_vars
=============================================================================
