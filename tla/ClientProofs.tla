---------------------------- MODULE ClientProofs ----------------------------
(***************************************************************************)
(* What the client and its limiter keep to for every set of threads, every *)
(* limit, period and number of attempts: a write goes out again only when  *)
(* it was refused; what goes out in a window of PCO's stays within its     *)
(* limit; nothing goes out before a Retry-After has passed.                *)
(***************************************************************************)
EXTENDS PcoClient, WellFoundedInduction, TLAPS

Tellings == {"none", "answer", "refused", "unknown", "busy"}
Asked == [method : {"none", "GET", "WRITE"}, attempt : Nat, applied : Nat, told : Tellings]

(* A read is never applied, and is forgotten when it ends; a write that is *)
(* still open has not been applied; what is over was applied at most once, *)
(* and not at all if its caller was told so.                               *)
Sound(r) ==
  /\ r.method = "GET" => r.applied = 0 /\ r.told = "none"
  /\ r.told = "none" => r.applied = 0
  /\ r.told \in {"refused", "busy"} => r.applied = 0
  /\ r.applied <= 1

(* Whoever waits for a token or an answer has a request open: no answer    *)
(* can be counted for a request that is over.                              *)
Engaged == \A c \in Callers : call[c].at # "idle" => Open(c)

Calls ==
  /\ DOMAIN call = Callers
  /\ \A c \in Callers : DOMAIN call[c] = {"at", "floor"}

ClientInv ==
  /\ Calls /\ Engaged
  /\ req \in [Callers -> Asked]
  /\ \A c \in Callers : Sound(req[c])

LEMMA InitClient == ClientInit => ClientInv
<1> SUFFICES ASSUME ClientInit PROVE ClientInv
  OBVIOUS
<1>1. NoRequest \in Asked /\ Sound(NoRequest)
  BY DEF NoRequest, Asked, Tellings, Sound
<1>2. \A c \in Callers : call[c].at = "idle"
  BY DEF ClientInit, Init, Idle
<1>3. Calls
  BY DEF ClientInit, Init, Idle, Calls
<1> QED BY <1>1, <1>2, <1>3 DEF ClientInit, ClientInv, Engaged

(* A step of one thread: its request is sound again, and if it still waits *)
(* or has something under way its request is open.                         *)
LEMMA OneThread ==
  ASSUME ClientInv, NEW c \in Callers, NEW r \in Asked, Sound(r), Calls',
         req' = [req EXCEPT ![c] = r],
         \A x \in Callers \ {c} : call'[x] = call[x],
         call'[c].at # "idle" => r.method # "none" /\ r.told = "none"
  PROVE  ClientInv'
<1>1. req' \in [Callers -> Asked] /\ \A x \in Callers : Sound(req'[x])
  BY DEF ClientInv
<1>2. Engaged'
  BY DEF ClientInv, Engaged, Open
<1> QED BY <1>1, <1>2 DEF ClientInv

LEMMA StartClient ==
  ASSUME ClientInv, NEW c \in Callers, NEW method \in {"GET", "WRITE"}, Start(c, method)
  PROVE  ClientInv'
<1> DEFINE r == [NoRequest EXCEPT !.method = method]
<1>1. r \in Asked /\ Sound(r) /\ r.method # "none" /\ r.told = "none"
  BY DEF NoRequest, Asked, Tellings, Sound
<1>2. req' = [req EXCEPT ![c] = r]
  BY DEF Start
<1>3. call' = [call EXCEPT ![c] = [at |-> "waiting", floor |-> Reserve(c)]]
  BY DEF Start, Ask
<1>4. Calls' /\ \A x \in Callers \ {c} : call'[x] = call[x]
  BY <1>3 DEF ClientInv, Calls
<1> HIDE DEF r
<1> QED BY <1>1, <1>2, <1>4, OneThread

(* Steps that leave the requests alone. *)
LEMMA QuietClient ==
  ASSUME ClientInv, UNCHANGED req,
         \/ UNCHANGED call
         \/ \E c \in Callers : Again(c) \/ Send(c)
  PROVE  ClientInv'
<1> USE DEF ClientInv
<1>1. CASE UNCHANGED call
  BY <1>1 DEF Calls, Engaged, Open
<1>2. ASSUME NEW c \in Callers, Again(c) \/ Send(c) PROVE ClientInv'
  <2>1. Open(c)
    BY <1>2 DEF Again, Send, Acquire, Engaged
  <2>2. Calls' /\ \A x \in Callers \ {c} : call'[x] = call[x]
    BY <1>2 DEF Again, Ask, Send, Acquire, Calls
  <2>3. Engaged'
    BY <2>1, <2>2 DEF Engaged, Open
  <2> QED BY <2>2, <2>3
<1> QED BY <1>1, <1>2

(* A request that ends: a read is forgotten, of a write it is kept how     *)
(* often it was applied.                                                   *)
LEMMA ToldClient ==
  ASSUME ClientInv, NEW c \in Callers, Open(c), NEW what \in Tellings \ {"none"},
         NEW n \in {0, 1}, what \in {"refused", "busy"} => n = 0,
         Told(c, what, n), call' = [call EXCEPT ![c] = Idle]
  PROVE  ClientInv'
<1>1. req[c] \in Asked /\ Sound(req[c]) /\ req[c].told = "none"
  BY DEF ClientInv, Open
<1>2. Calls' /\ (\A x \in Callers \ {c} : call'[x] = call[x]) /\ call'[c].at = "idle"
  BY DEF ClientInv, Calls, Idle
<1>3. CASE req[c].method = "GET"
  <2>1. NoRequest \in Asked /\ Sound(NoRequest)
    BY DEF NoRequest, Asked, Tellings, Sound
  <2>2. req' = [req EXCEPT ![c] = NoRequest]
    BY <1>3 DEF Told
  <2> QED BY <1>2, <2>1, <2>2, OneThread
<1>4. CASE req[c].method # "GET"
  <2> DEFINE r == After(c, 0, n, what)
  <2>1. r \in Asked
    BY <1>1 DEF Asked, After
  <2>2. Sound(r)
    BY <1>1, <1>4 DEF Sound, After, Asked
  <2>3. req' = [req EXCEPT ![c] = r]
    BY <1>4 DEF Told
  <2> HIDE DEF r
  <2> QED BY <1>2, <2>1, <2>2, <2>3, OneThread
<1> QED BY <1>3, <1>4

(* A request that goes another round. *)
LEMMA RepeatClient ==
  ASSUME ClientInv, NEW c \in Callers, Open(c), call' = [call EXCEPT ![c] = Idle],
         req' = [req EXCEPT ![c] = After(c, 1, 0, "none")]
  PROVE  ClientInv'
<1> DEFINE r == After(c, 1, 0, "none")
<1>1. req[c] \in Asked /\ Sound(req[c]) /\ req[c].told = "none"
  BY DEF ClientInv, Open
<1>2. r \in Asked
  BY <1>1 DEF Asked, After
<1>3. Sound(r)
  BY <1>1 DEF Sound, After, Asked
<1>4. Calls' /\ (\A x \in Callers \ {c} : call'[x] = call[x]) /\ call'[c].at = "idle"
  BY DEF ClientInv, Calls, Idle
<1>5. req' = [req EXCEPT ![c] = r]
  OBVIOUS
<1> HIDE DEF r
<1> QED BY <1>2, <1>3, <1>4, <1>5, OneThread

(* The answers that leave it unknown what became of the request: a read    *)
(* goes again, a write ends.                                               *)
LEMMA UnknownClient ==
  ASSUME ClientInv, NEW c \in Callers, Open(c), NEW n \in Fates(c), Unknown(c, n),
         call' = [call EXCEPT ![c] = Idle]
  PROVE  ClientInv'
<1>1. CASE MayRepeat(c)
  <2>1. n = 0
    BY <1>1 DEF MayRepeat, Fates
  <2>2. req' = [req EXCEPT ![c] = After(c, 1, 0, "none")]
    BY <1>1, <2>1 DEF Unknown
  <2> QED BY <2>2, RepeatClient
<1>2. CASE ~ MayRepeat(c)
  <2>1. Told(c, "unknown", n) /\ n \in {0, 1}
    BY <1>2 DEF Unknown, Fates
  <2> QED BY <2>1, ToldClient DEF Tellings
<1> QED BY <1>1, <1>2

LEMMA OutcomeClient ==
  ASSUME ClientInv, NEW c \in Callers, Outcome(c) \/ Busy(c) PROVE ClientInv'
<1>1. Open(c) /\ call' = [call EXCEPT ![c] = Idle]
  <2>1. call[c].at # "idle" /\ call' = [call EXCEPT ![c] = Idle]
    BY DEF Outcome, Accept, Decline, ServerError, Drop, Throttle, Busy, Respond, Lose,
           Refuse, GiveUp
  <2> QED BY <2>1 DEF ClientInv, Engaged
<1>2. CASE Accept(c)
  <2>1. PICK n \in {0, 1} : Told(c, "answer", n)
    BY <1>2 DEF Accept
  <2> QED BY <1>1, <2>1, ToldClient DEF Tellings
<1>3. CASE Decline(c)
  BY <1>1, <1>3, ToldClient DEF Decline, Tellings
<1>4. CASE ServerError(c) \/ Drop(c)
  BY <1>1, <1>4, UnknownClient DEF ServerError, Drop
<1>5. CASE Throttle(c)
  <2>1. Told(c, "refused", 0) \/ req' = [req EXCEPT ![c] = After(c, 1, 0, "none")]
    BY <1>5 DEF Throttle
  <2> QED BY <1>1, <2>1, ToldClient, RepeatClient DEF Tellings
<1>6. CASE Busy(c)
  BY <1>1, <1>6, ToldClient DEF Busy, Tellings
<1> QED BY <1>2, <1>3, <1>4, <1>5, <1>6 DEF Outcome

LEMMA StepClient == ClientInv /\ [ClientNext]_clientVars => ClientInv'
<1> SUFFICES ASSUME ClientInv, [ClientNext]_clientVars PROVE ClientInv'
  OBVIOUS
<1>1. CASE (Tick /\ UNCHANGED req) \/ UNCHANGED clientVars
  BY <1>1, QuietClient DEF Tick, clientVars, vars
<1>2. ASSUME NEW c \in Callers, \E method \in {"GET", "WRITE"} : Start(c, method)
      PROVE  ClientInv'
  BY <1>2, StartClient
<1>3. ASSUME NEW c \in Callers, Again(c) \/ Send(c) \/ Wait(c) PROVE ClientInv'
  BY <1>3, QuietClient DEF Again, Send, Wait, Poll
<1>4. ASSUME NEW c \in Callers, Busy(c) \/ Outcome(c) PROVE ClientInv'
  BY <1>4, OutcomeClient
<1> QED BY <1>1, <1>2, <1>3, <1>4 DEF ClientNext

(* Whatever is lost, refused or answered by a proxy, PCO applies a write   *)
(* at most once, and never one whose caller was told it did not.           *)
THEOREM WritesOnce == ClientSpec => []WriteOnce
<1>1. ClientInv => WriteOnce
  BY DEF ClientInv, Sound, WriteOnce
<1> QED BY <1>1, InitClient, StepClient, PTL DEF ClientSpec

-----------------------------------------------------------------------------
(* Induction over the numbers, for a set of them. *)
LEMMA Induction ==
  ASSUME NEW S, 0 \in S, \A n \in Nat : n \in S => n + 1 \in S
  PROVE  Nat \subseteq S
<1> SUFFICES ASSUME Nat \ S # {} PROVE FALSE
  OBVIOUS
<1>1. PICK R : R = {ss \in Nat \X Nat : ss[1] < ss[2]} /\ IsWellFoundedOn(R, Nat)
  BY NatLessThanWellFounded DEF OpToRel
<1>2. PICK x \in Nat \ S : \A y \in Nat \ S : ~ (<<y, x>> \in R)
  BY <1>1, WFMin
<1>3. x # 0 /\ x - 1 \in Nat /\ x - 1 < x
  OBVIOUS
<1>4. x - 1 \in S
  <2>1. <<x - 1, x>> \in Nat \X Nat
    BY <1>3
  <2> QED BY <1>1, <1>2, <1>3, <2>1
<1> QED BY <1>3, <1>4


(* sum is the running total of s. *)
RunningTotal(sum, s) ==
  sum = [i \in Window |-> IF i = 0 THEN s[0] ELSE sum[i - 1] + s[i]]

(* Totals gives one: the recursion of its definition has a solution. *)
LEMMA TotalsExist ==
  ASSUME LimiterAssumption, NEW s
  PROVE  RunningTotal(Totals(s), s)
<1> DEFINE Upto(g, n) == g = [i \in 0 .. n |-> IF i = 0 THEN s[0] ELSE g[i - 1] + s[i]]
           S == {n \in Nat : \E g : Upto(g, n)}
<1>1. 0 \in S
  <2>1. Upto([i \in 0 .. 0 |-> s[0]], 0)
    OBVIOUS
  <2> QED BY <2>1
<1>2. ASSUME NEW n \in Nat, n \in S PROVE n + 1 \in S
  <2>1. PICK g : Upto(g, n)
    BY <1>2
  <2> DEFINE h == [i \in 0 .. n + 1 |-> IF i = n + 1 THEN g[n] + s[n + 1] ELSE g[i]]
  <2>2. \A i \in 0 .. n + 1 : h[i] = IF i = 0 THEN s[0] ELSE h[i - 1] + s[i]
    <3> TAKE i \in 0 .. n + 1
    <3>1. CASE i = n + 1
      <4>1. h[i] = g[n] + s[i] /\ i # 0 /\ i - 1 \in 0 .. n + 1 /\ i - 1 = n
        BY <3>1
      <4>2. h[i - 1] = g[n]
        BY <4>1
      <4> QED BY <4>1, <4>2
    <3>2. CASE i # n + 1
      <4>1. i \in 0 .. n /\ h[i] = g[i] /\ (i # 0 => i - 1 \in 0 .. n /\ h[i - 1] = g[i - 1])
        BY <3>2
      <4>2. g[i] = IF i = 0 THEN s[0] ELSE g[i - 1] + s[i]
        BY <2>1, <4>1
      <4> QED BY <4>1, <4>2
    <3> QED BY <3>1, <3>2
  <2>3. Upto(h, n + 1)
    <3> DEFINE k == [i \in 0 .. n + 1 |-> IF i = 0 THEN s[0] ELSE h[i - 1] + s[i]]
    <3>1. h = k
      BY <2>2
    <3> QED BY <3>1
  <2> HIDE DEF h, Upto
  <2>4. \E f : Upto(f, n + 1)
    BY <2>3
  <2> QED BY <2>4
<1>3. Period \in S
  <2> HIDE DEF S
  <2>1. Nat \subseteq S
    BY <1>1, <1>2, Induction
  <2> QED BY <2>1 DEF LimiterAssumption
<1>4. \E sum : RunningTotal(sum, s)
  BY <1>3 DEF RunningTotal, Window
<1>5. Totals(s) = CHOOSE sum : RunningTotal(sum, s)
  BY DEF Totals, RunningTotal
<1> QED BY <1>4, <1>5

LEMMA TotalsAre ==
  ASSUME LimiterAssumption, NEW s \in [Window -> Nat]
  PROVE  /\ Totals(s)[0] = s[0]
         /\ \A i \in Window \ {0} : Totals(s)[i] = Totals(s)[i - 1] + s[i]
         /\ \A i \in Window : Totals(s)[i] \in Nat
<1>1. Totals(s) = [i \in Window |-> IF i = 0 THEN s[0] ELSE Totals(s)[i - 1] + s[i]]
  BY TotalsExist DEF RunningTotal
<1>2. 0 \in Window
  BY DEF Window, LimiterAssumption
<1>3. /\ Totals(s)[0] = s[0]
      /\ \A i \in Window \ {0} : Totals(s)[i] = Totals(s)[i - 1] + s[i]
  BY <1>1, <1>2
<1> DEFINE S == {n \in Nat : n \in Window => Totals(s)[n] \in Nat}
<1>4. 0 \in S
  BY <1>2, <1>3
<1>5. ASSUME NEW n \in Nat, n \in S PROVE n + 1 \in S
  <2> SUFFICES ASSUME n + 1 \in Window PROVE Totals(s)[n + 1] \in Nat
    OBVIOUS
  <2>1. n \in Window /\ n + 1 # 0 /\ (n + 1) - 1 = n
    BY DEF Window, LimiterAssumption
  <2> QED BY <1>3, <1>5, <2>1
<1>6. Nat \subseteq S
  <2> HIDE DEF S
  <2> QED BY <1>4, <1>5, Induction
<1> QED BY <1>3, <1>6 DEF Window, LimiterAssumption

-----------------------------------------------------------------------------
(* No bucket holds more than ceiling, none fills faster than slope, and    *)
(* a full one with what a period adds stays within every limit.            *)
Bounds(ceiling, slope) ==
  /\ \A k \in Capacities : k <= ceiling
  /\ \A r \in Rates : r <= slope
  /\ \A limit \in Limits : ceiling + Period * slope < (limit + 1) * Unit

Budgeted == \E ceiling, slope \in Nat : Bounds(ceiling, slope)

(* What the bucket would hold at the most if it were looked at now. *)
Available(ceiling, slope) == Smaller(ceiling, tokens + since * slope)

(* What has gone out in the ticks 0 .. i and what may still go out came    *)
(* from a full bucket and i ticks of filling.                              *)
BudgetInv(ceiling, slope) ==
  /\ cap \in Capacities /\ rate \in Rates
  /\ tokens \in Nat /\ since \in Nat /\ sends \in [Window -> Nat]
  /\ \A c \in Callers : call[c].floor \in Nat
  /\ DOMAIN call = Callers
  /\ \A i \in Window :
       Unit * Totals(sends)[i] + Available(ceiling, slope) <= ceiling + i * slope

LEMMA Quotient ==
  ASSUME NEW a \in Nat, NEW b \in Nat \ {0}
  PROVE  a \div b \in Nat /\ b * (a \div b) <= a
OBVIOUS

LEMMA Times ==
  ASSUME NEW a \in Nat, NEW b \in Nat, NEW m \in Nat, a <= b + 1
  PROVE  a * m \in Nat /\ b * m \in Nat /\ a * m <= b * m + m
<1>1. a * m <= (b + 1) * m
  OBVIOUS
<1>2. (b + 1) * m = b * m + m
  OBVIOUS
<1> QED BY <1>1, <1>2

LEMMA ConstantsAre ==
  /\ Unit \in Nat \ {0} /\ Period \in Nat \ {0} /\ LongIdle \in Nat
  /\ Limits \subseteq Nat \ {0}
  /\ Capacities \subseteq Nat /\ Rates \subseteq Nat
  /\ Window \subseteq Nat /\ 0 \in Window
<1>1. /\ Unit \in Nat \ {0} /\ Period \in Nat \ {0} /\ LongIdle \in Nat /\ SeedRate \in Nat
      /\ Limits \subseteq Nat \ {0}
  BY LimiterAssumption DEF LimiterAssumption
<1>2. Window \subseteq Nat /\ 0 \in Window
  BY <1>1 DEF Window
<1>3. \A l \in Limits : CapacityOf(l) \in Nat /\ RateOf(l) \in Nat
  <2> TAKE l \in Limits
  <2>1. l * Unit \in Nat /\ l * Unit * 4 \in Nat /\ Period * 5 \in Nat \ {0}
    BY <1>1
  <2> QED BY <1>1, <2>1, Quotient DEF CapacityOf, RateOf, Larger
<1>4. SeedCapacity \in Nat
  BY <1>1 DEF SeedCapacity, Larger
<1> QED BY <1>1, <1>2, <1>3, <1>4 DEF Capacities, Rates

(* A request more in the first tick, and a tick that goes by. *)
LEMMA OneMore ==
  ASSUME NEW s \in [Window -> Nat], NEW t, t = [s EXCEPT ![0] = @ + 1]
  PROVE  t \in [Window -> Nat] /\ \A i \in Window : Totals(t)[i] = Totals(s)[i] + 1
<1>0. Period \in Nat /\ 0 \in Window
  BY ConstantsAre
<1>1. t \in [Window -> Nat] /\ t[0] = s[0] + 1 /\ \A i \in Window \ {0} : t[i] = s[i]
  <2> DEFINE v == s[0] + 1
  <2>1. v \in Nat
    BY <1>0
  <2>2. t = [s EXCEPT ![0] = v]
    OBVIOUS
  <2> HIDE DEF v
  <2>3. t \in [Window -> Nat] /\ t[0] = v /\ \A i \in Window \ {0} : t[i] = s[i]
    BY <1>0, <2>1, <2>2
  <2> QED BY <2>3 DEF v
<1>2. /\ Totals(s)[0] = s[0] /\ Totals(t)[0] = t[0]
      /\ \A i \in Window \ {0} : /\ Totals(s)[i] = Totals(s)[i - 1] + s[i]
                                 /\ Totals(t)[i] = Totals(t)[i - 1] + t[i]
      /\ \A i \in Window : Totals(s)[i] \in Nat
  BY <1>1, TotalsAre, LimiterAssumption
<1> DEFINE S == {n \in Nat : n \in Window => Totals(t)[n] = Totals(s)[n] + 1}
<1>3. 0 \in S
  BY <1>1, <1>2, <1>0
<1>4. ASSUME NEW n \in Nat, n \in S PROVE n + 1 \in S
  <2> SUFFICES ASSUME n + 1 \in Window PROVE Totals(t)[n + 1] = Totals(s)[n + 1] + 1
    OBVIOUS
  <2>1. n \in Window /\ n + 1 \in Window \ {0} /\ (n + 1) - 1 = n
    BY <1>0 DEF Window
  <2>2. Totals(t)[n] = Totals(s)[n] + 1 /\ t[n + 1] = s[n + 1] /\ s[n + 1] \in Nat
    BY <1>1, <1>4, <2>1
  <2>3. /\ Totals(s)[n + 1] = Totals(s)[n] + s[n + 1] /\ Totals(s)[n] \in Nat
        /\ Totals(t)[n + 1] = Totals(t)[n] + t[n + 1]
    BY <1>2, <2>1
  <2> QED BY <2>2, <2>3
<1>5. Nat \subseteq S
  <2> HIDE DEF S
  <2> QED BY <1>3, <1>4, Induction
<1>6. ASSUME NEW i \in Window PROVE Totals(t)[i] = Totals(s)[i] + 1
  <2>1. i \in Nat
    BY ConstantsAre
  <2> QED BY <1>5, <2>1
<1> QED BY <1>1, <1>6

LEMMA Later ==
  ASSUME NEW s \in [Window -> Nat], NEW t,
         t = [i \in Window |-> IF i = 0 THEN 0 ELSE s[i - 1]]
  PROVE  /\ t \in [Window -> Nat] /\ Totals(t)[0] = 0
         /\ \A i \in Window \ {0} : Totals(t)[i] = Totals(s)[i - 1]
<1>0. Period \in Nat /\ 0 \in Window /\ \A i \in Window \ {0} : i - 1 \in Window
  BY ConstantsAre DEF Window
<1>1. t \in [Window -> Nat] /\ t[0] = 0 /\ \A i \in Window \ {0} : t[i] = s[i - 1]
  BY <1>0
<1>2. /\ Totals(s)[0] = s[0] /\ Totals(t)[0] = t[0]
      /\ \A i \in Window \ {0} : /\ Totals(s)[i] = Totals(s)[i - 1] + s[i]
                                 /\ Totals(t)[i] = Totals(t)[i - 1] + t[i]
      /\ \A i \in Window : Totals(s)[i] \in Nat
  BY <1>1, TotalsAre, LimiterAssumption
<1> DEFINE S == {n \in Nat : n + 1 \in Window => Totals(t)[n + 1] = Totals(s)[n]}
<1>3. 0 \in S
  <2> SUFFICES ASSUME 1 \in Window PROVE Totals(t)[1] = Totals(s)[0]
    OBVIOUS
  <2>1. 1 \in Window \ {0} /\ 1 - 1 = 0
    OBVIOUS
  <2>2. t[1] = s[0] /\ s[0] \in Nat
    BY <1>0, <1>1, <2>1
  <2>3. Totals(t)[1] = Totals(t)[0] + t[1] /\ Totals(t)[0] = 0 /\ Totals(s)[0] = s[0]
    BY <1>1, <1>2, <2>1
  <2> QED BY <2>2, <2>3
<1>4. ASSUME NEW n \in Nat, n \in S PROVE n + 1 \in S
  <2> SUFFICES ASSUME n + 2 \in Window PROVE Totals(t)[n + 2] = Totals(s)[n + 1]
    OBVIOUS
  <2>1. /\ n + 1 \in Window \ {0} /\ n + 2 \in Window \ {0}
        /\ (n + 1) - 1 = n /\ (n + 2) - 1 = n + 1
    BY <1>0 DEF Window
  <2>2. Totals(t)[n + 1] = Totals(s)[n] /\ t[n + 2] = s[n + 1]
    BY <1>1, <1>4, <2>1
  <2>3. /\ Totals(s)[n + 1] = Totals(s)[n] + s[n + 1]
        /\ Totals(t)[n + 2] = Totals(t)[n + 1] + t[n + 2]
    BY <1>2, <2>1
  <2> QED BY <2>2, <2>3
<1>5. Nat \subseteq S
  <2> HIDE DEF S
  <2> QED BY <1>3, <1>4, Induction
<1>6. ASSUME NEW i \in Window \ {0} PROVE Totals(t)[i] = Totals(s)[i - 1]
  <2>1. i - 1 \in Nat /\ (i - 1) + 1 = i
    BY <1>0 DEF Window
  <2> QED BY <1>5, <2>1
<1> QED BY <1>1, <1>2, <1>6

LEMMA BudgetInit ==
  ASSUME NEW ceiling \in Nat, NEW slope \in Nat, Bounds(ceiling, slope), Init
  PROVE  BudgetInv(ceiling, slope)
<1>0. cap \in Capacities /\ rate \in Rates /\ tokens = cap /\ since = 0
  BY DEF Init, Capacities, Rates
<1>1. sends \in [Window -> Nat] /\ \A i \in Window : sends[i] = 0
  BY DEF Init
<1>2. \A c \in Callers : call[c].floor \in Nat
  BY DEF Init, Idle
<1>3. DOMAIN call = Callers
  BY DEF Init
<1> DEFINE S == {n \in Nat : n \in Window => Totals(sends)[n] = 0}
<1>4. 0 \in S
  BY <1>1, TotalsAre, LimiterAssumption, ConstantsAre
<1>5. ASSUME NEW n \in Nat, n \in S PROVE n + 1 \in S
  <2> SUFFICES ASSUME n + 1 \in Window PROVE Totals(sends)[n + 1] = 0
    OBVIOUS
  <2>1. n \in Window /\ n + 1 \in Window \ {0} /\ (n + 1) - 1 = n
    BY ConstantsAre DEF Window
  <2>2. Totals(sends)[n + 1] = Totals(sends)[n] + sends[n + 1]
    BY <1>1, <2>1, TotalsAre, LimiterAssumption
  <2>3. Totals(sends)[n] = 0 /\ sends[n + 1] = 0
    BY <1>1, <1>5, <2>1
  <2> QED BY <2>2, <2>3
<1>6. ASSUME NEW i \in Window
      PROVE  Unit * Totals(sends)[i] + Available(ceiling, slope) <= ceiling + i * slope
  <2>1. Nat \subseteq S
    <3> HIDE DEF S
    <3> QED BY <1>4, <1>5, Induction
  <2>2. i \in Nat /\ Totals(sends)[i] = 0
    BY <2>1, ConstantsAre
  <2>3. Available(ceiling, slope) \in Nat /\ Available(ceiling, slope) <= ceiling
    BY <1>0, ConstantsAre DEF Available, Smaller
  <2>4. i * slope \in Nat /\ Unit * 0 = 0
    BY <2>2, ConstantsAre
  <2> QED BY <2>2, <2>3, <2>4
<1> QED BY <1>0, <1>1, <1>2, <1>3, <1>6, ConstantsAre DEF BudgetInv

(* Looking at the bucket credits no more than it could hold. *)
LEMMA RefilledWithin ==
  ASSUME NEW ceiling \in Nat, NEW slope \in Nat, Bounds(ceiling, slope),
         BudgetInv(ceiling, slope)
  PROVE  Refilled \in Nat /\ Refilled <= Available(ceiling, slope)
         /\ Available(ceiling, slope) \in Nat
<1>1. /\ cap \in Nat /\ rate \in Nat /\ cap <= ceiling /\ rate <= slope
      /\ tokens \in Nat /\ since \in Nat
  BY ConstantsAre DEF BudgetInv, Bounds
<1>2. since * rate \in Nat /\ since * slope \in Nat /\ since * rate <= since * slope
  BY <1>1
<1> QED BY <1>1, <1>2 DEF Refilled, Available, Smaller

(* A step that leaves no more in the bucket than was due to it. *)
LEMMA BudgetStep ==
  ASSUME NEW ceiling \in Nat, NEW slope \in Nat, Bounds(ceiling, slope),
         BudgetInv(ceiling, slope), UNCHANGED sends,
         cap' \in Capacities, rate' \in Rates, tokens' \in Nat, since' \in Nat,
         DOMAIN call' = Callers, \A c \in Callers : call'[c].floor \in Nat,
         Available(ceiling, slope)' <= Available(ceiling, slope)
  PROVE  BudgetInv(ceiling, slope)'
<1>1. Available(ceiling, slope) \in Nat /\ Available(ceiling, slope)' \in Nat
  BY DEF Available, Smaller, BudgetInv
<1>2. ASSUME NEW i \in Window
      PROVE  Unit * Totals(sends')[i] + Available(ceiling, slope)' <= ceiling + i * slope
  <2>1. Unit * Totals(sends)[i] + Available(ceiling, slope) <= ceiling + i * slope
    BY DEF BudgetInv
  <2>2. Totals(sends)[i] \in Nat /\ i \in Nat
    BY TotalsAre, LimiterAssumption, ConstantsAre DEF BudgetInv
  <2>3. Unit * Totals(sends)[i] \in Nat /\ ceiling + i * slope \in Nat
    BY <2>2, ConstantsAre
  <2>4. Totals(sends') = Totals(sends)
    OBVIOUS
  <2> QED BY <1>1, <2>1, <2>3, <2>4
<1> QED BY <1>2 DEF BudgetInv

(* The token goes, the request is counted. *)
LEMMA BudgetAcquire ==
  ASSUME NEW ceiling \in Nat, NEW slope \in Nat, Bounds(ceiling, slope),
         BudgetInv(ceiling, slope), NEW c \in Callers, Acquire(c)
  PROVE  BudgetInv(ceiling, slope)'
<1>1. /\ Refilled \in Nat /\ Available(ceiling, slope) \in Nat
      /\ Refilled <= Available(ceiling, slope)
  BY RefilledWithin
<1>2. call[c].floor \in Nat /\ Unit \in Nat /\ Refilled >= Unit + call[c].floor
  BY ConstantsAre DEF Acquire, MayTake, BudgetInv
<1>3. tokens' = Refilled - Unit /\ tokens' \in Nat /\ since' = 0
  BY <1>1, <1>2 DEF Acquire
<1>4. Available(ceiling, slope)' \in Nat /\ Available(ceiling, slope)' <= tokens'
  BY <1>3 DEF Available, Smaller
<1>5. sends' \in [Window -> Nat] /\ \A i \in Window : Totals(sends')[i] = Totals(sends)[i] + 1
  BY OneMore DEF Acquire, BudgetInv
<1>6. ASSUME NEW i \in Window
      PROVE  Unit * Totals(sends')[i] + Available(ceiling, slope)' <= ceiling + i * slope
  <2>1. Unit * Totals(sends)[i] + Available(ceiling, slope) <= ceiling + i * slope
    BY DEF BudgetInv
  <2>2. Totals(sends)[i] \in Nat /\ i \in Nat
    BY TotalsAre, LimiterAssumption, ConstantsAre DEF BudgetInv
  <2>3. /\ Unit * Totals(sends)[i] \in Nat /\ ceiling + i * slope \in Nat
        /\ Unit * (Totals(sends)[i] + 1) = Unit * Totals(sends)[i] + Unit
    BY <1>2, <2>2
  <2>4. Unit * Totals(sends')[i] = Unit * Totals(sends)[i] + Unit
    BY <1>5, <2>3
  <2>5. Available(ceiling, slope)' + Unit <= Available(ceiling, slope)
    BY <1>1, <1>2, <1>3, <1>4
  <2> QED BY <1>1, <1>2, <1>4, <2>1, <2>3, <2>4, <2>5
<1>7. DOMAIN call' = Callers /\ \A x \in Callers : call'[x].floor \in Nat
  <2>1. call' = [call EXCEPT ![c] = [call[c] EXCEPT !.at = "sent"]]
    BY DEF Acquire
  <2>2. call'[c].floor = call[c].floor
    <3>1. call'[c] = [call[c] EXCEPT !.at = "sent"]
      BY <2>1 DEF BudgetInv
    <3> QED BY <3>1
  <2> QED BY <2>1, <2>2 DEF BudgetInv
<1>8. cap' \in Capacities /\ rate' \in Rates /\ since' \in Nat
  BY <1>3 DEF BudgetInv, Acquire
<1> QED BY <1>3, <1>5, <1>6, <1>7, <1>8 DEF BudgetInv

(* The window moves on a tick while the bucket fills for one. *)
LEMMA BudgetTick ==
  ASSUME NEW ceiling \in Nat, NEW slope \in Nat, Bounds(ceiling, slope),
         BudgetInv(ceiling, slope), Tick
  PROVE  BudgetInv(ceiling, slope)'
<1>1. since' \in Nat /\ since' <= since + 1 /\ since \in Nat /\ tokens \in Nat
  BY ConstantsAre DEF Tick, BudgetInv, Smaller
<1>2. /\ since' * slope \in Nat /\ since * slope \in Nat
      /\ since' * slope <= since * slope + slope
  BY <1>1, Times
<1>3. /\ Available(ceiling, slope) \in Nat /\ Available(ceiling, slope)' \in Nat
      /\ Available(ceiling, slope)' <= ceiling
      /\ Available(ceiling, slope)' <= Available(ceiling, slope) + slope
  <2>1. tokens' = tokens
    BY DEF Tick
  <2> DEFINE p == since * slope
             q == since' * slope
  <2>2. p \in Nat /\ q \in Nat /\ q <= p + slope
    BY <1>2
  <2>3. Available(ceiling, slope) = Smaller(ceiling, tokens + p)
        /\ Available(ceiling, slope)' = Smaller(ceiling, tokens + q)
    BY <2>1 DEF Available
  <2> HIDE DEF p, q
  <2> QED BY <1>1, <2>2, <2>3 DEF Smaller
<1>4. /\ sends' \in [Window -> Nat] /\ Totals(sends')[0] = 0
      /\ \A i \in Window \ {0} : Totals(sends')[i] = Totals(sends)[i - 1]
  BY Later DEF Tick, BudgetInv
<1>5. ASSUME NEW i \in Window
      PROVE  Unit * Totals(sends')[i] + Available(ceiling, slope)' <= ceiling + i * slope
  <2>0. Unit \in Nat /\ i \in Nat
    BY ConstantsAre
  <2>1. CASE i = 0
    <3>1. Unit * 0 = 0 /\ 0 * slope = 0
      BY <2>0
    <3> QED BY <1>3, <1>4, <2>1, <3>1
  <2>2. CASE i # 0
    <3>1. i - 1 \in Window /\ i \in Window \ {0}
      BY <2>2, ConstantsAre DEF Window
    <3>2. Unit * Totals(sends)[i - 1] + Available(ceiling, slope) <= ceiling + (i - 1) * slope
      BY <3>1 DEF BudgetInv
    <3>3. Totals(sends)[i - 1] \in Nat /\ Totals(sends')[i] = Totals(sends)[i - 1]
      BY <1>4, <3>1, TotalsAre, LimiterAssumption DEF BudgetInv
    <3>4. (i - 1) * slope = i * slope - slope /\ i * slope \in Int
      BY <2>0
    <3>5. Unit * Totals(sends)[i - 1] \in Nat
      BY <2>0, <3>3
    <3> QED BY <1>3, <3>2, <3>3, <3>4, <3>5
  <2> QED BY <2>1, <2>2
<1>6. cap' \in Capacities /\ rate' \in Rates /\ tokens' \in Nat
  BY DEF Tick, BudgetInv
<1>7. DOMAIN call' = Callers /\ \A c \in Callers : call'[c].floor \in Nat
  BY DEF Tick, BudgetInv
<1> QED BY <1>1, <1>4, <1>5, <1>6, <1>7 DEF BudgetInv

(* What a thread is told leaves the bucket, or empties it. *)
LEMMA BudgetElse ==
  ASSUME NEW ceiling \in Nat, NEW slope \in Nat, Bounds(ceiling, slope),
         BudgetInv(ceiling, slope), NEW c \in Callers,
         \/ Ask(c) \/ Poll(c) \/ GiveUp(c) \/ Lose(c)
         \/ \E limit \in Limits, near \in BOOLEAN : Respond(c, limit, near)
         \/ \E limit \in Limits, after \in RetryAfters \cup {0} : Refuse(c, limit, after)
  PROVE  BudgetInv(ceiling, slope)'
<1>0. UNCHANGED sends
  BY DEF Ask, Poll, GiveUp, Lose, Respond, Refuse
<1>1. cap' \in Capacities /\ rate' \in Rates
  BY DEF BudgetInv, Ask, Poll, GiveUp, Lose, Respond, Refuse, Retargeted, Capacities, Rates
<1>2. DOMAIN call' = Callers /\ \A x \in Callers : call'[x].floor \in Nat
  <2>1. cap \in Nat /\ Reserve(c) \in Nat
    BY ConstantsAre, Quotient DEF BudgetInv, Reserve
  <2>2. call' = call \/ call' = [call EXCEPT ![c] = Idle]
        \/ call' = [call EXCEPT ![c] = [at |-> "waiting", floor |-> Reserve(c)]]
    BY DEF Ask, Poll, GiveUp, Lose, Respond, Refuse
  <2> QED BY <2>1, <2>2 DEF BudgetInv, Idle
<1>3. /\ tokens' \in Nat /\ since' \in Nat
      /\ Available(ceiling, slope)' <= Available(ceiling, slope)
  <2>0. /\ Refilled \in Nat /\ Available(ceiling, slope) \in Nat
        /\ Refilled <= Available(ceiling, slope) /\ tokens \in Nat /\ since \in Nat
        /\ since * slope \in Nat
    <3>1. tokens \in Nat /\ since \in Nat
      BY DEF BudgetInv
    <3>2. /\ Refilled \in Nat /\ Available(ceiling, slope) \in Nat
          /\ Refilled <= Available(ceiling, slope)
      BY RefilledWithin
    <3>3. since * slope \in Nat
      BY <3>1, Times
    <3> QED BY <3>1, <3>2, <3>3
  <2>1. CASE UNCHANGED <<tokens, since>>
    BY <2>0, <2>1 DEF Available, Smaller
  <2>2. CASE tokens' = Refilled /\ since' = 0
    BY <2>0, <2>2 DEF Available, Smaller
  <2>3. CASE tokens' = 0 /\ UNCHANGED since
    BY <2>0, <2>3 DEF Available, Smaller
  <2> QED BY <2>1, <2>2, <2>3 DEF Ask, Poll, GiveUp, Lose, Respond, Refuse
<1> QED BY <1>0, <1>1, <1>2, <1>3, BudgetStep

LEMMA BudgetNext ==
  ASSUME NEW ceiling \in Nat, NEW slope \in Nat, Bounds(ceiling, slope),
         BudgetInv(ceiling, slope), [ClientNext]_clientVars
  PROVE  BudgetInv(ceiling, slope)'
<1>1. CASE UNCHANGED clientVars
  BY <1>1 DEF clientVars, vars, BudgetInv, Available
<1>2. CASE Tick
  BY <1>2, BudgetTick
<1>3. ASSUME NEW c \in Callers, \/ \E method \in {"GET", "WRITE"} : Start(c, method)
                                \/ Again(c) \/ Send(c) \/ Wait(c) \/ Busy(c) \/ Outcome(c)
      PROVE  BudgetInv(ceiling, slope)'
  <2>1. CASE Send(c)
    BY <2>1, BudgetAcquire DEF Send
  <2>2. CASE ~ Send(c)
    <3>1. \/ Ask(c) \/ Poll(c) \/ GiveUp(c) \/ Lose(c)
          \/ \E limit \in Limits, near \in BOOLEAN : Respond(c, limit, near)
          \/ \E limit \in Limits, after \in RetryAfters \cup {0} : Refuse(c, limit, after)
      BY <1>3, <2>2 DEF Start, Again, Wait, Busy, Outcome, Accept, Decline, ServerError,
                        Drop, Throttle
    <3> QED BY <3>1, BudgetElse
  <2> QED BY <2>1, <2>2
<1> QED BY <1>1, <1>2, <1>3 DEF ClientNext

(* One limit that PCO keeps to is enough for it, over five ticks or more:  *)
(* the rate takes four fifths of it, the burst at most a fifth or a token. *)
LEMMA OneLimit ==
  ASSUME NEW limit \in Limits, Limits = {limit}, Period >= 5, SeedRate <= RateOf(limit)
  PROVE  Budgeted
<1> DEFINE w == limit * Unit
           b == w \div Period
           r == (w * 4) \div (Period * 5)
           most == Larger(SeedCapacity, CapacityOf(limit))
<1>0. /\ Unit \in Nat \ {0} /\ limit \in Nat \ {0} /\ Period \in Nat /\ SeedRate \in Nat
  BY ConstantsAre, LimiterAssumption DEF LimiterAssumption
<1>1. w \in Nat \ {0} /\ w + Unit = (limit + 1) * Unit
  BY <1>0
<1>2. b \in Nat /\ Period * b <= w
  <2> HIDE DEF w
  <2> QED BY <1>0, <1>1, Quotient
<1>3. r \in Nat /\ (Period * 5) * r <= w * 4
  <2>1. w * 4 \in Nat /\ Period * 5 \in Nat \ {0}
    BY <1>0, <1>1
  <2> HIDE DEF w
  <2> QED BY <2>1, Quotient
<1>4. RateOf(limit) = r /\ CapacityOf(limit) = Larger(Unit, b)
  BY DEF RateOf, CapacityOf
<1> HIDE DEF w, b, r
<1>5. \A n \in Nat : Period * n \in Nat /\ (Period * 5) * n = 5 * (Period * n) /\ 5 * n <= Period * n
  BY <1>0
<1>6. 5 * (Period * r) <= 4 * w /\ 5 * b <= w /\ 5 * r <= Period * r /\ Period * r \in Nat
  <2>1. (Period * 5) * r = 5 * (Period * r) /\ 5 * b <= Period * b /\ Period * b \in Nat
    BY <1>2, <1>3, <1>5
  <2> QED BY <1>1, <1>2, <1>3, <1>5, <2>1
<1>7. /\ Unit + Period * r < w + Unit /\ b + Period * r < w + Unit
      /\ r + Period * r < w + Unit
  <2> DEFINE p == Period * r
  <2>1. p \in Nat /\ 5 * p <= 4 * w /\ 5 * b <= w /\ 5 * r <= p
    BY <1>6
  <2> HIDE DEF p
  <2>2. Unit + p < w + Unit /\ b + p < w + Unit /\ r + p < w + Unit
    BY <1>0, <1>1, <1>2, <1>3, <2>1
  <2> QED BY <2>2 DEF p
<1>8. most \in {Unit, SeedRate, b} /\ most \in Nat
  BY <1>0, <1>2, <1>4 DEF Larger, SeedCapacity
<1>9. most + Period * r < (limit + 1) * Unit
  <2>1. SeedRate <= r
    BY <1>4
  <2> QED BY <1>0, <1>1, <1>3, <1>6, <1>7, <1>8, <2>1
<1>10. /\ \A k \in Capacities : k <= most
       /\ \A x \in Rates : x <= r
  <2>1. SeedCapacity \in Nat /\ CapacityOf(limit) \in Nat
    BY ConstantsAre DEF Capacities
  <2>2. SeedCapacity <= most /\ CapacityOf(limit) <= most
    BY <2>1 DEF Larger
  <2>3. SeedRate <= r /\ r <= r
    BY <1>3, <1>4
  <2> QED BY <2>2, <2>3, <1>4 DEF Capacities, Rates
<1>11. Bounds(most, r)
  BY <1>9, <1>10 DEF Bounds
<1> QED BY <1>3, <1>8, <1>11 DEF Budgeted

(* What goes out in any of PCO's windows stays within the limit PCO set,   *)
(* whatever the threads ask for, when and how they are answered.           *)
THEOREM WindowKept == Budgeted => (ClientSpec => []WindowBudget)
<1> SUFFICES ASSUME NEW ceiling \in Nat, NEW slope \in Nat, Bounds(ceiling, slope)
             PROVE  ClientSpec => []WindowBudget
  BY DEF Budgeted
<1>1. ClientInit => BudgetInv(ceiling, slope)
  BY BudgetInit DEF ClientInit
<1>2. BudgetInv(ceiling, slope) /\ [ClientNext]_clientVars => BudgetInv(ceiling, slope)'
  BY BudgetNext
<1>3. BudgetInv(ceiling, slope) => WindowBudget
  <2> SUFFICES ASSUME BudgetInv(ceiling, slope), NEW limit \in Limits PROVE Sent <= limit
    BY DEF WindowBudget
  <2>1. /\ Unit \in Nat \ {0} /\ Period \in Nat /\ Period \in Window /\ limit \in Nat
    BY ConstantsAre DEF Window
  <2>2. Sent \in Nat /\ Available(ceiling, slope) \in Nat
    BY <2>1, TotalsAre, LimiterAssumption DEF BudgetInv, Sent, Available, Smaller
  <2>3. Unit * Sent + Available(ceiling, slope) <= ceiling + Period * slope
    BY <2>1 DEF BudgetInv, Sent
  <2>4. ceiling + Period * slope < (limit + 1) * Unit
    BY DEF Bounds
  <2>5. Unit * Sent < Unit * (limit + 1)
    <3>1. Unit * Sent \in Nat /\ Unit * (limit + 1) \in Nat /\ Period * slope \in Nat
      BY <2>1, <2>2
    <3>2. (limit + 1) * Unit = Unit * (limit + 1)
      BY <2>1
    <3> QED BY <2>2, <2>3, <2>4, <3>1, <3>2
  <2>6. Sent < limit + 1
    <3> SUFFICES ASSUME Sent >= limit + 1 PROVE FALSE
      BY <2>1, <2>2
    <3>1. Unit * Sent >= Unit * (limit + 1)
      BY <2>1, <2>2
    <3> QED BY <2>1, <2>2, <2>5, <3>1
  <2> QED BY <2>1, <2>2, <2>6
<1> QED BY <1>1, <1>2, <1>3, PTL DEF ClientSpec

-----------------------------------------------------------------------------
(* Until an answer asks for less, the pause lasts as long as the longest   *)
(* Retry-After that PCO has asked for.                                     *)
Hushed == pause \in Nat /\ hush \in Nat /\ cut \in BOOLEAN /\ (cut \/ hush <= pause)

LEMMA HushedInit == Init => Hushed
<1> SUFFICES ASSUME Init PROVE Hushed
  OBVIOUS
<1>1. pause = 0 /\ hush = 0 /\ cut = FALSE
  BY DEF Init
<1>2. hush <= pause
  BY <1>1
<1> QED BY <1>1, <1>2 DEF Hushed

LEMMA HushedNext == Hushed /\ [ClientNext]_clientVars => Hushed'
<1> SUFFICES ASSUME Hushed, [ClientNext]_clientVars PROVE Hushed'
  OBVIOUS
<1>0. Period \in Nat /\ RetryAfters \subseteq Nat
  BY ConstantsAre, LimiterAssumption DEF LimiterAssumption
<1>1. CASE Tick
  <2>1. /\ pause' = IF pause = 0 THEN 0 ELSE pause - 1
        /\ hush' = IF hush = 0 THEN 0 ELSE hush - 1
        /\ cut' = (cut /\ hush > 1)
    BY <1>1 DEF Tick
  <2>2. pause' \in Nat /\ hush' \in Nat /\ cut' \in BOOLEAN
    BY <2>1 DEF Hushed
  <2>3. CASE cut'
    BY <2>2, <2>3 DEF Hushed
  <2>4. CASE ~ cut /\ ~ cut'
    <3>1. hush <= pause
      BY <2>4 DEF Hushed
    <3>2. hush' <= pause'
      BY <2>1, <3>1 DEF Hushed
    <3> QED BY <2>2, <3>2 DEF Hushed
  <2>5. CASE cut /\ ~ cut'
    <3>1. hush' = 0
      <4>1. ~ (hush > 1)
        BY <2>1, <2>5
      <4> QED BY <2>1, <4>1 DEF Hushed
    <3>2. hush' <= pause'
      BY <2>2, <3>1
    <3> QED BY <2>2, <3>2 DEF Hushed
  <2> QED BY <2>2, <2>3, <2>4, <2>5
<1>2. ASSUME NEW c \in Callers, NEW limit \in Limits, NEW after \in RetryAfters \cup {0},
             Refuse(c, limit, after)
      PROVE  Hushed'
  <2>1. /\ hush' = Larger(hush, after) /\ pause' = SpanOf(after)
        /\ cut' = (cut \/ SpanOf(after) < hush)
    BY <1>2 DEF Refuse, RefusedFor
  <2>2. after \in Nat /\ SpanOf(after) \in Nat /\ after <= SpanOf(after)
    <3>1. after \in Nat
      BY <1>0, <1>2
    <3>2. CASE after = 0
      BY <1>0, <3>2 DEF SpanOf
    <3>3. CASE after # 0
      <4>1. SpanOf(after) = after
        BY <3>3 DEF SpanOf
      <4> QED BY <3>1, <4>1
    <3> QED BY <3>2, <3>3
  <2>3. pause' \in Nat /\ hush' \in Nat /\ cut' \in BOOLEAN
    BY <2>1, <2>2 DEF Hushed, Larger
  <2>4. CASE SpanOf(after) < hush
    <3>1. cut'
      BY <2>1, <2>4
    <3> QED BY <2>3, <3>1 DEF Hushed
  <2>5. CASE ~ (SpanOf(after) < hush)
    <3>1. hush' <= pause'
      BY <2>1, <2>2, <2>5 DEF Hushed, Larger
    <3> QED BY <2>3, <3>1 DEF Hushed
  <2> QED BY <2>4, <2>5
<1>3. CASE UNCHANGED <<pause, hush, cut>>
  BY <1>3 DEF Hushed
<1>4. ASSUME NEW c \in Callers, NEW limit \in Limits, NEW near \in BOOLEAN,
             Respond(c, limit, near)
      PROVE  Hushed'
  <2>1. /\ hush' = hush /\ pause' = IF near THEN Period ELSE pause
        /\ cut' = (cut \/ (near /\ Period < hush))
    BY <1>4 DEF Respond, Retargeted
  <2>2. CASE near
    <3>1. pause' = Period /\ cut' = (cut \/ Period < hush)
      BY <2>1, <2>2
    <3>2. CASE Period < hush
      <4>1. cut'
        BY <3>1, <3>2
      <4> QED BY <1>0, <2>1, <3>1, <4>1 DEF Hushed
    <3>3. CASE ~ (Period < hush)
      <4>1. hush' <= pause' /\ cut' \in BOOLEAN
        BY <1>0, <2>1, <3>1, <3>3 DEF Hushed
      <4> QED BY <1>0, <2>1, <3>1, <4>1 DEF Hushed
    <3> QED BY <3>2, <3>3
  <2>3. CASE ~ near
    <3>1. pause' = pause /\ cut' = cut
      BY <2>1, <2>3 DEF Hushed
    <3> QED BY <2>1, <3>1 DEF Hushed
  <2> QED BY <2>2, <2>3
<1>5. \/ Tick
      \/ UNCHANGED <<pause, hush, cut>>
      \/ \E c \in Callers, limit \in Limits, near \in BOOLEAN : Respond(c, limit, near)
      \/ \E c \in Callers, limit \in Limits, after \in RetryAfters \cup {0} :
           Refuse(c, limit, after)
  <2>1. ASSUME NEW c \in Callers,
               \/ \E method \in {"GET", "WRITE"} : Start(c, method)
               \/ Again(c) \/ Send(c) \/ Wait(c) \/ Busy(c) \/ Outcome(c)
        PROVE  \/ UNCHANGED <<pause, hush, cut>>
               \/ \E limit \in Limits, near \in BOOLEAN : Respond(c, limit, near)
               \/ \E limit \in Limits, after \in RetryAfters \cup {0} : Refuse(c, limit, after)
    <3>1. CASE Outcome(c)
      BY <3>1 DEF Outcome, Accept, Decline, ServerError, Drop, Throttle, Lose
    <3>2. CASE ~ Outcome(c)
      BY <2>1, <3>2 DEF Start, Again, Ask, Send, Acquire, Wait, Poll, Busy, GiveUp
    <3> QED BY <3>1, <3>2
  <2> QED BY <2>1 DEF ClientNext, clientVars, vars
<1> QED BY <1>1, <1>2, <1>3, <1>4, <1>5

(* No request goes out before the Retry-After of every 429 has passed,     *)
(* unless an answer that came since asks for less (RateLimiter.on_429,     *)
(* on_response): for every set of threads, limits and Retry-Afters.        *)
THEOREM RetryAfterKept == ClientSpec => RetryAfterHonoured
<1>1. ClientInit => Hushed /\ ClientInv
  BY HushedInit, InitClient DEF ClientInit
<1>2. Hushed /\ ClientInv /\ [ClientNext]_clientVars => Hushed' /\ ClientInv'
  BY HushedNext, StepClient
<1>3. Hushed /\ ClientInv /\ [ClientNext]_clientVars =>
        [\A c \in Callers : call[c].at = "waiting" /\ call'[c].at = "sent" => hush = 0 \/ cut]_vars
  <2> SUFFICES ASSUME Hushed, ClientInv, ClientNext, NEW c \in Callers,
                      call[c].at = "waiting", call'[c].at = "sent"
               PROVE  hush = 0 \/ cut
    BY DEF clientVars
  <2>1. PICK x \in Callers : Send(x)
    <3>1. ~ Tick
      BY DEF Tick
    <3>2. PICK x \in Callers :
            \/ \E method \in {"GET", "WRITE"} : Start(x, method)
            \/ Again(x) \/ Send(x) \/ Wait(x) \/ Busy(x) \/ Outcome(x)
      BY <3>1 DEF ClientNext
    <3>3. CASE ~ Send(x)
      <4>1. \/ UNCHANGED call
            \/ call' = [call EXCEPT ![x] = Idle]
            \/ call' = [call EXCEPT ![x] = [at |-> "waiting", floor |-> Reserve(x)]]
        BY <3>2, <3>3 DEF Start, Again, Ask, Wait, Poll, Busy, GiveUp, Outcome, Accept,
           Decline, ServerError, Drop, Throttle, Respond, Lose, Refuse
      <4> QED BY <4>1 DEF ClientInv, Calls, Idle
    <3> QED BY <3>3
  <2>2. pause = 0
    BY <2>1 DEF Send, Acquire, MayTake
  <2> QED BY <2>2 DEF Hushed
<1> QED BY <1>1, <1>2, <1>3, PTL DEF ClientSpec, RetryAfterHonoured
=============================================================================
