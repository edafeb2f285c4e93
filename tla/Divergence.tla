----------------------------- MODULE Divergence -----------------------------
(***************************************************************************)
(* The divergence checks (divergence/__init__.py).  Reads served from the  *)
(* mirror are enrolled in a corpus, some requests per shape; a pass of the *)
(* hot lane replays some of them, under a rate the operator sets, and logs *)
(* what differs.  The web threads enrol while the pass is under way.       *)
(*                                                                         *)
(* Time is counted in hot ticks, Minute of them to a minute.  Tokens are   *)
(* counted in 1/Minute of a check.  Stamps are of the second, so only      *)
(* their order matters: `stamps' lists the requests by the second of their *)
(* last check, oldest first.  A restart, which refills the bucket with one *)
(* token and forgets the rest of the pass, is left out.                    *)
(*                                                                         *)
(* An operator named Mut... is a deliberately wrong variant of the one it  *)
(* precedes; nothing uses it but the checks that a property notices.       *)
(***************************************************************************)
EXTENDS Naturals, Sequences, SequencesExt, FiniteSetsExt

CONSTANTS
  Requests,   \* pairs: a shape and a number
  Samples,    \* SAMPLES_PER_SHAPE
  MaxSeen,    \* bound on the count of a sample
  Rates,      \* what the operator may dial in, up to MAX_PER_MINUTE; 0 is off
  Minute,     \* hot ticks of a minute
  Keep,       \* shadow_keep
  MaxBytes,   \* MAX_BYTES
  Sizes       \* what one report may take, up to MAX_REPORT_BYTES

Shapes == {q[1] : q \in Requests}

DivergenceAssumption ==
  /\ IsFiniteSet(Requests) /\ Requests \subseteq Nat \X Nat
  /\ {Samples, MaxSeen, Minute, Keep} \subseteq Nat \ {0} /\ MaxBytes \in Nat
  /\ Rates \subseteq Nat /\ Sizes \subseteq 1 .. MaxBytes

VARIABLES
  rate,     \* the rate in force: the operator's, or the environment's
  tokens,   \* _tokens
  idle,     \* ticks since _last_refill, as far as they matter
  corpus,   \* shadow_sample in the order of sample_id: the request, and `seen'
  stamps,   \* the requests by last_checked_at
  todo,     \* the samples of this pass not yet checked
  ticked,   \* the scheduler has waited since the last pass
  log       \* shadow_report: sizes, oldest first

vars == <<rate, tokens, idle, corpus, stamps, todo, ticked, log>>

TypeOK ==
  /\ rate \in Rates /\ idle \in 0 .. Minute
  /\ tokens \in 0 .. Minute * Max(Rates)
  /\ corpus \in Seq([req : Requests, seen : 1 .. MaxSeen])
  /\ \A i, j \in DOMAIN corpus : corpus[i].req = corpus[j].req => i = j
  /\ \A i, j \in DOMAIN stamps : i # j => stamps[i] \cap stamps[j] = {}
  /\ \A i \in DOMAIN stamps : stamps[i] # {}
  /\ todo \in Seq(Requests)
  /\ ticked \in BOOLEAN /\ log \in Seq(Sizes)

(* One token, and not a full bucket: _last_refill lies 60/rate back. *)
Init ==
  /\ rate \in Rates
  /\ tokens = 0 /\ idle = Minute \div Max({1, rate})
  /\ corpus = <<>> /\ stamps = <<>> /\ todo = <<>> /\ ticked = TRUE /\ log = <<>>

Held == {corpus[i].req : i \in DOMAIN corpus}
OfShape(s) == SelectSeq(corpus, LAMBDA x : x.req[1] = s)

-----------------------------------------------------------------------------
(* Enrolling. *)

Counted(q) ==
  IF q \in Held
  THEN [i \in DOMAIN corpus |-> IF corpus[i].req = q /\ corpus[i].seen < MaxSeen
                                THEN [corpus[i] EXCEPT !.seen = @ + 1] ELSE corpus[i]]
  ELSE Append(corpus, [req |-> q, seen |-> 1])

(* The busiest samples of a shape stay, of two as busy the older one.      *)
Trimmed(c, s) ==
  LET Beats(i, j) == c[i].seen > c[j].seen \/ (c[i].seen = c[j].seen /\ i < j)
      Stays(j) == \/ c[j].req[1] # s
                  \/ Cardinality({i \in DOMAIN c : c[i].req[1] = s /\ Beats(i, j)}) < Samples
  IN  [k \in 1 .. Cardinality({j \in DOMAIN c : Stays(j)}) |->
         c[CHOOSE j \in DOMAIN c :
             Stays(j) /\ Cardinality({i \in 1 .. j : Stays(i)}) = k]]

(* A sample's stamp goes with its row. *)
Observe ==
  \E q \in Requests :
    /\ rate > 0
    /\ corpus' = Trimmed(Counted(q), q[1])
    /\ stamps' = SelectSeq([i \in DOMAIN stamps |-> stamps[i] \cap {corpus'[k].req : k \in DOMAIN corpus'}],
                           LAMBDA g : g # {})
    /\ UNCHANGED <<rate, tokens, idle, todo, ticked, log>>

-----------------------------------------------------------------------------
(* Checking. *)

(* When a request was last checked, by rank; 0 is never. *)
Stamp(q) == CHOOSE n \in 0 .. Len(stamps) :
              IF n = 0 THEN \A i \in DOMAIN stamps : q \notin stamps[i] ELSE q \in stamps[n]
Touched(s) == Max({Stamp(x.req) : x \in ToSet(OfShape(s))})

MutSample(s) == Head(OfShape(s)).req

(* The least recently checked of a shape. *)
Sample(s) ==
  LET of == OfShape(s)
      First(i, j) == Stamp(of[i].req) < Stamp(of[j].req)
                     \/ (Stamp(of[i].req) = Stamp(of[j].req) /\ i <= j)
  IN  of[CHOOSE i \in DOMAIN of : \A j \in DOMAIN of : First(i, j)].req

(* One request per shape, the least recently checked shapes first. *)
Due(limit) ==
  LET shapes == SetToSortSeq({q[1] : q \in Held},
                  LAMBDA s, t : Touched(s) < Touched(t) \/ (Touched(s) = Touched(t) /\ s < t))
      n == Min({limit, Len(shapes)})
  IN  [i \in 1 .. n |-> Sample(shapes[i])]

Refilled == Min({Minute * rate, tokens + idle * rate})

(* A pass that may make at least one check.  The tokens are spent when it  *)
(* ends, but nothing else reads them.                                      *)
PassBegin ==
  /\ todo = <<>> /\ rate > 0 /\ ticked
  /\ todo' = Due(Refilled \div Minute)
  /\ tokens' = Refilled - Minute * Len(todo')
  /\ idle' = 0 /\ ticked' = FALSE
  /\ UNCHANGED <<rate, corpus, stamps, log>>

MutStamped(q, same) == stamps

(* Marked as checked, in the second of the last check or in a later one.   *)
Stamped(q, same) ==
  LET rest == SelectSeq([i \in DOMAIN stamps |-> stamps[i] \ {q}], LAMBDA g : g # {})
  IN  IF q \notin Held THEN stamps
      ELSE IF same /\ rest # <<>> /\ Last(rest) = Last(stamps)
           THEN [rest EXCEPT ![Len(rest)] = @ \cup {q}]
      ELSE Append(rest, {q})

Bytes(l) == FoldSeq(LAMBDA x, sum : x + sum, 0, l)
Tails(l, n) == SubSeq(l, n, Len(l))

(* _trim: the newest by count. *)
ByCount(l) == Tails(l, Max({1, Len(l) - Keep + 1}))

MutBySize(l) == LET n == Len(l) IN IF Bytes(l) > MaxBytes THEN SubSeq(l, 1, n - 1) ELSE l

(* trim_to_size: counted newest first, and cut at the first that does not  *)
(* fit.                                                                    *)
BySize(l) == Tails(l, Max({0} \cup {i \in DOMAIN l : Bytes(Tails(l, i)) > MaxBytes}) + 1)

(* A check that finds the two sides alike, or that could not be made. *)
CheckQuiet(same) ==
  /\ todo # <<>>
  /\ stamps' = Stamped(Head(todo), same) /\ todo' = Tail(todo)
  /\ UNCHANGED <<rate, tokens, idle, corpus, ticked, log>>

CheckDiffers(same, size) ==
  /\ todo # <<>>
  /\ log' = BySize(ByCount(Append(log, size)))
  /\ stamps' = Stamped(Head(todo), same) /\ todo' = Tail(todo)
  /\ UNCHANGED <<rate, tokens, idle, corpus, ticked>>

(* The scheduler's wait between two passes. *)
Wait ==
  /\ todo = <<>> /\ (ticked => rate = 0)
  /\ ticked' = TRUE
  /\ idle' = Min({Minute, idle + 1})
  /\ UNCHANGED <<rate, tokens, corpus, stamps, todo, log>>

-----------------------------------------------------------------------------
(* The operator: configure, which the environment's default stands behind, *)
(* and clear.                                                              *)
Configure ==
  /\ rate' \in Rates
  /\ UNCHANGED <<tokens, idle, corpus, stamps, todo, ticked, log>>

Clear ==
  /\ log' = <<>>
  /\ UNCHANGED <<rate, tokens, idle, corpus, stamps, todo, ticked>>

Check == (\E same \in BOOLEAN : CheckQuiet(same))
         \/ (\E same \in BOOLEAN, size \in Sizes : CheckDiffers(same, size))

Next == Observe \/ PassBegin \/ Check \/ Wait \/ Configure \/ Clear

Spec == Init /\ [][Next]_vars

(* The hot lane never stops: passes begin, go on and are waited between.   *)
FairSpec == Spec /\ WF_vars(PassBegin) /\ WF_vars(Check) /\ WF_vars(Wait)

-----------------------------------------------------------------------------
(* Every sample is checked again, whatever fails and however busy the      *)
(* others are, unless it leaves the corpus or checks are switched off      *)
(* (due, run_once).                                                        *)
Awaited(q) == q \in Held /\ rate > 0
Attended(q) == (todo # <<>> /\ Head(todo) = q) \/ q \notin Held \/ rate = 0
EverySampleChecked == \A q \in Requests : Awaited(q) ~> Attended(q)

(* The log stays within both of its bounds, and keeps as much of the newest *)
(* as they allow, the last report always (_trim, trim_to_size).             *)
Fits(l) == Len(l) <= Keep /\ Bytes(l) <= MaxBytes
KeepsNewest ==
  \A size \in Sizes : (\E same \in BOOLEAN : CheckDiffers(same, size)) =>
    LET l == Append(log, size)
    IN  log' = Tails(l, Min({i \in DOMAIN l : Fits(Tails(l, i))}))
NewestKept == [][KeepsNewest]_vars
=============================================================================
