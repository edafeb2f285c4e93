------------------------------ MODULE Verdicts ------------------------------
(***************************************************************************)
(* What the divergence check makes of two answers to one query             *)
(* (divergence/rules.py): one page of the records the mirror matches and   *)
(* one page of those Planning Center (PCO) matches, both by ascending id,  *)
(* and what the mirror's tables hold of the records only one page has.     *)
(*                                                                         *)
(* The mirror may be behind, may have lost or wrongly buried a record, may *)
(* hold a copy PCO changed without moving its updated_at, and its search   *)
(* may miss a record it holds.  `Check' gives the verdict, and `Sweep' is  *)
(* the next incremental sweep, whose coming a verdict of "staleness"       *)
(* relies on.  Sideloads, and the limit of 40 differences, are left out.   *)
(*                                                                         *)
(* An operator named Mut... is a deliberately wrong variant of the one it  *)
(* precedes; nothing uses it but the checks that a property notices.       *)
(***************************************************************************)
EXTENDS Naturals, FiniteSetsExt

CONSTANTS
  Records,   \* record ids, 1 .. the highest
  PerPage,   \* per_page of the query
  Offsets,   \* offsets it may have
  Seconds    \* updated_at: 1 .. Seconds

VerdictsAssumption ==
  /\ Records \in Nat /\ PerPage \in Nat \ {0}
  /\ Offsets \subseteq Nat /\ Seconds \in Nat

Ids == 1 .. Records

VARIABLES
  pco,        \* PCO's updated_at of each record; 0 if it has none
  held,       \* the mirror's row: live or why it is buried, and its updated_at
              \* or tombstone_uat
  filtered,   \* supports_uat_filter: which of the two sweeps the resource has
  drifted,    \* rows PCO changed without moving updated_at
  missed,     \* rows the mirror's search does not match
  watermark,  \* reconcile_watermark
  offset,     \* the query's
  verdict     \* of the check; "none" before it

vars == <<pco, held, filtered, drifted, missed, watermark, offset, verdict>>

NoRow == [is |-> "absent", uat |-> 0]
Rows == {NoRow} \cup [is : {"live", "destroyed", "merged"}, uat : 1 .. Seconds]
Live(k) == held[k].is = "live"

(* The watermark has passed no live row that is behind (Sweeps' NoGap; it  *)
(* may stand at the second of one that changed after that second was read).*)
(* Rows that were lost or wrongly buried may be of any age.                *)
Init ==
  /\ pco \in [Ids -> 0 .. Seconds] /\ held \in [Ids -> Rows]
  /\ watermark \in 1 .. Seconds /\ filtered \in BOOLEAN
  /\ \A k \in Ids : Live(k) /\ pco[k] # 0 =>
       held[k].uat <= pco[k] /\ (held[k].uat < pco[k] => watermark <= pco[k])
  /\ drifted \in SUBSET {k \in Ids : Live(k) /\ held[k].uat = pco[k]}
  /\ missed \in SUBSET {k \in Ids : Live(k)}
  /\ offset \in Offsets
  /\ verdict = "none"

-----------------------------------------------------------------------------
(* The two answers. *)

Matched(side) ==
  IF side = "pco" THEN {k \in Ids : pco[k] # 0}
  ELSE {k \in Ids : Live(k) /\ k \notin missed}
Before(k, ids) == Cardinality({j \in ids : j < k})
Data(side) ==
  {k \in Matched(side) : /\ offset <= Before(k, Matched(side))
                         /\ Before(k, Matched(side)) < offset + PerPage}

MutHasMore(side) == FALSE

HasMore(side) == Cardinality(Matched(side)) > offset + PerPage

Other(side) == IF side = "pco" THEN "mirror" ELSE "pco"

(* The records only one side returned, less those whose absence the other  *)
(* side's page edge explains.                                              *)
OneSided(side) ==
  IF HasMore(Other(side)) THEN {} ELSE Data(side) \ Data(Other(side))

(* Where the two documents differ: by kind of pointer.                     *)
Behind(k) == Live(k) /\ held[k].uat < pco[k]
Differences ==
  {d \in {"$.data", "$.meta", "$.[record]"} :
     \/ d = "$.data" /\ Data("pco") # Data("mirror")
     \/ d = "$.meta" /\ Cardinality(Matched("pco")) # Cardinality(Matched("mirror"))
     \/ /\ d = "$.[record]"
        /\ \E k \in Data("pco") \cap Data("mirror") : Behind(k) \/ k \in drifted}

-----------------------------------------------------------------------------
MutSweepConverges(k) == ~Live(k)

(* _sweep_converges: what the mirror's tables say of a record it did not   *)
(* return.  It asks neither which sweep is coming nor why a row is buried. *)
SweepConverges(k) ==
  /\ ~Live(k) /\ pco[k] >= watermark
  /\ held[k].is # "absent" => pco[k] > held[k].uat

Classify ==
  IF Differences = {} THEN "match"
  ELSE IF \E k \in Data("pco") \cap Data("mirror") : Behind(k) THEN "staleness"
  ELSE IF /\ OneSided("pco") # {} /\ OneSided("mirror") = {}
          /\ Differences \subseteq {"$.data", "$.meta"}
          /\ \A k \in OneSided("pco") : SweepConverges(k)
       THEN "staleness"
  ELSE "divergence"

Check == verdict = "none" /\ verdict' = Classify
         /\ UNCHANGED <<pco, held, filtered, drifted, missed, watermark, offset>>

(* The keyset sweep asks for what changed since the watermark, its second  *)
(* included; the descending one stops at the first record that is not past *)
(* it.                                                                     *)
Collected(k) == pco[k] # 0 /\ IF filtered THEN pco[k] >= watermark ELSE pco[k] > watermark

(* upsert: news of a row or of its tombstone is taken; a merge is final.   *)
Taken(k) == Collected(k) /\ held[k].is # "merged" /\ pco[k] > held[k].uat

Sweep ==
  /\ verdict # "none"
  /\ held' = [k \in Ids |-> IF Taken(k) THEN [is |-> "live", uat |-> pco[k]] ELSE held[k]]
  /\ watermark' = Max({watermark} \cup {pco[k] : k \in Ids})
  /\ UNCHANGED <<pco, filtered, drifted, missed, offset, verdict>>

Next == Check \/ Sweep

Spec == Init /\ [][Next]_vars

-----------------------------------------------------------------------------
(* A record the comparison holds against one side is one that side does    *)
(* not match: the page's edge accuses nobody (rules.py, "A page is a       *)
(* window, and the window moves").                                         *)
AccusesOnlyTheMissing ==
  \A side \in {"pco", "mirror"} :
    \A k \in OneSided(side) : k \notin Matched(Other(side))

(* The records a verdict of "staleness" is about: the ones the mirror's    *)
(* answer shows an older copy of, or else the ones it lacked.              *)
Stale ==
  LET behind == {k \in Data("pco") \cap Data("mirror") : Behind(k)}
  IN  IF behind # {} THEN behind ELSE OneSided("pco")

(* What no sweep brings and the verdict does not know of: a row buried by  *)
(* a merge, and under a descending sweep the watermark's own second.       *)
OutOfReach(k) == held[k].is = "merged" \/ (~ filtered /\ pco[k] = watermark)

(* What is called stale the next sweep repairs, each newer copy and each   *)
(* record the mirror's answer lacked (classify: "the sweep will fix it"),  *)
(* but for what is out of its reach.                                       *)
SweepRepairs ==
  verdict = "staleness" /\ verdict' = verdict =>
    \A k \in Stale : OutOfReach(k) \/ held'[k] = [is |-> "live", uat |-> pco[k]]
StalenessIsSwept == [][SweepRepairs]_vars
=============================================================================
