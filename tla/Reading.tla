------------------------------ MODULE Reading -------------------------------
(***************************************************************************)
(* Reads served from the mirror (serving.py): a collection of people, page *)
(* by page, with include=households.people; one person; the people of one  *)
(* household; and what is passed through to Planning Center.  An answer    *)
(* takes several queries, each on its own: the ingesting threads write     *)
(* between them.                                                           *)
(*                                                                         *)
(* Both edges are arrays on the record itself: a person's households, a    *)
(* household's people.  A row read by one query keeps the array it had.    *)
(* Arrays, pages and sideloads are sets here: in which order an answer     *)
(* lists its ids, and whether twice, is left out.  So are filters, orders, *)
(* sparse fields and the other kinds of relationship, which only change    *)
(* which rows a query returns.                                             *)
(*                                                                         *)
(* An operator named Mut... is a deliberately wrong variant of the one it  *)
(* precedes; nothing uses it but the checks that a property notices.       *)
(***************************************************************************)
EXTENDS Naturals, FiniteSets

CONSTANTS
  People,      \* ids, numbers: pages are by ascending id
  Households,  \* ids
  Homes,       \* what a person's array of households may be
  Members,     \* what a household's array of people may be
  PerPage,     \* per_page
  MaxWrites,   \* bound on the rows written meanwhile
  MaxReads     \* bound on the requests

ReadingAssumption ==
  /\ People \subseteq Nat \ {0} /\ IsFiniteSet(People) /\ IsFiniteSet(Households)
  /\ Homes \subseteq SUBSET Households /\ Members \subseteq SUBSET People
  /\ {PerPage, MaxWrites, MaxReads} \subseteq Nat

VARIABLES
  person,     \* the mirror's rows: state and array
  household,
  read,       \* the request under way
  page,       \* the rows of its page: ids and arrays
  total,      \* its count
  level1,     \* the households the page names: ids and arrays
  included,   \* people sideloaded
  memo,       \* second levels already resolved, by household
  echo,       \* the relationship synthesized so far, by person
  seen,       \* history: people this caller's pages have shown
  touched,    \* history: rows written since the walk of the pages began
  left        \* what is left of the bounds

vars == <<person, household, read, page, total, level1, included, memo, echo, seen, touched, left>>
rows == <<person, household>>
answer == <<page, total, level1, included, memo, echo>>

NoRead == [kind |-> "none", at |-> "idle", offset |-> 0, only |-> People]

Unasked == [x \in {} |-> {}]

(* Nobody reads the array of a row that is not live. *)
Persons == [is : {"none", "dead"}, of : {{}}] \cup [is : {"live"}, of : Homes]

TypeOK ==
  /\ person \in [People -> Persons]
  /\ household \in [Households -> [is : {"live", "dead"}, of : Members]]
  /\ read.kind \in {"none", "list", "single", "nested", "through"}
  /\ read.at \in {"idle", "row", "count", "rows", "level1", "level2", "echo", "reply", "pco"}
  /\ read.offset \in Nat /\ read.only \subseteq People
  /\ page \subseteq [id : People, of : Homes]
  /\ total \in 0 .. Cardinality(People)
  /\ level1 \subseteq [id : Households, of : Members]
  /\ DOMAIN echo \subseteq {x.id : x \in page} /\ DOMAIN memo \subseteq Households
  /\ included \cup seen \subseteq People /\ touched \subseteq People \cup Households
  /\ left \in [writes : 0 .. MaxWrites, reads : 0 .. MaxReads]

Init ==
  /\ person \in [People -> Persons]
  /\ household \in [Households -> [is : {"live"}, of : Members]]
  /\ read = NoRead /\ page = {} /\ total = 0 /\ level1 = {}
  /\ included = {} /\ memo = Unasked /\ echo = Unasked
  /\ seen = {} /\ touched = {}
  /\ left = [writes |-> MaxWrites, reads |-> MaxReads]

-----------------------------------------------------------------------------
(* Queries. *)

LivePeople == {p \in People : person[p].is = "live"}

(* What the rows' arrays name, those whose row is live: what               *)
(* _related_rows returns for a relationship kept as an array.              *)
Named(some) == UNION {x.of : x \in some}

RelatedHouseholds(some) ==
  {[id |-> h, of |-> household[h].of] : h \in {h \in Named(some) : household[h].is = "live"}}

MutRelatedPeople(some) ==
  IF some = {} THEN {} ELSE (CHOOSE x \in some : TRUE).of \cap LivePeople

RelatedPeople(some) == Named(some) \cap LivePeople

-----------------------------------------------------------------------------
(* Requests. *)

Fresh(kind, at, only) ==
  /\ read.at = "idle" /\ left.reads > 0
  /\ left' = [left EXCEPT !.reads = @ - 1]
  /\ read' = [kind |-> kind, at |-> at, offset |-> 0, only |-> only]
  /\ page' = {} /\ total' = 0 /\ level1' = {} /\ included' = {}
  /\ memo' = Unasked /\ echo' = Unasked /\ seen' = {} /\ touched' = {}
  /\ UNCHANGED rows

AskList == Fresh("list", "count", People)
AskSingle == \E p \in People : Fresh("single", "row", {p})

(* The array of this moment is the restriction of what follows. *)
Restriction(h) == household[h].of

(* The household must be live; else 404. *)
AskNested ==
  \E h \in Households :
    /\ household[h].is = "live"
    /\ Fresh("nested", "count", Restriction(h))

(* One person, addressed through a household that must have them; else 404. *)
AskMember ==
  \E h \in Households :
    /\ household[h].is = "live"
    /\ \E p \in Restriction(h) : person[p].is # "none" /\ Fresh("single", "row", {p})

(* A type, or a relationship, that is not mirrored; another product.       *)
AskThrough == Fresh("through", "pco", {})

To(at) == read' = [read EXCEPT !.at = at]

(* The row decides: 404, or PCO where the caller asked for the fallback;   *)
(* 410 with where a merge went; or 200.                                    *)
SingleRow ==
  /\ read.at = "row"
  /\ LET p == CHOOSE p \in read.only : TRUE
     IN  \/ person[p].is = "none" /\ (read' = NoRead \/ To("pco")) /\ page' = {}
         \/ person[p].is = "dead" /\ read' = NoRead /\ page' = {}
         \/ person[p].is = "live" /\ To("level1") /\ page' = {[id |-> p, of |-> person[p].of]}
  /\ UNCHANGED <<rows, total, level1, included, memo, echo, seen, touched, left>>

(* People's own answers are routed into the mirror; another product's are  *)
(* relayed and never stored: its ids are other people's.                   *)
Through ==
  /\ read.at = "pco"
  /\ \/ UNCHANGED person
     \/ \E p \in People :
          /\ person[p].is = "none"
          /\ \E homes \in Homes : person' = [person EXCEPT ![p] = [is |-> "live", of |-> homes]]
  /\ read' = NoRead
  /\ UNCHANGED <<household, answer, seen, touched, left>>

Count ==
  /\ read.at = "count"
  /\ total' = Cardinality(LivePeople \cap read.only)
  /\ To("rows")
  /\ UNCHANGED <<rows, page, level1, included, memo, echo, seen, touched, left>>

Before(p, ids) == Cardinality({q \in ids : q < p})

(* LIMIT and OFFSET over the rows of this moment. *)
Rows ==
  /\ read.at = "rows"
  /\ LET all == LivePeople \cap read.only
         ids == {p \in all : read.offset <= Before(p, all) /\ Before(p, all) < read.offset + PerPage}
     IN  page' = {[id |-> p, of |-> person[p].of] : p \in ids}
  /\ To("level1")
  /\ UNCHANGED <<rows, total, level1, included, memo, echo, seen, touched, left>>

Level1 ==
  /\ read.at = "level1"
  /\ level1' = RelatedHouseholds(page)
  /\ To("level2")
  /\ UNCHANGED <<rows, page, total, included, memo, echo, seen, touched, left>>

Level2 ==
  /\ read.at = "level2"
  /\ included' = RelatedPeople(level1)
  /\ To("echo")
  /\ UNCHANGED <<rows, page, total, level1, memo, echo, seen, touched, left>>

Unechoed == {x \in page : x.id \notin DOMAIN echo}

(* The echo of the next row: its households are asked for again, and the   *)
(* people of those not asked for yet.                                      *)
Echo ==
  /\ read.at = "echo"
  /\ \E x \in Unechoed :
       /\ \A y \in Unechoed : x.id <= y.id
       /\ LET own == RelatedHouseholds({x})
              hop == [h \in {one.id : one \in own} \cup DOMAIN memo |->
                        IF h \in DOMAIN memo THEN memo[h]
                        ELSE RelatedPeople({one \in own : one.id = h})]
          IN  /\ memo' = hop
              /\ echo' = [p \in DOMAIN echo \cup {x.id} |->
                            IF p = x.id THEN UNION {hop[one.id] : one \in own} ELSE echo[p]]
  /\ UNCHANGED <<rows, read, page, total, level1, included, seen, touched, left>>

MutHasNext == read.offset + PerPage + 1 < total

HasNext == read.offset + PerPage < total

Answered == read.at = "echo" /\ Unechoed = {}

(* The answer goes out, and a caller of a collection follows links.next.   *)
Reply ==
  /\ Answered
  /\ seen' = seen \cup {x.id : x \in page}
  /\ IF read.kind # "single" /\ HasNext
     THEN read' = [read EXCEPT !.at = "count", !.offset = @ + PerPage]
     ELSE To("reply")
  /\ page' = {} /\ level1' = {} /\ included' = {} /\ memo' = Unasked /\ echo' = Unasked
  /\ UNCHANGED <<rows, total, touched, left>>

Done ==
  /\ read.at = "reply" /\ read' = NoRead
  /\ UNCHANGED <<rows, answer, seen, touched, left>>

-----------------------------------------------------------------------------
(* What the other threads write. *)

Write(what) ==
  /\ left.writes > 0 /\ left' = [left EXCEPT !.writes = @ - 1]
  /\ touched' = touched \cup {what}
  /\ UNCHANGED <<read, answer, seen>>

WritePerson ==
  \E p \in People, row \in {row \in Persons : row.is # "none"} :
    /\ Write(p) /\ person' = [person EXCEPT ![p] = row]
    /\ UNCHANGED household

WriteHousehold ==
  \E h \in Households, is \in {"live", "dead"}, members \in Members :
    /\ Write(h) /\ household' = [household EXCEPT ![h] = [is |-> is, of |-> members]]
    /\ UNCHANGED person

Next ==
  \/ AskList \/ AskSingle \/ AskNested \/ AskMember \/ AskThrough \/ SingleRow \/ Through
  \/ Count \/ Rows \/ Level1 \/ Level2 \/ Echo \/ Reply \/ Done
  \/ WritePerson \/ WriteHousehold

Spec == Init /\ [][Next]_vars

-----------------------------------------------------------------------------
(* Whoever was there all along is on one of the pages, unless a row before *)
(* it came or went and moved it across an edge (_list, _page_links).       *)
PagesCover ==
  read.kind = "list" /\ read.at = "reply" =>
    \A p \in LivePeople \ touched :
      p \in seen \/ \E q \in touched \cap People : q < p

(* An id the echo names is sideloaded, unless it, or a household of the    *)
(* person it is named for, was written while the answer was made           *)
(* (_build_includes).                                                      *)
EchoLinked ==
  Answered =>
    \A x \in page : \A p \in echo[x.id] :
      p \in included \cup touched \/ x.of \cap touched # {}
=============================================================================
