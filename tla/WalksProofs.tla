---------------------------- MODULE WalksProofs -----------------------------
(***************************************************************************)
(* A parent in the ledger is served whole, for every set of parents and    *)
(* children, every budget of a step and every interleaving of the walkers. *)
(***************************************************************************)
EXTENDS Walks, TLAPS

States == {"none", "live", "destroyed", "owner_deleted"}

Shapes ==
  /\ kid \in [Kids -> States] /\ parent \in [Parents -> {"none", "live", "dead"}]
  /\ has \subseteq born /\ has \subseteq Kids /\ owed \subseteq Kids
  /\ DOMAIN job = Walkers /\ \A w \in Walkers : DOMAIN job[w] = {"at", "todo", "kids"}

(* What a walker holds exists or did, an id is not used again, and a child *)
(* that was deleted through the mirror is gone before its row is.          *)
Held ==
  \A w \in Walkers : /\ job[w].kids \subseteq born /\ job[w].kids \subseteq Kids
                     /\ job[w].at = "deleted" => job[w].kids \cap has = {}

(* Why a row is buried. *)
Buried ==
  \A k \in Kids : /\ kid[k] # "none" => k \in born
                  /\ kid[k] = "owner_deleted" => parent[k[1]] = "dead"
                  /\ kid[k] = "destroyed" /\ k \in has => k \in hurt

Walked == \A k \in owed : kid[k] # "none"

WalksInv == Shapes /\ Held /\ Buried /\ Walked

LEMMA InitWalks == Init => WalksInv
<1> SUFFICES ASSUME Init PROVE WalksInv
  OBVIOUS
<1>1. \A w \in Walkers : job[w] = Idle /\ DOMAIN Idle = {"at", "todo", "kids"}
  BY DEF Init, Idle
<1>2. Idle.kids = {} /\ Idle.at = "idle"
  BY DEF Idle
<1>3. Shapes
  BY <1>1 DEF Init, Shapes, States
<1> QED BY <1>1, <1>2, <1>3 DEF Init, WalksInv, Held, Buried, Walked

(* The walker goes on to its next parent with nothing in hand. *)
LEMMA OnwardHeld ==
  ASSUME NEW j
  PROVE  /\ Onward(j).kids = {} /\ Onward(j).at \in {"idle", "ask"}
         /\ DOMAIN Onward(j) = {"at", "todo", "kids"}
  BY DEF Onward, Idle

(* A step that changes no row, and of the walkers only what is given.      *)
LEMMA QuietWalks ==
  ASSUME WalksInv, UNCHANGED <<kid, parent, hurt>>, born \subseteq born',
         \A k \in has' : k \in has \/ k \notin born, has' \subseteq born', has' \subseteq Kids,
         owed' \subseteq owed, DOMAIN job' = Walkers,
         \A w \in Walkers :
           /\ DOMAIN job'[w] = {"at", "todo", "kids"}
           /\ job'[w].kids \subseteq born' /\ job'[w].kids \subseteq Kids
           /\ job'[w].at = "deleted" => job'[w].kids \cap has' = {}
  PROVE  WalksInv'
<1>1. Shapes'
  BY DEF WalksInv, Shapes
<1>2. Buried'
  BY DEF WalksInv, Buried
<1> QED BY <1>1, <1>2 DEF WalksInv, Held, Walked

(* The walkers as they were, while ids are only used once. *)
LEMMA SameJobs ==
  ASSUME WalksInv, UNCHANGED job, born \subseteq born',
         \A k \in has' : k \in has \/ k \notin born
  PROVE  /\ DOMAIN job' = Walkers
         /\ \A w \in Walkers :
              /\ DOMAIN job'[w] = {"at", "todo", "kids"}
              /\ job'[w].kids \subseteq born' /\ job'[w].kids \subseteq Kids
              /\ job'[w].at = "deleted" => job'[w].kids \cap has' = {}
  BY DEF WalksInv, Shapes, Held

(* One walker with something new in hand. *)
LEMMA OtherJobs ==
  ASSUME WalksInv, NEW w \in Walkers, NEW j, job' = [job EXCEPT ![w] = j],
         DOMAIN j = {"at", "todo", "kids"}, born \subseteq born',
         \A k \in has' : k \in has \/ k \notin born,
         j.kids \subseteq born', j.kids \subseteq Kids,
         j.at = "deleted" => j.kids \cap has' = {}
  PROVE  /\ DOMAIN job' = Walkers
         /\ \A x \in Walkers :
              /\ DOMAIN job'[x] = {"at", "todo", "kids"}
              /\ job'[x].kids \subseteq born' /\ job'[x].kids \subseteq Kids
              /\ job'[x].at = "deleted" => job'[x].kids \cap has' = {}
<1>1. job'[w] = j /\ DOMAIN job' = Walkers /\ \A x \in Walkers \ {w} : job'[x] = job[x]
  BY DEF WalksInv, Shapes
<1>2. \A x \in Walkers \ {w} : /\ DOMAIN job[x] = {"at", "todo", "kids"}
                               /\ job[x].kids \subseteq born /\ job[x].kids \subseteq Kids
                               /\ job[x].at = "deleted" => job[x].kids \cap has = {}
  BY DEF WalksInv, Shapes, Held
<1>3. ASSUME NEW x \in Walkers
      PROVE  /\ DOMAIN job'[x] = {"at", "todo", "kids"}
             /\ job'[x].kids \subseteq born' /\ job'[x].kids \subseteq Kids
             /\ job'[x].at = "deleted" => job'[x].kids \cap has' = {}
  <2>1. CASE x = w
    BY <1>1, <2>1
  <2>2. CASE x # w
    BY <1>1, <1>2, <2>2
  <2> QED BY <2>1, <2>2
<1> QED BY <1>1, <1>3

LEMMA BeginWalks ==
  ASSUME WalksInv, RoundStep \/ \E p \in Parents : Read(p) PROVE WalksInv'
<1>1. UNCHANGED <<exists, has, born, kid, parent, owed, hurt>>
  BY DEF RoundStep, Read, upstream, ledger
<1>2. has \subseteq born /\ has \subseteq Kids
  BY DEF WalksInv, Shapes
<1>3. \/ job' = job
      \/ \E w \in Walkers : \E todo : job' = [job EXCEPT ![w] = [Idle EXCEPT !.at = "ask", !.todo = todo]]
  BY DEF RoundStep, Read, Walkers
<1>4. CASE job' = job
  BY <1>1, <1>2, <1>4, SameJobs, QuietWalks
<1>5. ASSUME NEW w \in Walkers, NEW todo,
             job' = [job EXCEPT ![w] = [Idle EXCEPT !.at = "ask", !.todo = todo]]
      PROVE  WalksInv'
  <2> DEFINE j == [Idle EXCEPT !.at = "ask", !.todo = todo]
  <2>1. DOMAIN j = {"at", "todo", "kids"} /\ j.kids = {} /\ j.at = "ask"
    BY DEF Idle
  <2> HIDE DEF j
  <2>2. job' = [job EXCEPT ![w] = j]
    BY <1>5 DEF j
  <2> QED BY <1>1, <1>2, <2>1, <2>2, OtherJobs, QuietWalks
<1> QED BY <1>3, <1>4, <1>5

LEMMA AskWalks == ASSUME WalksInv, NEW w \in Walkers, Ask(w) PROVE WalksInv'
<1> DEFINE p == Head(job[w].todo)
           j == [job[w] EXCEPT !.at = IF p \in exists THEN "answered" ELSE "missing",
                               !.kids = has \cap Under(p)]
<1>1. UNCHANGED <<has, born, kid, parent, owed, hurt>> /\ job' = [job EXCEPT ![w] = j]
  BY DEF Ask, upstream, ledger, WalksInv, Shapes
<1>2. has \subseteq born /\ has \subseteq Kids /\ DOMAIN job[w] = {"at", "todo", "kids"}
  BY DEF WalksInv, Shapes
<1>3. DOMAIN j = {"at", "todo", "kids"} /\ j.kids \subseteq has /\ j.at # "deleted"
  BY <1>2
<1> HIDE DEF j
<1> QED BY <1>1, <1>2, <1>3, OtherJobs, QuietWalks

LEMMA FailedWalks == ASSUME WalksInv, NEW w \in Walkers, Failed(w) PROVE WalksInv'
<1>1. /\ UNCHANGED <<has, born, kid, parent, owed, hurt>>
      /\ job' = [job EXCEPT ![w] = Onward(job[w])]
  BY DEF Failed, upstream, ledger, WalksInv, Shapes
<1>2. has \subseteq born /\ has \subseteq Kids
  BY DEF WalksInv, Shapes
<1>3. Onward(job[w]).kids = {} /\ Onward(job[w]).at # "deleted"
      /\ DOMAIN Onward(job[w]) = {"at", "todo", "kids"}
  BY OnwardHeld
<1> QED BY <1>1, <1>2, <1>3, OtherJobs, QuietWalks

(* The answer lands: what it lacks is buried, by mistake if PCO has it by  *)
(* now; what it names is known from here on.                               *)
LEMMA LandWalks == ASSUME WalksInv, NEW w \in Walkers, Land(w) PROVE WalksInv'
<1> DEFINE p == Head(job[w].todo)
           gone == Stale(p, job[w].kids)
<1>1. /\ UNCHANGED <<has, born, parent>>
      /\ kid' = [k \in Kids |-> IF k \in gone THEN "destroyed"
                                ELSE IF k \in job[w].kids /\ kid[k] = "none" THEN "live"
                                ELSE kid[k]]
      /\ hurt' = hurt \cup (gone \cap has)
      /\ owed' = (owed \ Under(p)) \cup job[w].kids
      /\ job' = [job EXCEPT ![w] = Onward(job[w])]
  BY DEF Land, Recorded, upstream, WalksInv, Shapes
<1>2. /\ has \subseteq born /\ has \subseteq Kids /\ kid \in [Kids -> States]
      /\ job[w].kids \subseteq born /\ job[w].kids \subseteq Kids
      /\ \A k \in gone : k \in Kids /\ kid[k] = "live"
  BY DEF WalksInv, Shapes, Held, Stale, Under
<1> HIDE DEF gone
<1>3. Onward(job[w]).kids = {} /\ Onward(job[w]).at # "deleted"
      /\ DOMAIN Onward(job[w]) = {"at", "todo", "kids"}
  BY OnwardHeld
<1>4. Shapes' /\ Held'
  <2>1. kid' \in [Kids -> States] /\ owed' \subseteq Kids
    BY <1>1, <1>2 DEF WalksInv, Shapes, States
  <2> QED BY <1>1, <1>2, <1>3, <2>1, OtherJobs DEF WalksInv, Shapes, Held
<1>5. Buried'
  BY <1>1, <1>2 DEF WalksInv, Buried
<1>6. Walked'
  BY <1>1, <1>2 DEF WalksInv, Walked, Shapes
<1> QED BY <1>4, <1>5, <1>6 DEF WalksInv

LEMMA MissingWalks == ASSUME WalksInv, NEW w \in Walkers, LandMissing(w) PROVE WalksInv'
<1> DEFINE p == Head(job[w].todo)
<1>1. /\ UNCHANGED <<has, born, hurt>> /\ owed' = (owed \ Under(p)) \cup {}
      /\ job' = [job EXCEPT ![w] = Onward(job[w])]
      /\ \/ /\ parent' = [parent EXCEPT ![p] = "dead"]
            /\ kid' = [k \in Kids |-> IF k[1] = p /\ kid[k] = "live" THEN "owner_deleted"
                                      ELSE kid[k]]
         \/ UNCHANGED <<parent, kid>>
  BY DEF LandMissing, Recorded, upstream, WalksInv, Shapes
<1> HIDE DEF p
<1>2. /\ has \subseteq born /\ has \subseteq Kids /\ kid \in [Kids -> States]
      /\ parent \in [Parents -> {"none", "live", "dead"}]
      /\ \A k \in Kids : k[1] \in Parents
  BY WalksAssumption DEF WalksInv, Shapes
<1>3. Onward(job[w]).kids = {} /\ Onward(job[w]).at # "deleted"
      /\ DOMAIN Onward(job[w]) = {"at", "todo", "kids"}
  BY OnwardHeld
<1>4. Shapes' /\ Held'
  <2>1. kid' \in [Kids -> States] /\ parent' \in [Parents -> {"none", "live", "dead"}]
    BY <1>1, <1>2 DEF States
  <2> QED BY <1>1, <1>2, <1>3, <2>1, OtherJobs DEF WalksInv, Shapes, Held
<1>5. Buried'
  BY <1>1, <1>2 DEF WalksInv, Buried
<1>6. Walked'
  BY <1>1, <1>2 DEF WalksInv, Walked, Shapes
<1> QED BY <1>4, <1>5, <1>6 DEF WalksInv

LEMMA RecordWalks == ASSUME WalksInv, Record PROVE WalksInv'
<1> DEFINE j == [job["web"] EXCEPT !.at = "ask", !.kids = {}]
<1>1. /\ UNCHANGED <<has, born, parent, owed, hurt>> /\ job' = [job EXCEPT !["web"] = j]
      /\ \/ kid' = [k \in Kids |->
                     IF k \notin job["web"].kids THEN kid[k]
                     ELSE IF job["web"].at = "posted" /\ kid[k] = "none" THEN "live"
                     ELSE IF job["web"].at = "deleted" /\ kid[k] # "none" THEN "destroyed"
                     ELSE kid[k]]
         \/ UNCHANGED kid
  BY DEF Record, upstream, ledger, WalksInv, Shapes
<1>2. /\ has \subseteq born /\ has \subseteq Kids /\ kid \in [Kids -> States]
      /\ "web" \in Walkers /\ DOMAIN job["web"] = {"at", "todo", "kids"}
      /\ job["web"].kids \subseteq born /\ job["web"].kids \subseteq Kids
      /\ job["web"].at = "deleted" => job["web"].kids \cap has = {}
  BY DEF WalksInv, Shapes, Held, Walkers
<1>3. DOMAIN j = {"at", "todo", "kids"} /\ j.kids = {} /\ j.at = "ask"
  BY <1>2
<1> HIDE DEF j
<1>4. Shapes' /\ Held'
  <2>1. kid' \in [Kids -> States]
    BY <1>1, <1>2 DEF States
  <2> QED BY <1>1, <1>2, <1>3, <2>1, OtherJobs DEF WalksInv, Shapes, Held
<1>5. Buried'
  BY <1>1, <1>2 DEF WalksInv, Buried
<1>6. Walked'
  BY <1>1, <1>2 DEF WalksInv, Walked, Shapes
<1> QED BY <1>4, <1>5, <1>6 DEF WalksInv

LEMMA UpstreamWalks ==
  ASSUME WalksInv, NEW k \in Kids,
         Write(k) \/ PcoAdd(k) \/ PcoRemove(k) PROVE WalksInv'
<1>1. /\ UNCHANGED <<kid, parent, owed, hurt>> /\ born \subseteq born'
      /\ \A x \in has' : x \in has \/ x \notin born
      /\ has' \subseteq born' /\ has' \subseteq Kids
  BY DEF Write, PcoAdd, PcoRemove, Added, Removed, ledger, WalksInv, Shapes
<1>2. CASE UNCHANGED job
  BY <1>1, <1>2, SameJobs, QuietWalks
<1>3. ASSUME NEW at \in {"posted", "deleted"}, k \in born', at = "deleted" => k \notin has',
             job' = [job EXCEPT !["web"] = [at |-> at, todo |-> <<k[1]>>, kids |-> {k}]]
      PROVE  WalksInv'
  <2> DEFINE j == [at |-> at, todo |-> <<k[1]>>, kids |-> {k}]
  <2>1. /\ DOMAIN j = {"at", "todo", "kids"} /\ j.kids = {k} /\ j.at = at
        /\ job' = [job EXCEPT !["web"] = j] /\ "web" \in Walkers
    BY <1>3 DEF Walkers
  <2> HIDE DEF j
  <2>2. /\ j.kids \subseteq born' /\ j.kids \subseteq Kids
        /\ j.at = "deleted" => j.kids \cap has' = {}
    BY <1>3, <2>1
  <2>3. /\ DOMAIN job' = Walkers
        /\ \A x \in Walkers :
             /\ DOMAIN job'[x] = {"at", "todo", "kids"}
             /\ job'[x].kids \subseteq born' /\ job'[x].kids \subseteq Kids
             /\ job'[x].at = "deleted" => job'[x].kids \cap has' = {}
    BY <1>1, <2>1, <2>2, OtherJobs
  <2> QED BY <1>1, <2>3, QuietWalks
<1>4. CASE Added(k) /\ job' = [job EXCEPT !["web"] =
                                 [at |-> "posted", todo |-> <<k[1]>>, kids |-> {k}]]
  <2>1. k \in born'
    BY <1>4 DEF Added
  <2> QED BY <1>3, <1>4, <2>1
<1>5. CASE Removed(k) /\ job' = [job EXCEPT !["web"] =
                                   [at |-> "deleted", todo |-> <<k[1]>>, kids |-> {k}]]
  <2>1. k \in born' /\ k \notin has'
    BY <1>1, <1>5 DEF Removed, WalksInv, Shapes
  <2> QED BY <1>3, <1>5, <2>1
<1> QED BY <1>2, <1>4, <1>5 DEF Write, PcoAdd, PcoRemove

LEMMA ElsewhereWalks ==
  ASSUME WalksInv, Crash \/ (\E p \in Parents : Forget(p) \/ PcoDestroy(p)) \/ UNCHANGED vars
  PROVE  WalksInv'
<1>1. /\ UNCHANGED <<kid, parent, owed, hurt, born>> /\ has' \subseteq has
      /\ has' \subseteq born' /\ has' \subseteq Kids
  BY DEF Crash, Forget, PcoDestroy, upstream, ledger, vars, WalksInv, Shapes
<1>2. CASE UNCHANGED job
  BY <1>1, <1>2, SameJobs, QuietWalks
<1>3. CASE job' = [w \in Walkers |-> Idle]
  <2>1. Idle.kids = {} /\ Idle.at = "idle" /\ DOMAIN Idle = {"at", "todo", "kids"}
    BY DEF Idle
  <2> QED BY <1>1, <1>3, <2>1, QuietWalks
<1> QED BY <1>2, <1>3 DEF Crash, Forget, PcoDestroy, vars

LEMMA StepWalks == WalksInv /\ [Next]_vars => WalksInv'
<1> SUFFICES ASSUME WalksInv, [Next]_vars PROVE WalksInv'
  OBVIOUS
<1> QED BY BeginWalks, AskWalks, FailedWalks, LandWalks, MissingWalks, RecordWalks,
           UpstreamWalks, ElsewhereWalks DEF Next, WalkStep

(* Whatever the two walkers, PCO, refreshes and restarts do between one    *)
(* another's steps, a parent in the ledger shows every child it had when   *)
(* it was last walked and still has, those buried by mistake apart.        *)
THEOREM LedgerIsWhole == Spec => []WalkedIsWhole
<1>1. WalksInv => WalkedIsWhole
  <2> SUFFICES ASSUME WalksInv, NEW k \in owed \cap has, parent[k[1]] = "live"
               PROVE  kid[k] = "live" \/ k \in hurt
    BY DEF WalkedIsWhole
  <2>1. k \in Kids /\ kid[k] \in States /\ kid[k] # "none" /\ kid[k] # "owner_deleted"
    BY DEF WalksInv, Shapes, Walked, Buried
  <2> QED BY <2>1 DEF WalksInv, Buried, States
<1> QED BY <1>1, InitWalks, StepWalks, PTL DEF Spec
=============================================================================
