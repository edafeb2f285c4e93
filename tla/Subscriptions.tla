---------------------------- MODULE Subscriptions ----------------------------
(***************************************************************************)
(* Who owns the list of webhook subscriptions (webhooks.py, cli.py,        *)
(* admin.py, db.py): the environment, whose list every start applies, or   *)
(* the operator's page, once it has saved something.  The command line     *)
(* writes to the list without a say in who owns it.  Every statement       *)
(* commits on its own, and the process may die between any two.  The first *)
(* start may find a table of the shape that shared no receiver URL, and    *)
(* rebuilds it.                                                            *)
(*                                                                         *)
(* A subscription's id is a pair: 0 and a number for one that PCO issued,  *)
(* the token and the event for one the page derives, minus the number (a   *)
(* negative one stays apart from tokens) and the event for one the command *)
(* line derives.  Its event and secret are one `content'.  There is one    *)
(* operator, who does one thing at a time.                                 *)
(*                                                                         *)
(* An operator named Mut... is a deliberately wrong variant of the one it  *)
(* precedes; nothing uses it but the checks that a property notices.       *)
(***************************************************************************)
EXTENDS Integers, Sequences, SequencesExt, FiniteSets

CONSTANTS
  Numbers,     \* of the ids PCO issued
  Contents,    \* events, each with a secret
  Chosen,      \* tokens somebody may choose
  Lists,       \* what PCOMIRROR_SUBSCRIPTIONS may be, or be pasted: upserts
  MaxActs,     \* bound on the operator's actions
  MaxCrashes,  \* bound on crashes
  TornRebuild, \* the process may die while it rebuilds the table
  Readds       \* what is there may be added with the token left blank: on the
               \* page, or on the command line where it has several tokens

None == 0                       \* no token given
Mintable == 101 .. 100 + MaxActs + MaxCrashes + Cardinality(Numbers) + 1
Tokens == Chosen \cup Mintable
Ids == ({0} \X Numbers) \cup ((Tokens \cup {-n : n \in Numbers}) \X Contents)
Row == [content : Contents, token : Tokens, managed : {"env", "admin"}, active : BOOLEAN]
Upsert == [id : Ids, content : Contents, token : Tokens \cup {None}, asked : BOOLEAN]

SubscriptionsAssumption ==
  /\ Numbers \subseteq Nat \ {0} /\ IsFiniteSet(Numbers) /\ IsFiniteSet(Contents)
  /\ Chosen \subseteq 1 .. 100 /\ {MaxActs, MaxCrashes} \subseteq Nat
  /\ {TornRebuild, Readds} \subseteq BOOLEAN
  /\ Lists \subseteq Seq(Upsert)
  /\ \A list \in Lists : \A i \in DOMAIN list : list[i].asked = (list[i].token # None)

VARIABLES
  at,       \* what the process is at
  shape,    \* of webhook_subscription: "old", "new", or "missing"
  table,    \* its rows, by id
  aside,    \* webhook_subscription_old, while it is there
  override, \* OVERRIDE_KEY is set
  todo,     \* upserts of the step under way
  minted,   \* tokens minted so far
  url,      \* history: the address PCO was given for a subscription
  saved,    \* history: the tables the operator may find, once answered
  budget    \* what is left of the bounds

vars == <<at, shape, table, aside, override, todo, minted, url, saved, budget>>

Empty == [id \in {} |-> <<>>]
Put(f, k, v) == [x \in DOMAIN f \cup {k} |-> IF x = k THEN v ELSE f[x]]
Without(f, k) == [x \in DOMAIN f \ {k} |-> f[x]]

Places == {"down", "create", "rename", "recreate", "copy", "drop", "env", "upsert",
           "serving", "page", "takeover", "cli"}

TypeOK ==
  /\ at \in Places /\ shape \in {"old", "new", "missing"} /\ override \in BOOLEAN
  /\ DOMAIN table \subseteq Ids /\ \A id \in DOMAIN table : table[id] \in Row
  /\ DOMAIN aside \subseteq Ids /\ shape = "missing" => table = Empty
  /\ todo \in Seq(Upsert) /\ minted \in 0 .. Cardinality(Mintable)
  /\ DOMAIN url \subseteq Ids /\ \A id \in DOMAIN url : url[id] \in Tokens
  /\ Cardinality(saved) <= 1
  /\ budget \in [acts : 0 .. MaxActs, crashes : 0 .. MaxCrashes]

(* A table of the old shape has a token for each row; PCO knows them all.  *)
Init ==
  /\ at = "down" /\ shape \in {"old", "new", "missing"}
  /\ table \in {Empty} \cup
       {[id \in some |-> [content |-> c, token |-> 101, managed |-> "env", active |-> TRUE]] :
          some \in {{<<0, n>>} : n \in Numbers}, c \in Contents}
  /\ shape = "missing" => table = Empty
  /\ aside = Empty /\ override = FALSE /\ todo = <<>>
  /\ minted = 1 /\ url = [id \in DOMAIN table |-> table[id].token] /\ saved = {}
  /\ budget = [acts |-> MaxActs, crashes |-> MaxCrashes]

Spend(what) == budget[what] > 0 /\ budget' = [budget EXCEPT ![what] = @ - 1]
To(place) == at' = place

-----------------------------------------------------------------------------
(* The schema, at every start. *)

(* CREATE TABLE IF NOT EXISTS, and the index that tells the old shape.     *)
Create ==
  /\ at = "down"
  /\ shape' = (IF shape = "missing" THEN "new" ELSE shape)
  /\ To(IF shape = "old" THEN "rename" ELSE "env")
  /\ UNCHANGED <<table, aside, override, todo, minted, url, saved, budget>>

Rename ==
  /\ at = "rename" /\ aside' = table /\ table' = Empty /\ shape' = "missing"
  /\ To("recreate")
  /\ UNCHANGED <<override, todo, minted, url, saved, budget>>

Recreate ==
  /\ at = "recreate" /\ shape' = "new" /\ To("copy")
  /\ UNCHANGED <<table, aside, override, todo, minted, url, saved, budget>>

Copy ==
  /\ at = "copy" /\ table' = aside /\ To("drop")
  /\ UNCHANGED <<shape, aside, override, todo, minted, url, saved, budget>>

Drop ==
  /\ at = "drop" /\ aside' = Empty /\ To("env")
  /\ UNCHANGED <<shape, table, override, todo, minted, url, saved, budget>>

-----------------------------------------------------------------------------
(* The environment's list. *)

MutAuthoritative == TRUE

Authoritative == ~override

ApplyEnv ==
  /\ at = "env"
  /\ \E list \in Lists : todo' = IF Authoritative THEN list ELSE <<>>
  /\ To("upsert")
  /\ UNCHANGED <<shape, table, aside, override, minted, url, saved, budget>>

MutToken(u) == IF u.token # None THEN u.token ELSE 101 + minted

(* A row keeps its token unless another is given; a new row mints one.     *)
Token(u) ==
  IF u.token # None THEN u.token
  ELSE IF u.id \in DOMAIN table THEN table[u.id].token
  ELSE 101 + minted

(* The next upsert of the list, which also makes the row active again.     *)
Upserted(managed) ==
  /\ todo # <<>>
  /\ LET u == Head(todo)
         t == Token(u)
     IN  /\ table' = Put(table, u.id, [content |-> u.content, token |-> t,
                                       managed |-> managed, active |-> TRUE])
         /\ minted' = IF t = 101 + minted THEN minted + 1 ELSE minted
         /\ url' = IF u.asked \/ u.id \notin DOMAIN url THEN Put(url, u.id, t) ELSE url
  /\ todo' = Tail(todo)
  /\ UNCHANGED <<at, shape, aside, override, saved, budget>>

EnvUpsert == at = "upsert" /\ Upserted("env")

Serve ==
  /\ at = "upsert" /\ todo = <<>> /\ To("serving")
  /\ UNCHANGED <<shape, table, aside, override, todo, minted, url, saved, budget>>

-----------------------------------------------------------------------------
(* The operator's page. *)

Asked ==
  /\ at = "serving" /\ Spend("acts") /\ saved' = {}
  /\ UNCHANGED <<shape, aside>>

(* One receiver for the events ticked, whose token is settled first.  Only *)
(* a single event may have the id the operator gives.                      *)
Add ==
  /\ Asked
  /\ \E given \in Numbers \cup {None}, chosen \in Chosen \cup {None},
        ticked \in (SUBSET Contents) \ {{}} :
       LET t == IF chosen # None THEN chosen ELSE 101 + minted
           id(c) == IF given # None /\ Cardinality(ticked) = 1 THEN <<0, given>> ELSE <<t, c>>
       IN  /\ minted' = IF chosen # None THEN minted ELSE minted + 1
           /\ todo' = SetToSeq({[id |-> id(c), content |-> c, token |-> t, asked |-> chosen # None] : c \in ticked})
           /\ Readds \/ chosen # None \/ \A c \in ticked : id(c) \notin DOMAIN table
  /\ To("page") /\ UNCHANGED <<table, override, url>>

Import ==
  /\ Asked /\ (\E list \in Lists : list # <<>> /\ todo' = list)
  /\ To("page") /\ UNCHANGED <<table, override, minted, url>>

PageUpsert == at = "page" /\ Upserted("admin")

Forget ==
  /\ Asked
  /\ \E id \in DOMAIN table : table' = Without(table, id) /\ url' = Without(url, id)
  /\ To("takeover") /\ UNCHANGED <<override, todo, minted>>

Toggle ==
  /\ Asked
  /\ \E id \in DOMAIN table, on \in BOOLEAN : table' = [table EXCEPT ![id].active = on]
  /\ To("takeover") /\ UNCHANGED <<override, todo, minted, url>>

(* The command line settles a token first, that of a row it is about to    *)
(* write if there is one; and it leaves the list whose it was.             *)
CliAdd ==
  /\ Asked
  /\ \E n \in Numbers, chosen \in Chosen \cup {None}, named \in (SUBSET Contents) \ {{}} :
       LET id(c) == IF Cardinality(named) = 1 THEN <<0, n>> ELSE <<-n, c>>
           held == {table[id(c)].token : c \in {c \in named : id(c) \in DOMAIN table}}
       IN  \E t \in (IF chosen # None THEN {chosen} ELSE IF held # {} THEN held ELSE {101 + minted}) :
             /\ minted' = IF t = 101 + minted THEN minted + 1 ELSE minted
             /\ todo' = SetToSeq({[id |-> id(c), content |-> c, token |-> t, asked |-> chosen # None] : c \in named})
             /\ Readds \/ chosen # None \/ held \subseteq {t}
  /\ To("cli") /\ UNCHANGED <<table, override, url>>

CliUpsert == at = "cli" /\ Upserted("admin")

CliRemove ==
  /\ Asked
  /\ \E id \in DOMAIN table : table' = Without(table, id) /\ url' = Without(url, id)
  /\ UNCHANGED <<at, override, todo, minted>>

CliDone ==
  /\ at = "cli" /\ todo = <<>> /\ To("serving")
  /\ UNCHANGED <<shape, table, aside, override, todo, minted, url, saved, budget>>

(* The list is handed back, and the next start applies the environment's.  *)
HandBack ==
  /\ Asked /\ override' = FALSE
  /\ UNCHANGED <<at, table, todo, minted, url>>

(* Last, the page takes the list over, and answers.  (Taking it over is    *)
(* also an action of its own.)                                             *)
TakeOver ==
  /\ \/ at = "takeover" /\ UNCHANGED budget
     \/ at = "page" /\ todo = <<>> /\ UNCHANGED budget
     \/ at = "serving" /\ Spend("acts")
  /\ override' = TRUE /\ saved' = {table} /\ To("serving")
  /\ UNCHANGED <<shape, table, aside, todo, minted, url>>

(* Rebuilding is not atomic, and a start that finds the new shape leaves   *)
(* webhook_subscription_old alone.                                         *)
Crash ==
  /\ at # "down" /\ Spend("crashes")
  /\ TornRebuild \/ at \notin {"recreate", "copy"}
  /\ To("down") /\ todo' = <<>>
  /\ UNCHANGED <<shape, table, aside, override, minted, url, saved>>

Next ==
  \/ Create \/ Rename \/ Recreate \/ Copy \/ Drop \/ ApplyEnv \/ EnvUpsert \/ Serve
  \/ Add \/ Import \/ PageUpsert \/ Forget \/ Toggle
  \/ CliAdd \/ CliUpsert \/ CliRemove \/ CliDone \/ HandBack \/ TakeOver \/ Crash

Spec == Init /\ [][Next]_vars

-----------------------------------------------------------------------------
(* Once the page has said "Saved", no start undoes or revives anything     *)
(* until the operator acts again (env_is_authoritative).                   *)
SavedStays == at = "serving" => saved \subseteq {table}

(* The address PCO was given never changes underneath it, through starts,  *)
(* lists and crashes, unless another token was asked for or the            *)
(* subscription was removed (upsert_subscription).                         *)
UrlKept ==
  at = "serving" => \A id \in DOMAIN url : id \in DOMAIN table /\ table[id].token = url[id]
=============================================================================
