---------------------------- MODULE ServiceProofs ----------------------------
(***************************************************************************)
(* Theorems about the five parts of Service, each for every value of its   *)
(* constants.  A behaviour of Service is one of a single part: no step     *)
(* changes `part', and every step of a part is one of its module's.        *)
(***************************************************************************)
EXTENDS Service, FiniteSetTheorems, TLAPS

-----------------------------------------------------------------------------
(* Subscriptions. *)

LEMMA SubscriptionsStep ==
  ASSUME part = "subscriptions", [Next]_vars
  PROVE  part' = "subscriptions" /\ [S!Next]_subscriptionsVars
<1>1. CASE UNCHANGED vars
  BY <1>1 DEF vars
<1>2. CASE Next
  <2>1. SubscriptionsOnly
    BY <1>2 DEF Next, ReadingOnly, VerdictsOnly, DivergenceOnly, SubscriptionsOnly, CorsOnly
  <2> QED BY <1>2, <2>1 DEF Next, ReadingOnly, VerdictsOnly, DivergenceOnly,
             SubscriptionsOnly, CorsOnly, S!Next
<1> QED BY <1>1, <1>2

(* What was saved stays: the table is the one that was answered with, the  *)
(* page owns it, and a start that got past the environment's list got      *)
(* nothing from it.                                                        *)
Answered ==
  \/ sSaved = {}
  \/ /\ sSaved = {sTable} /\ sOverride /\ sShape = "new"
     /\ sAt \in {"down", "env", "upsert", "serving"}
     /\ sAt = "upsert" => sTodo = <<>>

SavedInv ==
  /\ sShape \in {"old", "new", "missing"}
  /\ sAt \in {"copy", "drop", "env", "upsert", "serving", "page", "takeover", "cli"} => sShape = "new"
  /\ Answered

LEMMA SavedStep ==
  ASSUME SavedInv, [S!Next]_subscriptionsVars PROVE SavedInv'
<1> USE DEF SavedInv, Answered
<1>1. CASE UNCHANGED subscriptionsVars
  BY <1>1 DEF subscriptionsVars
<1>2. CASE S!Create \/ S!Rename \/ S!Recreate \/ S!Copy \/ S!Drop
  BY <1>2 DEF S!Create, S!Rename, S!Recreate, S!Copy, S!Drop, S!To
<1>3. CASE S!ApplyEnv \/ S!Serve
  BY <1>3 DEF S!ApplyEnv, S!Serve, S!Authoritative, S!To
<1>4. CASE S!EnvUpsert \/ S!PageUpsert \/ S!CliUpsert
  BY <1>4 DEF S!EnvUpsert, S!PageUpsert, S!CliUpsert, S!Upserted
<1>5. CASE S!Add \/ S!Import \/ S!Forget \/ S!Toggle \/ S!CliAdd \/ S!CliRemove \/ S!HandBack
  BY <1>5 DEF S!Add, S!Import, S!Forget, S!Toggle, S!CliAdd, S!CliRemove, S!HandBack,
     S!Asked, S!To
<1>6. CASE S!CliDone \/ S!TakeOver
  BY <1>6 DEF S!CliDone, S!TakeOver, S!To
<1>7. CASE S!Crash
  BY <1>7 DEF S!Crash, S!To
<1> QED BY <1>1, <1>2, <1>3, <1>4, <1>5, <1>6, <1>7 DEF S!Next

(* Once the page has said "Saved", no start undoes or revives anything     *)
(* until the operator acts again: for every list the environment may hold, *)
(* and wherever the process dies.                                          *)
THEOREM NoStartUndoes == Spec => []SavedStays
<1> DEFINE Inv == part = "subscriptions" => SavedInv
<1>1. Init => Inv
  BY DEF Init, S!Init, SavedInv, Answered
<1>2. Inv /\ [Next]_vars => Inv'
  <2> SUFFICES ASSUME Inv, [Next]_vars, part' = "subscriptions" PROVE SavedInv'
    OBVIOUS
  <2>1. part = "subscriptions"
    BY DEF Next, vars, ReadingOnly, VerdictsOnly, DivergenceOnly, SubscriptionsOnly, CorsOnly
  <2> QED BY <2>1, SubscriptionsStep, SavedStep
<1>3. Inv => SavedStays
  BY DEF SavedInv, Answered, SavedStays, S!SavedStays
<1> QED BY <1>1, <1>2, <1>3, PTL DEF Spec

-----------------------------------------------------------------------------
(* Sequences made of finite sets. *)

(* The instance's operators on finite sets are those of FiniteSets.        *)
LEMMA SameFinite ==
  ASSUME NEW X
  PROVE  S!IsFiniteSet(X) = IsFiniteSet(X) /\ S!Cardinality(X) = Cardinality(X)
BY Zenon DEF S!IsFiniteSet, IsFiniteSet, S!Cardinality, Cardinality

LEMMA ImageFinite ==
  ASSUME NEW X, IsFiniteSet(X), NEW f, DOMAIN f = X
  PROVE  IsFiniteSet({f[x] : x \in X})
<1> DEFINE T == {f[x] : x \in X}
           g == [x \in X |-> f[x]]
<1>1. g \in Surjection(X, T)
  BY DEF Surjection
<1> QED BY <1>1, FS_Surjection

LEMMA SetToSeqIs ==
  ASSUME NEW T, IsFiniteSet(T)
  PROVE  S!SetToSeq(T) \in Seq(T)
<1>1. S!Cardinality(T) \in Nat /\ ExistsBijection(1 .. S!Cardinality(T), T)
  BY FS_CardinalityType, SameFinite
<1> DEFINE Orders == [1 .. S!Cardinality(T) -> T]
<1>2. \E f \in Orders : S!IsInjective(f)
  BY <1>1 DEF ExistsBijection, Bijection, Injection, IsInjective, S!IsInjective
<1>3. S!SetToSeq(T) = CHOOSE f \in Orders : S!IsInjective(f)
  BY Zenon DEF S!SetToSeq
<1>4. S!SetToSeq(T) \in Orders
  BY <1>2, <1>3, Zenon
<1> QED BY <1>1, <1>4

-----------------------------------------------------------------------------
(* The address PCO was given for a subscription stays that of its row.     *)

IsRow(r) == DOMAIN r = {"content", "token", "managed", "active"} /\ r.token \in Nat \ {0}

(* The rows are what PCO was told of them. *)
Told(rows) ==
  /\ \A id \in DOMAIN rows : IsRow(rows[id])
  /\ \A id \in DOMAIN sUrl : id \in DOMAIN rows /\ rows[id].token = sUrl[id]

(* What waits to be written gives a token only where one was asked for, or *)
(* gives one token to rows that have it or that PCO knows nothing of.      *)
Rightful ==
  \/ \A i \in DOMAIN sTodo : sTodo[i].asked \/ sTodo[i].token = 0
  \/ \E t \in Nat \ {0} : \A i \in DOMAIN sTodo :
       sTodo[i].token = t /\ (sTodo[i].id \in DOMAIN sUrl => sUrl[sTodo[i].id] = t)

UrlInv ==
  /\ sMinted \in Nat
  /\ \A id \in DOMAIN sTable : IsRow(sTable[id])
  /\ Told(IF sAt \in {"recreate", "copy"} THEN sAside ELSE sTable)
  /\ \E X : sTodo \in Seq(X)
  /\ \A i \in DOMAIN sTodo : sTodo[i].token \in Nat
  /\ Rightful

LEMMA UrlInit ==
  ASSUME S!Init PROVE UrlInv
<1>1. \A id \in DOMAIN sTable : IsRow(sTable[id])
  BY DEF S!Init, S!Empty, IsRow
<1>2. sUrl = [id \in DOMAIN sTable |-> sTable[id].token] /\ sTodo = <<>> /\ sMinted = 1
      /\ sAt = "down"
  BY DEF S!Init
<1>3. Told(sTable)
  BY <1>1, <1>2 DEF Told
<1>4. sTodo \in Seq({}) /\ DOMAIN sTodo = {}
  BY <1>2
<1> QED BY <1>1, <1>2, <1>3, <1>4 DEF UrlInv, Rightful

(* Steps that leave alone what PCO was told and what waits. *)
LEMMA UrlSame ==
  ASSUME UrlInv, UNCHANGED <<sTodo, sUrl, sMinted>>,
         \A id \in DOMAIN sTable' : IsRow(sTable'[id]),
         Told(IF sAt \in {"recreate", "copy"} THEN sAside ELSE sTable)'
  PROVE  UrlInv'
  BY DEF UrlInv, Rightful

(* A list that asks for the tokens it gives, or an empty one. *)
LEMMA UrlListed ==
  ASSUME S!SubscriptionsAssumption, UrlInv,
         UNCHANGED <<sUrl, sMinted, sTable, sAside>>,
         sAt \notin {"recreate", "copy"}, sAt' \notin {"recreate", "copy"},
         sTodo' = <<>> \/ sTodo' \in Lists
  PROVE  UrlInv'
<1>1. Told(sTable)'
  BY DEF UrlInv, Told
<1>2. CASE sTodo' = <<>>
  <2>1. sTodo' \in Seq({}) /\ DOMAIN sTodo' = {}
    BY <1>2
  <2> QED BY <1>1, <2>1 DEF UrlInv, Rightful
<1>3. CASE sTodo' \in Lists
  <2>1. sTodo' \in Seq(S!Upsert)
    BY <1>3 DEF S!SubscriptionsAssumption
  <2>2. \A i \in DOMAIN sTodo' : sTodo'[i].asked \/ sTodo'[i].token = 0
    BY <1>3 DEF S!SubscriptionsAssumption, S!None
  <2>3. \A i \in DOMAIN sTodo' : sTodo'[i].token \in Nat
    <3> TAKE i \in DOMAIN sTodo'
    <3>1. sTodo'[i] \in S!Upsert
      BY <2>1
    <3>2. Cardinality(Numbers) \in Nat /\ MaxActs \in Nat /\ MaxCrashes \in Nat
      BY FS_CardinalityType, SameFinite DEF S!SubscriptionsAssumption
    <3>3. S!Mintable \subseteq Nat
      BY <3>2, SameFinite DEF S!Mintable
    <3>4. S!Tokens \cup {S!None} \subseteq Nat
      BY <3>3 DEF S!Tokens, S!None, S!SubscriptionsAssumption
    <3> QED BY <3>1, <3>4 DEF S!Upsert
  <2> QED BY <1>1, <2>1, <2>2, <2>3 DEF UrlInv, Rightful
<1> QED BY <1>2, <1>3

(* One of the rows that wait is written.  It keeps the token of a row that *)
(* PCO knows of unless it was asked for another.                           *)
LEMMA UrlUpserted ==
  ASSUME UrlInv, NEW m, S!Upserted(m), sAt \notin {"recreate", "copy"}
  PROVE  UrlInv'
<1> DEFINE u == Head(sTodo)
           t == S!Token(u)
           row == [content |-> u.content, token |-> t, managed |-> m, active |-> TRUE]
<1>1. PICK X : sTodo \in Seq(X)
  BY DEF UrlInv
<1>2. sTodo # <<>> /\ sTodo' = Tail(sTodo) /\ UNCHANGED <<sAt, sAside>>
      /\ sTable' = S!Put(sTable, u.id, row)
      /\ sMinted' = (IF t = 101 + sMinted THEN sMinted + 1 ELSE sMinted)
      /\ sUrl' = (IF u.asked \/ u.id \notin DOMAIN sUrl THEN S!Put(sUrl, u.id, t) ELSE sUrl)
  BY DEF S!Upserted
<1>3. 1 \in DOMAIN sTodo /\ u = sTodo[1] /\ sTodo' \in Seq(X)
      /\ \A i \in DOMAIN sTodo' : i + 1 \in DOMAIN sTodo /\ sTodo'[i] = sTodo[i + 1]
  BY <1>1, <1>2
<1>4. Told(sTable) /\ (\A id \in DOMAIN sTable : IsRow(sTable[id])) /\ sMinted \in Nat
      /\ u.token \in Nat
  BY <1>3 DEF UrlInv
<1>5. t \in Nat \ {0}
  BY <1>4 DEF S!Token, S!None, IsRow
<1>6. IsRow(row) /\ row.token = t
  BY <1>5 DEF IsRow
<1>7. \A id \in DOMAIN sTable' : IsRow(sTable'[id])
  BY <1>2, <1>4, <1>6 DEF S!Put
<1>8. u.asked \/ u.id \notin DOMAIN sUrl \/ sUrl[u.id] = t
  <2>1. CASE \A i \in DOMAIN sTodo : sTodo[i].asked \/ sTodo[i].token = 0
    BY <2>1, <1>3, <1>4 DEF Told, S!Token, S!None
  <2>2. CASE \E k \in Nat \ {0} : \A i \in DOMAIN sTodo :
               sTodo[i].token = k /\ (sTodo[i].id \in DOMAIN sUrl => sUrl[sTodo[i].id] = k)
    BY <2>2, <1>3 DEF S!Token, S!None
  <2> QED BY <2>1, <2>2 DEF UrlInv, Rightful
<1>9. Told(sTable)'
  <2> SUFFICES ASSUME NEW id \in DOMAIN sUrl'
               PROVE  id \in DOMAIN sTable' /\ sTable'[id].token = sUrl'[id]
    BY <1>7 DEF Told
  <2>1. CASE id = u.id
    BY <2>1, <1>2, <1>6, <1>8 DEF S!Put
  <2>2. CASE id # u.id
    BY <2>2, <1>2, <1>4 DEF S!Put, Told
  <2> QED BY <2>1, <2>2
<1>10. Rightful'
  <2>1. CASE \A i \in DOMAIN sTodo : sTodo[i].asked \/ sTodo[i].token = 0
    BY <2>1, <1>3 DEF Rightful
  <2>2. CASE \E k \in Nat \ {0} : \A i \in DOMAIN sTodo :
               sTodo[i].token = k /\ (sTodo[i].id \in DOMAIN sUrl => sUrl[sTodo[i].id] = k)
    <3>1. PICK k \in Nat \ {0} : \A i \in DOMAIN sTodo :
               sTodo[i].token = k /\ (sTodo[i].id \in DOMAIN sUrl => sUrl[sTodo[i].id] = k)
      BY <2>2
    <3>2. t = k
      BY <3>1, <1>3 DEF S!Token, S!None
    <3>3. \A id \in DOMAIN sUrl' : (id \in DOMAIN sUrl => sUrl[id] = k) => sUrl'[id] = k
      BY <3>2, <1>2 DEF S!Put
    <3>4. \A i \in DOMAIN sTodo' :
            sTodo'[i].token = k /\ (sTodo'[i].id \in DOMAIN sUrl' => sUrl'[sTodo'[i].id] = k)
      BY <3>1, <3>3, <1>3
    <3> QED BY <3>4 DEF Rightful
  <2> QED BY <2>1, <2>2 DEF UrlInv, Rightful
<1>11. sMinted' \in Nat
  BY <1>2, <1>4
<1>12. \A i \in DOMAIN sTodo' : sTodo'[i].token \in Nat
  BY <1>3 DEF UrlInv
<1> QED BY <1>2, <1>3, <1>7, <1>9, <1>10, <1>11, <1>12 DEF UrlInv

(* A list made of one set of entries with one token: it was asked for, or  *)
(* PCO knows nothing of the rows, or they have it.                         *)
LEMMA UrlGiven ==
  ASSUME UrlInv, UNCHANGED <<sTable, sAside, sUrl>>, sMinted' \in Nat,
         sAt \notin {"recreate", "copy"}, sAt' \notin {"recreate", "copy"},
         NEW T, IsFiniteSet(T), sTodo' = S!SetToSeq(T), NEW t \in Nat \ {0},
         \A e \in T : e.token = t,
         \/ \A e \in T : e.asked
         \/ \A e \in T : e.id \in DOMAIN sUrl => sUrl[e.id] = t
  PROVE  UrlInv'
<1>1. sTodo' \in Seq(T)
  BY SetToSeqIs
<1>2. \A i \in DOMAIN sTodo' : sTodo'[i] \in T
  BY <1>1
<1>3. \A i \in DOMAIN sTodo' : sTodo'[i].token \in Nat
  BY <1>2
<1>4. Rightful'
  BY <1>2 DEF Rightful
<1>5. Told(sTable)'
  BY DEF UrlInv, Told
<1> QED BY <1>1, <1>3, <1>4, <1>5 DEF UrlInv

LEMMA UrlAdd ==
  ASSUME S!SubscriptionsAssumption, UrlInv, ~Readds, S!Add
  PROVE  UrlInv'
<1>1. sAt = "serving" /\ sAt' = "page" /\ UNCHANGED <<sTable, sAside, sUrl>>
  BY DEF S!Add, S!Asked, S!To
<1>2. PICK given \in Numbers \cup {S!None}, chosen \in Chosen \cup {S!None},
           ticked \in (SUBSET Contents) \ {{}} :
       LET t == IF chosen # S!None THEN chosen ELSE 101 + sMinted
           id(c) == IF given # S!None /\ S!Cardinality(ticked) = 1 THEN <<0, given>> ELSE <<t, c>>
       IN  /\ sMinted' = IF chosen # S!None THEN sMinted ELSE sMinted + 1
           /\ sTodo' = S!SetToSeq({[id |-> id(c), content |-> c, token |-> t,
                                     asked |-> chosen # S!None] : c \in ticked})
           /\ Readds \/ chosen # S!None \/ \A c \in ticked : id(c) \notin DOMAIN sTable
  BY DEF S!Add
<1> DEFINE t == IF chosen # S!None THEN chosen ELSE 101 + sMinted
           id(c) == IF given # S!None /\ S!Cardinality(ticked) = 1 THEN <<0, given>> ELSE <<t, c>>
           f == [c \in ticked |-> [id |-> id(c), content |-> c, token |-> t,
                                   asked |-> chosen # S!None]]
           T == {f[c] : c \in ticked}
<1>3. sTodo' = S!SetToSeq(T)
      /\ sMinted' = (IF chosen # S!None THEN sMinted ELSE sMinted + 1)
      /\ (chosen # S!None \/ \A c \in ticked : id(c) \notin DOMAIN sTable)
  BY <1>2
<1>4. IsFiniteSet(T)
  <2>1. IsFiniteSet(ticked)
    BY SameFinite, FS_Subset DEF S!SubscriptionsAssumption
  <2>2. DOMAIN f = ticked
    OBVIOUS
  <2> HIDE DEF f
  <2> QED BY <2>1, <2>2, ImageFinite
<1>5. sMinted \in Nat /\ t \in Nat \ {0}
  <2> HIDE DEF id, f, T
  <2>1. sMinted \in Nat
    BY DEF UrlInv
  <2>2. chosen # S!None => chosen \in Nat \ {0}
    BY DEF S!SubscriptionsAssumption
  <2> QED BY <2>1, <2>2
<1>6. \A e \in T : \E c \in ticked : e.token = t /\ e.id = id(c) /\ e.asked = (chosen # S!None)
  OBVIOUS
<1>7. DOMAIN sUrl \subseteq DOMAIN sTable
  BY <1>1 DEF UrlInv, Told
<1>8. (\A e \in T : e.asked) \/ (\A e \in T : e.id \in DOMAIN sUrl => sUrl[e.id] = t)
  <2>1. CASE chosen # S!None
    BY <2>1, <1>6
  <2>2. CASE \A c \in ticked : id(c) \notin DOMAIN sTable
    <3> HIDE DEF id, T, t
    <3> QED BY <2>2, <1>6, <1>7
  <2> QED BY <2>1, <2>2, <1>3
<1>9. sMinted' \in Nat /\ \A e \in T : e.token = t
  BY <1>3, <1>5, <1>6
<1> HIDE DEF t, id, f, T
<1> QED BY <1>1, <1>3, <1>4, <1>5, <1>8, <1>9, UrlGiven

LEMMA UrlCliAdd ==
  ASSUME S!SubscriptionsAssumption, UrlInv, ~Readds, S!CliAdd
  PROVE  UrlInv'
<1>1. sAt = "serving" /\ sAt' = "cli" /\ UNCHANGED <<sTable, sAside, sUrl>>
  BY DEF S!CliAdd, S!Asked, S!To
<1>2. PICK n \in Numbers, chosen \in Chosen \cup {S!None}, named \in (SUBSET Contents) \ {{}} :
       LET id(c) == IF S!Cardinality(named) = 1 THEN <<0, n>> ELSE <<-n, c>>
           held == {sTable[id(c)].token : c \in {c \in named : id(c) \in DOMAIN sTable}}
       IN  \E t \in (IF chosen # S!None THEN {chosen}
                     ELSE IF held # {} THEN held ELSE {101 + sMinted}) :
             /\ sMinted' = IF t = 101 + sMinted THEN sMinted + 1 ELSE sMinted
             /\ sTodo' = S!SetToSeq({[id |-> id(c), content |-> c, token |-> t,
                                       asked |-> chosen # S!None] : c \in named})
             /\ Readds \/ chosen # S!None \/ held \subseteq {t}
  BY DEF S!CliAdd
<1> DEFINE id(c) == IF S!Cardinality(named) = 1 THEN <<0, n>> ELSE <<-n, c>>
           held == {sTable[id(c)].token : c \in {c \in named : id(c) \in DOMAIN sTable}}
<1>3. PICK t \in (IF chosen # S!None THEN {chosen}
                  ELSE IF held # {} THEN held ELSE {101 + sMinted}) :
             /\ sMinted' = IF t = 101 + sMinted THEN sMinted + 1 ELSE sMinted
             /\ sTodo' = S!SetToSeq({[id |-> id(c), content |-> c, token |-> t,
                                       asked |-> chosen # S!None] : c \in named})
             /\ Readds \/ chosen # S!None \/ held \subseteq {t}
  BY <1>2
<1> DEFINE f == [c \in named |-> [id |-> id(c), content |-> c, token |-> t,
                                  asked |-> chosen # S!None]]
           T == {f[c] : c \in named}
<1>4. sTodo' = S!SetToSeq(T) /\ (chosen # S!None \/ held \subseteq {t})
  BY <1>3
<1>5. IsFiniteSet(T)
  <2>1. IsFiniteSet(named)
    BY SameFinite, FS_Subset DEF S!SubscriptionsAssumption
  <2>2. DOMAIN f = named
    OBVIOUS
  <2> HIDE DEF f
  <2> QED BY <2>1, <2>2, ImageFinite
<1>6. sMinted \in Nat /\ sMinted' \in Nat
  BY <1>3 DEF UrlInv
<1>7. held \subseteq Nat \ {0}
  BY DEF UrlInv, IsRow
<1>8. t \in Nat \ {0}
  <2>1. CASE chosen # S!None
    BY <2>1, <1>3 DEF S!SubscriptionsAssumption, S!None
  <2>2. CASE chosen = S!None /\ held # {}
    <3> HIDE DEF held
    <3> QED BY <2>2, <1>3, <1>7
  <2>3. CASE chosen = S!None /\ held = {}
    <3> HIDE DEF held
    <3> QED BY <2>3, <1>3, <1>6
  <2> QED BY <2>1, <2>2, <2>3
<1>9. \A e \in T : \E c \in named : e.token = t /\ e.id = id(c) /\ e.asked = (chosen # S!None)
  OBVIOUS
<1>10. \A i \in DOMAIN sUrl : i \in DOMAIN sTable /\ sTable[i].token = sUrl[i]
  BY <1>1 DEF UrlInv, Told
<1>11. ASSUME held \subseteq {t}, NEW e \in T, e.id \in DOMAIN sUrl PROVE sUrl[e.id] = t
  <2>1. PICK c \in named : e.id = id(c)
    BY <1>9
  <2>2. id(c) \in DOMAIN sTable /\ sTable[id(c)].token = sUrl[e.id]
    BY <1>10, <1>11, <2>1
  <2> QED BY <1>11, <2>2
<1>12. (\A e \in T : e.asked) \/ (\A e \in T : e.id \in DOMAIN sUrl => sUrl[e.id] = t)
  BY <1>4, <1>9, <1>11
<1>13. \A e \in T : e.token = t
  BY <1>9
<1> HIDE DEF id, held, f, T
<1> QED BY <1>1, <1>4, <1>5, <1>6, <1>8, <1>12, <1>13, UrlGiven

LEMMA UrlStep ==
  ASSUME S!SubscriptionsAssumption, ~TornRebuild, ~Readds, UrlInv, [S!Next]_subscriptionsVars
  PROVE  UrlInv'
<1>1. CASE UNCHANGED subscriptionsVars
  BY <1>1 DEF subscriptionsVars, UrlInv, Told, Rightful
<1>2. CASE S!Create \/ S!Drop \/ S!Serve \/ S!HandBack \/ S!CliDone \/ S!TakeOver
  <2>1. UNCHANGED <<sTodo, sUrl, sMinted, sTable>>
        /\ sAt \notin {"recreate", "copy"} /\ sAt' \notin {"recreate", "copy"}
    BY <1>2 DEF S!Create, S!Drop, S!Serve, S!HandBack, S!CliDone, S!TakeOver, S!Asked, S!To
  <2> QED BY <2>1 DEF UrlInv, Told, Rightful
<1>3. CASE S!Rename \/ S!Recreate \/ S!Copy
  BY <1>3 DEF S!Rename, S!Recreate, S!Copy, S!To, S!Empty, UrlInv, Told, Rightful
<1>4. CASE S!ApplyEnv \/ S!Import \/ S!Crash
  <2>1. UNCHANGED <<sUrl, sMinted, sTable, sAside>>
        /\ sAt \notin {"recreate", "copy"} /\ sAt' \notin {"recreate", "copy"}
        /\ (sTodo' = <<>> \/ sTodo' \in Lists)
    BY <1>4 DEF S!ApplyEnv, S!Import, S!Crash, S!Asked, S!To
  <2> QED BY <2>1, UrlListed
<1>5. CASE S!EnvUpsert \/ S!PageUpsert \/ S!CliUpsert
  BY <1>5, UrlUpserted DEF S!EnvUpsert, S!PageUpsert, S!CliUpsert
<1>6. CASE S!Add
  BY <1>6, UrlAdd
<1>7. CASE S!CliAdd
  BY <1>7, UrlCliAdd
<1>8. CASE S!Forget \/ S!CliRemove
  <2>1. PICK id \in DOMAIN sTable : sTable' = S!Without(sTable, id) /\ sUrl' = S!Without(sUrl, id)
    BY <1>8 DEF S!Forget, S!CliRemove
  <2>2. UNCHANGED <<sTodo, sMinted>> /\ sAt \notin {"recreate", "copy"}
        /\ sAt' \notin {"recreate", "copy"}
    BY <1>8 DEF S!Forget, S!CliRemove, S!Asked, S!To
  <2>3. /\ DOMAIN sUrl' \subseteq DOMAIN sUrl /\ \A i \in DOMAIN sUrl' : sUrl'[i] = sUrl[i]
        /\ \A i \in DOMAIN sTable' : i \in DOMAIN sTable /\ sTable'[i] = sTable[i]
        /\ \A i \in DOMAIN sUrl' : i # id
        /\ DOMAIN sTable' = DOMAIN sTable \ {id}
    BY <2>1 DEF S!Without
  <2>4. Told(sTable)'
    BY <2>2, <2>3 DEF UrlInv, Told
  <2>5. Rightful'
    <3>1. CASE \A i \in DOMAIN sTodo : sTodo[i].asked \/ sTodo[i].token = 0
      BY <3>1, <2>2 DEF Rightful
    <3>2. ASSUME NEW t \in Nat \ {0}, \A i \in DOMAIN sTodo :
                   sTodo[i].token = t /\ (sTodo[i].id \in DOMAIN sUrl => sUrl[sTodo[i].id] = t)
          PROVE  Rightful'
      BY <3>2, <2>2, <2>3 DEF Rightful
    <3> QED BY <3>1, <3>2 DEF UrlInv, Rightful
  <2> QED BY <2>2, <2>3, <2>4, <2>5 DEF UrlInv
<1>9. CASE S!Toggle
  <2>1. PICK id \in DOMAIN sTable, on \in BOOLEAN : sTable' = [sTable EXCEPT ![id].active = on]
    BY <1>9 DEF S!Toggle
  <2>2. UNCHANGED <<sTodo, sMinted, sUrl>> /\ sAt \notin {"recreate", "copy"}
        /\ sAt' \notin {"recreate", "copy"}
    BY <1>9 DEF S!Toggle, S!Asked, S!To
  <2>3. DOMAIN sTable' = DOMAIN sTable
        /\ \A i \in DOMAIN sTable : IsRow(sTable'[i]) /\ sTable'[i].token = sTable[i].token
    BY <2>1 DEF UrlInv, IsRow
  <2> QED BY <2>2, <2>3 DEF UrlInv, Told, Rightful
<1> QED BY <1>1, <1>2, <1>3, <1>4, <1>5, <1>6, <1>7, <1>8, <1>9 DEF S!Next

(* The address PCO was given for a subscription stays its row's, through   *)
(* starts, lists and crashes: unless another token is asked for or it is   *)
(* removed.  Two things the code does are excluded: dying while it         *)
(* rebuilds the table, and adding again what is there with the token left  *)
(* blank.                                                                  *)
THEOREM AddressKept == ~TornRebuild /\ ~Readds => (Spec => []UrlKept)
<1> SUFFICES ASSUME ~TornRebuild, ~Readds PROVE Spec => []UrlKept
  OBVIOUS
<1> DEFINE Inv == part = "subscriptions" => UrlInv
<1>1. Init => Inv
  BY UrlInit DEF Init
<1>2. Inv /\ [Next]_vars => Inv'
  <2> SUFFICES ASSUME Inv, [Next]_vars, part' = "subscriptions" PROVE UrlInv'
    OBVIOUS
  <2>1. part = "subscriptions"
    BY DEF Next, vars, ReadingOnly, VerdictsOnly, DivergenceOnly, SubscriptionsOnly, CorsOnly
  <2> QED BY <2>1, SubscriptionsStep, UrlStep, ServiceAssumption DEF ServiceAssumption
<1>3. Inv => UrlKept
  BY DEF UrlInv, Told, UrlKept, S!UrlKept
<1> QED BY <1>1, <1>2, <1>3, PTL DEF Spec

-----------------------------------------------------------------------------
(* Cross-origin access. *)

LEMMA CorsStep ==
  ASSUME part = "cors", [Next]_vars
  PROVE  part' = "cors" /\ [C!Next]_corsVars
<1>1. CASE UNCHANGED vars
  BY <1>1 DEF vars
<1>2. CASE Next
  <2>1. CorsOnly
    BY <1>2 DEF Next, ReadingOnly, VerdictsOnly, DivergenceOnly, SubscriptionsOnly, CorsOnly
  <2> QED BY <1>2, <2>1 DEF Next, ReadingOnly, VerdictsOnly, DivergenceOnly,
             SubscriptionsOnly, CorsOnly, C!Next
<1> QED BY <1>1, <1>2

(* What the validator made it makes again. *)
LEMMA BuiltTwice ==
  ASSUME NEW f PROVE C!Decode(C!Build(f)) = C!Build(f)
<1>1. CASE f.origins = {}
  BY <1>1 DEF C!Decode, C!Build, C!Off
<1>2. CASE f.origins # {}
  BY <1>2 DEF C!Decode, C!Build, C!Off, C!Filled, C!Unset, C!Methods
<1> QED BY <1>1, <1>2

(* Of a policy, and so of the one in force: browsers do what it says.      *)
LEMMA Obeyed ==
  ASSUME NEW p, NEW o, o # <<>>, NEW method, NEW h, h # C!AnyHeader,
         h \notin C!Unspoken(p)
  PROVE  C!MaySend(C!Preflight(p, o), o, FALSE, method, {h}) <=> ~C!Explained(p, o, method, {h})
<1>1. CASE ~C!AllowsOrigin(p, o)
  BY <1>1 DEF C!MaySend, C!Preflight, C!Explained
<1>2. CASE C!AllowsOrigin(p, o)
  <2>1. C!Readable(C!Attach(p, o), o, FALSE)
    BY <1>2 DEF C!Readable, C!Attach, C!Echo
  <2> DEFINE heads == C!Advertised(p)
  <2>2. (\A x \in {h} :
           x \in heads \/ (C!AnyHeader \in heads /\ x # "authorization")) <=> C!AllowsHeader(p, h)
    BY DEF C!Advertised, C!AllowsHeader, C!Unspoken, C!AnyHeader, C!CacheHeaders
  <2>3. C!Explained(p, o, method, {h}) <=> method \notin p.methods \/ ~C!AllowsHeader(p, h)
    BY <1>2 DEF C!Explained
  <2>4. C!MaySend(C!Preflight(p, o), o, FALSE, method, {h}) <=>
          /\ C!Readable(C!Attach(p, o), o, FALSE) /\ method \in p.methods
          /\ \A x \in {h} :
               x \in heads \/ (C!AnyHeader \in heads /\ x # "authorization")
    BY <1>2 DEF C!MaySend, C!Preflight
  <2> QED BY <2>1, <2>2, <2>3, <2>4
<1> QED BY <1>1, <1>2

CorsBuilt == cStored = {} \/ \E f : cStored = {C!Build(f)}

(* Browsers do what was saved: what a saved policy becomes when it is read *)
(* back and put in headers means to them what the policy means.            *)
THEOREM SavedIsObeyed == Spec => []BrowsersObey
<1> DEFINE Inv == part = "cors" => CorsBuilt
<1>1. Init => Inv
  BY DEF Init, C!Init, CorsBuilt
<1>2. Inv /\ [Next]_vars => Inv'
  <2> SUFFICES ASSUME Inv, [Next]_vars, part' = "cors" PROVE CorsBuilt'
    OBVIOUS
  <2>1. part = "cors"
    BY DEF Next, vars, ReadingOnly, VerdictsOnly, DivergenceOnly, SubscriptionsOnly, CorsOnly
  <2>2. [C!Next]_corsVars
    BY <2>1, CorsStep
  <2> QED BY <2>1, <2>2 DEF C!Next, C!Save, C!Reset, C!Ask, C!AskCache, C!Expire, corsVars, CorsBuilt
<1>3. Inv => BrowsersObey
  <2> SUFFICES ASSUME CorsBuilt PROVE C!BrowsersObey
    BY DEF BrowsersObey
  <2>1. C!InForce = C!Wanted
    <3>1. CASE cStored = {}
      BY <3>1 DEF C!InForce, C!Wanted
    <3>2. ASSUME NEW f, cStored = {C!Build(f)} PROVE C!InForce = C!Wanted
      <4>1. (CHOOSE p \in cStored : TRUE) = C!Build(f) /\ cStored # {}
        BY <3>2
      <4> QED BY <4>1, BuiltTwice DEF C!InForce, C!Wanted
    <3> QED BY <3>1, <3>2 DEF CorsBuilt
  <2> DEFINE p == C!InForce
  <2>2. \A o : C!AllowsOrigin(p, o) => C!Attach(p, o).expose = p.expose
    BY DEF C!Attach
  <2> HIDE DEF p
  <2>3. \A o \in Origins \ {<<>>}, method \in C!Methods, 
        h \in C!Headers \ ({C!AnyHeader} \cup C!Unspoken(p)) :
          C!MaySend(C!Preflight(p, o), o, FALSE, method, {h})
            <=> ~C!Explained(p, o, method, {h})
    BY Obeyed
  <2> QED BY <2>1, <2>2, <2>3 DEF C!BrowsersObey, p
<1> QED BY <1>1, <1>2, <1>3, PTL DEF Spec

(* An answer was made by the policy in force, or by one before it. *)
MadeBy(a) ==
  /\ a.by \in Nat /\ a.by <= cEdits /\ a.for \in Origins
  /\ a.by = cEdits => a.head = C!Attach(C!InForce, a.for)

CorsInv ==
  /\ cEdits \in Nat
  /\ \A a \in cKept : MadeBy(a)
  /\ cShown.origin # <<>> =>
       /\ cShown.origin \in Origins /\ MadeBy(cShown.answer)
       /\ C!Gets(cShown.origin, cShown.credentialed)
       /\ cShown.answer.head.vary => cShown.answer.for = cShown.origin

LEMMA CorsInvStep ==
  ASSUME CorsInv, [C!Next]_corsVars PROVE CorsInv'
<1>1. CASE UNCHANGED corsVars
  BY <1>1 DEF CorsInv, MadeBy, corsVars, C!Gets, C!InForce
<1>2. CASE C!Save \/ C!Reset
  <2>1. cEdits' = cEdits + 1 /\ cKept' = cKept /\ cShown'.origin = <<>>
    BY <1>2 DEF C!Save, C!Reset, C!Nothing
  <2>2. \A a \in cKept' : MadeBy(a)'
    BY <2>1 DEF CorsInv, MadeBy
  <2> QED BY <2>1, <2>2 DEF CorsInv
<1>3. CASE C!Ask
  <2>1. PICK o \in Origins :
          /\ cKept' \in {cKept, {C!Made(o)}}
          /\ \E credentialed \in BOOLEAN :
               cShown' = IF o # <<>> /\ C!Gets(o, credentialed)
                         THEN [origin |-> o, credentialed |-> credentialed, answer |-> C!Made(o)]
                         ELSE C!Nothing
          /\ UNCHANGED <<cDefault, cStored, cEdits>>
    BY <1>3 DEF C!Ask
  <2>2. C!InForce' = C!InForce /\ cEdits' = cEdits /\ cEdits \in Nat
    BY <2>1 DEF C!InForce, CorsInv
  <2>3. MadeBy(C!Made(o))
    BY <2>2 DEF MadeBy, C!Made
  <2>4. \A a : MadeBy(a) => MadeBy(a)'
    BY <2>2 DEF MadeBy
  <2>5. \A a \in cKept' : MadeBy(a)'
    BY <2>1, <2>3, <2>4 DEF CorsInv
  <2>6. PICK credentialed \in BOOLEAN :
          cShown' = IF o # <<>> /\ C!Gets(o, credentialed)
                    THEN [origin |-> o, credentialed |-> credentialed, answer |-> C!Made(o)]
                    ELSE C!Nothing
    BY <2>1
  <2>7. CASE o # <<>> /\ C!Gets(o, credentialed)
    <3>1. cShown'.origin = o /\ cShown'.credentialed = credentialed /\ cShown'.answer = C!Made(o)
          /\ C!Made(o).for = o
      BY <2>6, <2>7 DEF C!Made
    <3>2. C!Gets(o, credentialed)'
      BY <2>2, <2>7 DEF C!Gets
    <3> QED BY <2>2, <2>3, <2>4, <2>5, <3>1, <3>2 DEF CorsInv, C!Gets
  <2>8. CASE ~(o # <<>> /\ C!Gets(o, credentialed))
    BY <2>2, <2>5, <2>6, <2>8 DEF CorsInv, C!Nothing
  <2> QED BY <2>7, <2>8
<1>4. CASE C!AskCache
  <2>1. PICK o \in Origins \ {<<>>}, credentialed \in BOOLEAN, a \in cKept :
          /\ C!Gets(o, credentialed)
          /\ a.head.vary => a.for = o
          /\ cShown' = [origin |-> o, credentialed |-> credentialed, answer |-> a]
          /\ UNCHANGED <<cDefault, cStored, cEdits, cKept>>
    BY <1>4 DEF C!AskCache
  <2>2. C!InForce' = C!InForce /\ cEdits' = cEdits
    BY <2>1 DEF C!InForce
  <2>3. \A b : MadeBy(b) => MadeBy(b)'
    BY <2>2 DEF MadeBy
  <2> QED BY <2>1, <2>2, <2>3 DEF CorsInv, C!Gets
<1>5. CASE C!Expire
  BY <1>5 DEF C!Expire, CorsInv, C!Nothing
<1> QED BY <1>1, <1>2, <1>3, <1>4, <1>5 DEF C!Next

(* Whoever an answer was made for, a page that may be handed it may read   *)
(* it if the policy it was made by lets the page send.                     *)
LEMMA Shared ==
  ASSUME C!CorsAssumption, NEW p, NEW o \in Origins, NEW f \in Origins, NEW credentialed,
         o # <<>>, C!Readable(C!Attach(p, o), o, credentialed),
         C!Attach(p, f).vary => f = o,
         ~(C!AnyOrigin(p) /\ f = <<>>)
  PROVE  C!Readable(C!Attach(p, f), o, credentialed)
<1>1. C!AllowsOrigin(p, o)
  BY DEF C!Readable, C!Attach, C!Echo, C!NoHeader, C!CorsAssumption
<1>2. CASE C!Varies(p)
  BY <1>1, <1>2 DEF C!Attach, C!Enabled, C!AllowsOrigin
<1>3. CASE ~C!Varies(p)
  <2>1. C!AnyOrigin(p) /\ ~p.credentials /\ f # <<>>
    BY <1>3 DEF C!Varies
  <2>2. C!IsStrictPrefix(<<>>, f)
    BY <2>1 DEF C!IsStrictPrefix, C!IsPrefix, C!CorsAssumption
  <2>3. C!AllowsOrigin(p, f)
    BY <2>1, <2>2 DEF C!AllowsOrigin, C!Matches, C!AnyOrigin, C!Everything
  <2>4. ~credentialed
    BY <2>1 DEF C!Readable, C!Attach
  <2> QED BY <2>1, <2>3, <2>4 DEF C!Readable, C!Attach, C!Echo
<1> QED BY <1>2, <1>3

(* A page that may send may read what it gets, whoever's answer a cache    *)
(* hands it: for every policy, and every set of pages.                     *)
THEOREM AnswersAreShared == Spec => []MaySendMayRead
<1> DEFINE Inv == part = "cors" => CorsInv
<1>1. Init => Inv
  BY DEF Init, C!Init, CorsInv, C!Nothing
<1>2. Inv /\ [Next]_vars => Inv'
  <2> SUFFICES ASSUME Inv, [Next]_vars, part' = "cors" PROVE CorsInv'
    OBVIOUS
  <2>1. part = "cors"
    BY DEF Next, vars, ReadingOnly, VerdictsOnly, DivergenceOnly, SubscriptionsOnly, CorsOnly
  <2> QED BY <2>1, CorsStep, CorsInvStep
<1>3. Inv => MaySendMayRead
  <2> SUFFICES ASSUME CorsInv, cShown.origin # <<>>, cShown.answer.by = cEdits,
                      ~(C!AnyOrigin(C!InForce) /\ cShown.answer.for = <<>>)
               PROVE  C!Readable(cShown.answer.head, cShown.origin, cShown.credentialed)
    BY DEF MaySendMayRead, C!MaySendMayRead
  <2>1. C!Readable(C!Attach(C!InForce, cShown.origin), cShown.origin, cShown.credentialed)
    BY DEF CorsInv, C!Gets, C!MaySend, C!Preflight
  <2> QED BY <2>1, Shared, ServiceAssumption DEF CorsInv, MadeBy, ServiceAssumption
<1> QED BY <1>1, <1>2, <1>3, PTL DEF Spec

-----------------------------------------------------------------------------
(* Reading. *)

LEMMA ReadingStep ==
  ASSUME part = "reading", [Next]_vars
  PROVE  part' = "reading" /\ [R!Next]_readingVars
<1>1. CASE UNCHANGED vars
  BY <1>1 DEF vars
<1>2. CASE Next
  <2>1. ReadingOnly
    BY <1>2 DEF Next, ReadingOnly, VerdictsOnly, DivergenceOnly, SubscriptionsOnly, CorsOnly
  <2> QED BY <1>2, <2>1 DEF Next, ReadingOnly, VerdictsOnly, DivergenceOnly,
             SubscriptionsOnly, CorsOnly, R!Next
<1> QED BY <1>1, <1>2

ReadingTyped ==
  /\ rPerson \in [People -> R!Persons]
  /\ rHousehold \in [Households -> [is : {"live", "dead"}, of : Members]]
  /\ DOMAIN rRead = {"kind", "at", "offset", "only"} /\ rRead.offset \in Nat
  /\ rRead.only \subseteq People /\ (rRead.at = "row" => rRead.only # {})
  /\ rTotal \in Nat
  /\ rPage \subseteq [id : People, of : Homes]

LEMMA SameCount ==
  ASSUME NEW X
  PROVE  R!IsFiniteSet(X) = IsFiniteSet(X) /\ R!Cardinality(X) = Cardinality(X)
BY Zenon DEF R!IsFiniteSet, IsFiniteSet, R!Cardinality, Cardinality

LEMMA PeopleCounted ==
  ASSUME R!ReadingAssumption, NEW T, T \subseteq People
  PROVE  IsFiniteSet(T) /\ R!Cardinality(T) \in Nat
<1>1. IsFiniteSet(People)
  BY SameCount DEF R!ReadingAssumption
<1> QED BY <1>1, SameCount, FS_Subset, FS_CardinalityType

(* A row that is live has an array of its kind. *)
LEMMA LiveTyped ==
  ASSUME ReadingTyped, NEW p \in R!LivePeople
  PROVE  p \in People /\ rPerson[p].of \in Homes
BY DEF ReadingTyped, R!LivePeople, R!Persons

LEMMA ReadingTypedStep ==
  ASSUME R!ReadingAssumption, ReadingTyped, [R!Next]_readingVars
  PROVE  ReadingTyped'
<1> USE DEF R!To, R!rows, R!answer
<1>1. CASE UNCHANGED readingVars
  BY <1>1 DEF readingVars, ReadingTyped
<1>2. CASE R!AskList \/ R!AskSingle \/ R!AskNested \/ R!AskMember \/ R!AskThrough
  <2>1. PICK kind, at, only : R!Fresh(kind, at, only) /\ only \subseteq People
                              /\ (at = "row" => only # {})
    <3>1. \A h \in Households : R!Restriction(h) \subseteq People
      BY DEF R!Restriction, R!ReadingAssumption, ReadingTyped
    <3>2. CASE R!AskList \/ R!AskThrough
      BY <3>2 DEF R!AskList, R!AskThrough
    <3>3. CASE R!AskSingle
      <4>1. PICK p \in People : R!Fresh("single", "row", {p})
        BY <3>3 DEF R!AskSingle
      <4> QED BY <4>1
    <3>4. CASE R!AskNested
      <4>1. PICK h \in Households : R!Fresh("nested", "count", R!Restriction(h))
        BY <3>4 DEF R!AskNested
      <4> QED BY <4>1, <3>1
    <3>5. CASE R!AskMember
      <4>1. PICK h \in Households : \E p \in R!Restriction(h) : R!Fresh("single", "row", {p})
        BY <3>5 DEF R!AskMember
      <4> QED BY <4>1, <3>1
    <3> QED BY <1>2, <3>2, <3>3, <3>4, <3>5
  <2> QED BY <2>1 DEF R!Fresh, ReadingTyped
<1>3. CASE R!SingleRow
  <2>1. DOMAIN rRead' = {"kind", "at", "offset", "only"} /\ rRead'.offset \in Nat
        /\ rRead'.only \subseteq People /\ rRead'.at # "row"
    BY <1>3 DEF R!SingleRow, R!NoRead, ReadingTyped
  <2>2. (CHOOSE p \in rRead.only : TRUE) \in People
    BY <1>3 DEF R!SingleRow, ReadingTyped
  <2>3. \E p \in People :
          rPage' = {} \/ (rPerson[p].is = "live" /\ rPage' = {[id |-> p, of |-> rPerson[p].of]})
    BY <1>3, <2>2, Zenon DEF R!SingleRow
  <2>4. rPage' \subseteq [id : People, of : Homes]
    BY <2>3, LiveTyped DEF R!LivePeople
  <2> QED BY <1>3, <2>1, <2>4 DEF R!SingleRow, ReadingTyped
<1>4. CASE R!Through
  BY <1>4 DEF R!Through, R!NoRead, R!Persons, ReadingTyped
<1>5. CASE R!Count
  <2>1. R!Cardinality(R!LivePeople \cap rRead.only) \in Nat
    BY PeopleCounted DEF R!LivePeople
  <2> QED BY <1>5, <2>1 DEF R!Count, ReadingTyped
<1>6. CASE R!Rows
  <2>1. \A x \in rPage' : \E p \in R!LivePeople : x = [id |-> p, of |-> rPerson[p].of]
    BY <1>6 DEF R!Rows
  <2>2. rPage' \subseteq [id : People, of : Homes]
    BY <2>1, LiveTyped
  <2> QED BY <1>6, <2>2 DEF R!Rows, ReadingTyped
<1>7. CASE R!Level1 \/ R!Level2 \/ R!Echo
  BY <1>7 DEF R!Level1, R!Level2, R!Echo, ReadingTyped
<1>8. CASE R!Reply
  <2>1. rRead.offset + PerPage \in Nat
    BY DEF ReadingTyped, R!ReadingAssumption
  <2>2. /\ rRead'.offset \in {rRead.offset, rRead.offset + PerPage} /\ rRead'.only = rRead.only
        /\ DOMAIN rRead' = DOMAIN rRead /\ rRead'.at # "row"
    BY <1>8 DEF R!Reply, ReadingTyped
  <2> QED BY <1>8, <2>1, <2>2 DEF R!Reply, ReadingTyped
<1>9. CASE R!Done
  BY <1>9 DEF R!Done, R!NoRead, ReadingTyped
<1>10. CASE R!WritePerson \/ R!WriteHousehold
  BY <1>10 DEF R!WritePerson, R!WriteHousehold, R!Write, ReadingTyped
<1> QED BY <1>1, <1>2, <1>3, <1>4, <1>5, <1>6, <1>7, <1>8, <1>9, <1>10 DEF R!Next

(* Nobody before this person was written, nor they.  Their place among the *)
(* live rows stands.                                                       *)
Settled(p) == p \in R!LivePeople \ rTouched /\ \A q \in rTouched \cap People : ~(q < p)
Rank(p) == R!Before(p, R!LivePeople)

Listing == {"count", "rows", "level1", "level2", "echo", "reply"}
OnPage == {"level1", "level2", "echo"}

Covered(p) ==
  /\ Rank(p) < rRead.offset => p \in rSeen
  /\ rRead.at \in OnPage \cup {"rows"} => Rank(p) < rTotal
  /\ rRead.at \in OnPage /\ rRead.offset <= Rank(p) /\ Rank(p) < rRead.offset + PerPage =>
       \E x \in rPage : x.id = p
  /\ rRead.at = "reply" => p \in rSeen

CoverInv ==
  rRead.kind = "list" =>
    /\ rRead.at \in Listing /\ rRead.only = People
    /\ \A p \in People : Settled(p) => Covered(p)

LEMMA RankBelow ==
  ASSUME R!ReadingAssumption, NEW p \in R!LivePeople
  PROVE  Rank(p) \in Nat /\ Rank(p) < R!Cardinality(R!LivePeople)
<1> DEFINE T == {q \in R!LivePeople : q < p}
<1>0. R!LivePeople \subseteq People /\ p \in Nat
  BY DEF R!LivePeople, R!ReadingAssumption
<1>1. R!LivePeople \subseteq People /\ T \subseteq R!LivePeople /\ T # R!LivePeople
  <2>1. ~(p < p)
    BY <1>0
  <2>2. p \notin T
    BY <2>1
  <2> QED BY <1>0, <2>2
<1>2. IsFiniteSet(R!LivePeople) /\ Cardinality(R!LivePeople) = R!Cardinality(R!LivePeople)
  BY <1>1, PeopleCounted, SameCount
<1>3. Rank(p) = Cardinality(T)
  BY SameCount DEF Rank, R!Before
<1> HIDE DEF T
<1>4. Cardinality(T) \in Nat /\ Cardinality(R!LivePeople) \in Nat
      /\ Cardinality(T) <= Cardinality(R!LivePeople) /\ Cardinality(T) # Cardinality(R!LivePeople)
  BY <1>1, <1>2, FS_Subset, FS_CardinalityType
<1> QED BY <1>2, <1>3, <1>4

(* A write leaves the places before it. *)
LEMMA RankStands ==
  ASSUME R!ReadingAssumption, ReadingTyped, R!WritePerson \/ R!WriteHousehold,
         NEW p \in People, Settled(p)'
  PROVE  Settled(p) /\ Rank(p)' = Rank(p)
<1>1. CASE R!WriteHousehold
  BY <1>1 DEF R!WriteHousehold, R!Write, Settled, Rank, R!Before, R!LivePeople
<1>2. CASE R!WritePerson
  <2>1. PICK o \in People : rTouched' = rTouched \cup {o}
                           /\ \A q \in People \ {o} : rPerson'[q] = rPerson[q]
    BY <1>2 DEF R!WritePerson, R!Write, ReadingTyped
  <2>2. p < o
    BY <2>1 DEF Settled, R!ReadingAssumption
  <2>3. \A q \in People : q <= p => (q \in R!LivePeople <=> q \in R!LivePeople')
    BY <2>1, <2>2 DEF R!LivePeople, R!ReadingAssumption
  <2>4. Settled(p)
    BY <2>1, <2>3 DEF Settled, R!ReadingAssumption
  <2>5. {q \in R!LivePeople : q < p} = {q \in R!LivePeople' : q < p}
    <3>1. R!LivePeople \subseteq People /\ R!LivePeople' \subseteq People
      BY DEF R!LivePeople
    <3>2. \A q \in People : q < p => q <= p
      BY DEF R!ReadingAssumption
    <3> QED BY <2>3, <3>1, <3>2, Zenon
  <2> QED BY <2>4, <2>5 DEF Rank, R!Before
<1> QED BY <1>1, <1>2

LEMMA CoverStep ==
  ASSUME R!ReadingAssumption, ReadingTyped, CoverInv, [R!Next]_readingVars
  PROVE  CoverInv'
<1> USE DEF R!To, R!rows, R!answer
<1>1. CASE UNCHANGED readingVars
  BY <1>1 DEF readingVars, CoverInv, Settled, Covered, Rank, R!Before, R!LivePeople
<1>2. CASE R!AskList
  <2>1. rRead' = [kind |-> "list", at |-> "count", offset |-> 0, only |-> People]
        /\ UNCHANGED rPerson
    BY <1>2 DEF R!AskList, R!Fresh
  <2>2. \A p \in People : Settled(p)' => Rank(p)' \in Nat
    BY <2>1, RankBelow DEF Settled, Rank, R!LivePeople, R!Before
  <2> QED BY <2>1, <2>2 DEF CoverInv, Covered, Listing, OnPage
<1>3. CASE R!AskSingle \/ R!AskNested \/ R!AskMember \/ R!AskThrough
  <2>1. rRead'.kind # "list"
    BY <1>3 DEF R!AskSingle, R!AskNested, R!AskMember, R!AskThrough, R!Fresh
  <2> QED BY <2>1 DEF CoverInv
<1>4. CASE R!SingleRow \/ R!Through \/ R!Done
  <2>1. rRead'.kind # "list"
    BY <1>4 DEF R!SingleRow, R!Through, R!Done, R!NoRead, CoverInv, Listing, ReadingTyped
  <2> QED BY <2>1 DEF CoverInv
<1>5. ASSUME rRead.kind = "list", UNCHANGED <<rPerson, rTouched>>, NEW p \in People, Settled(p)'
      PROVE  /\ Settled(p) /\ Covered(p) /\ Rank(p)' = Rank(p) /\ Rank(p) \in Nat
             /\ Rank(p) < R!Cardinality(R!LivePeople)
  BY <1>5, RankBelow DEF CoverInv, Settled, Rank, R!Before, R!LivePeople
<1>6. CASE R!Count
  <2>1. /\ rRead'.kind = rRead.kind /\ rRead'.at = "rows" /\ rRead'.offset = rRead.offset
        /\ rRead'.only = rRead.only
        /\ UNCHANGED <<rPerson, rTouched, rSeen>>
        /\ rTotal' = R!Cardinality(R!LivePeople \cap rRead.only)
    BY <1>6 DEF R!Count, ReadingTyped
  <2>2. R!LivePeople \cap People = R!LivePeople
    BY DEF R!LivePeople
  <2> QED BY <1>5, <2>1, <2>2 DEF CoverInv, Covered, Listing, OnPage
<1>7. CASE R!Rows
  <2>1. /\ rRead'.kind = rRead.kind /\ rRead.at = "rows" /\ rRead'.at = "level1"
        /\ rRead'.offset = rRead.offset /\ rRead'.only = rRead.only
        /\ UNCHANGED <<rPerson, rTouched, rSeen, rTotal>>
    BY <1>7 DEF R!Rows, ReadingTyped
  <2>2. R!LivePeople \cap People = R!LivePeople
    BY DEF R!LivePeople
  <2>3. rRead.kind = "list" =>
          \A p \in R!LivePeople : rRead.offset <= Rank(p) /\ Rank(p) < rRead.offset + PerPage =>
            [id |-> p, of |-> rPerson[p].of] \in rPage'
    BY <1>7, <2>2 DEF R!Rows, CoverInv, Rank
  <2>4. \A p \in People : Settled(p) => p \in R!LivePeople
    BY DEF Settled
  <2> QED BY <1>5, <2>1, <2>3, <2>4 DEF CoverInv, Covered, Listing, OnPage
<1>8. CASE R!Level1 \/ R!Level2 \/ R!Echo
  <2>1. /\ rRead'.kind = rRead.kind /\ rRead.at \in OnPage /\ rRead'.at \in OnPage
        /\ rRead'.offset = rRead.offset /\ rRead'.only = rRead.only
        /\ UNCHANGED <<rPerson, rTouched, rSeen, rTotal, rPage>>
    BY <1>8 DEF R!Level1, R!Level2, R!Echo, ReadingTyped, OnPage
  <2> QED BY <1>5, <2>1 DEF CoverInv, Covered, Listing, OnPage
<1>9. CASE R!Reply
  <2>1. /\ rRead'.kind = rRead.kind /\ rRead.at = "echo" /\ rRead'.only = rRead.only
        /\ UNCHANGED <<rPerson, rTouched, rTotal>>
        /\ rSeen' = rSeen \cup {x.id : x \in rPage}
    BY <1>9 DEF R!Reply, R!Answered, ReadingTyped
  <2>2. rRead.kind = "list" =>
          \/ rRead'.at = "count" /\ rRead'.offset = rRead.offset + PerPage
          \/ rRead'.at = "reply" /\ rRead'.offset = rRead.offset
             /\ ~(rRead.offset + PerPage < rTotal)
    BY <1>9 DEF R!Reply, R!HasNext, ReadingTyped
  <2>3. rRead.offset \in Nat /\ PerPage \in Nat /\ rTotal \in Nat
    BY DEF ReadingTyped, R!ReadingAssumption
  <2>4. ASSUME rRead.kind = "list", NEW p \in People, Settled(p)' PROVE Covered(p)'
    <3>1. /\ Settled(p) /\ Covered(p) /\ Rank(p)' = Rank(p) /\ Rank(p) \in Nat
      BY <1>5, <2>1, <2>4
    <3>2. Rank(p) < rTotal /\ (Rank(p) < rRead.offset + PerPage => p \in rSeen')
      BY <3>1, <2>1, <2>3 DEF Covered, OnPage
    <3> QED BY <3>1, <3>2, <2>1, <2>2, <2>3, <2>4 DEF Covered, OnPage
  <2> QED BY <2>1, <2>2, <2>4 DEF CoverInv, Listing
<1>10. CASE R!WritePerson \/ R!WriteHousehold
  <2>1. UNCHANGED <<rRead, rSeen, rTotal, rPage>>
    BY <1>10 DEF R!WritePerson, R!WriteHousehold, R!Write
  <2> QED BY <1>10, <2>1, RankStands DEF CoverInv, Covered
<1> QED BY <1>1, <1>2, <1>3, <1>4, <1>6, <1>7, <1>8, <1>9, <1>10 DEF R!Next

(* Whoever was there all along is on one of the pages a caller walks, as   *)
(* long as no row before theirs came or went: for every collection, page   *)
(* size and number of writes between the queries.                          *)
THEOREM PagesAreWhole == Spec => []PagesCover
<1> DEFINE Inv == part = "reading" => ReadingTyped /\ CoverInv
<1>1. Init => Inv
  BY ServiceAssumption DEF Init, R!Init, R!NoRead, ReadingTyped, CoverInv
<1>2. Inv /\ [Next]_vars => Inv'
  <2> SUFFICES ASSUME Inv, [Next]_vars, part' = "reading" PROVE (ReadingTyped /\ CoverInv)'
    OBVIOUS
  <2>1. part = "reading"
    BY DEF Next, vars, ReadingOnly, VerdictsOnly, DivergenceOnly, SubscriptionsOnly, CorsOnly
  <2> QED BY <2>1, ReadingStep, ReadingTypedStep, CoverStep, ServiceAssumption DEF ServiceAssumption
<1>3. Inv => PagesCover
  <2> SUFFICES ASSUME CoverInv PROVE R!PagesCover
    BY DEF PagesCover
  <2> QED BY DEF R!PagesCover, CoverInv, Covered, Settled, R!LivePeople
<1> QED BY <1>1, <1>2, <1>3, PTL DEF Spec

(* The first level holds the rows of this moment of every household that   *)
(* the page names and nobody wrote, the second whoever of them is live and *)
(* was not written.                                                        *)
Level1Inv ==
  rRead.at \in {"level2", "echo"} =>
    \A h \in R!Named(rPage) :
      rHousehold[h].is = "live" /\ h \notin rTouched
        => [id |-> h, of |-> rHousehold[h].of] \in rLevel1

Level2Inv ==
  rRead.at = "echo" =>
    \A y \in rLevel1 : \A p \in y.of : p \in R!LivePeople /\ p \notin rTouched => p \in rIncluded

(* So what is resolved again for the echo was sideloaded, or written.      *)
MemoInv ==
  \A h \in DOMAIN rMemo : \A p \in rMemo[h] : h \in rTouched \/ p \in rTouched \cup rIncluded

EchoedInv ==
  \A x \in rPage : x.id \in DOMAIN rEcho =>
    \A p \in rEcho[x.id] : p \in rIncluded \cup rTouched \/ x.of \cap rTouched # {}

EchoInv ==
  /\ rRead.at \in OnPage => \A x, y \in rPage : x.id = y.id => x = y
  /\ rRead.at \in {"row", "count", "rows", "level1", "level2"} => rMemo = R!Unasked /\ rEcho = R!Unasked
  /\ Level1Inv /\ Level2Inv
  /\ rRead.at = "echo" => MemoInv /\ EchoedInv

LEMMA EchoOne ==
  ASSUME R!ReadingAssumption, ReadingTyped, EchoInv, R!Echo
  PROVE  EchoInv'
<1>1. /\ rRead.at = "echo" /\ UNCHANGED <<rPerson, rHousehold, rRead, rPage, rLevel1, rIncluded, rTouched>>
  BY DEF R!Echo, R!rows
<1>2. PICK x \in R!Unechoed :
        LET own == R!RelatedHouseholds({x})
            hop == [h \in {one.id : one \in own} \cup DOMAIN rMemo |->
                      IF h \in DOMAIN rMemo THEN rMemo[h]
                      ELSE R!RelatedPeople({one \in own : one.id = h})]
        IN  /\ rMemo' = hop
            /\ rEcho' = [p \in DOMAIN rEcho \cup {x.id} |->
                          IF p = x.id THEN UNION {hop[one.id] : one \in own} ELSE rEcho[p]]
  BY DEF R!Echo
<1> DEFINE own == R!RelatedHouseholds({x})
           hop == [h \in {one.id : one \in own} \cup DOMAIN rMemo |->
                     IF h \in DOMAIN rMemo THEN rMemo[h]
                     ELSE R!RelatedPeople({one \in own : one.id = h})]
<1>3. /\ rMemo' = hop
      /\ rEcho' = [p \in DOMAIN rEcho \cup {x.id} |->
                     IF p = x.id THEN UNION {hop[one.id] : one \in own} ELSE rEcho[p]]
  BY <1>2
<1>4. x \in rPage
  BY DEF R!Unechoed
<1>5. \A one \in own : one.id \in x.of /\ one.id \in R!Named(rPage)
                      /\ rHousehold[one.id].is = "live" /\ one.of = rHousehold[one.id].of
                      /\ one = [id |-> one.id, of |-> one.of]
  BY <1>4 DEF R!RelatedHouseholds, R!Named
<1>6. ASSUME NEW h \in DOMAIN hop, NEW p \in hop[h]
      PROVE  h \in rTouched \/ p \in rTouched \cup rIncluded
  <2>1. CASE h \in DOMAIN rMemo
    BY <2>1, <1>1, <1>6 DEF EchoInv, MemoInv
  <2>2. CASE h \notin DOMAIN rMemo
    <3>1. p \in R!RelatedPeople({one \in own : one.id = h})
      BY <2>2, <1>6
    <3>2. PICK one \in own : one.id = h /\ p \in one.of
      BY <3>1 DEF R!RelatedPeople, R!Named
    <3>3. p \in R!LivePeople
      BY <3>1 DEF R!RelatedPeople
    <3>4. h \notin rTouched => one \in rLevel1
      BY <3>2, <1>1, <1>5 DEF EchoInv, Level1Inv
    <3> QED BY <3>2, <3>3, <3>4, <1>1 DEF EchoInv, Level2Inv
  <2> QED BY <2>1, <2>2
<1>7. MemoInv'
  BY <1>1, <1>3, <1>6 DEF MemoInv
<1>8. EchoedInv'
  <2> SUFFICES ASSUME NEW y \in rPage, y.id \in DOMAIN rEcho', NEW p \in rEcho'[y.id]
               PROVE  p \in rIncluded \cup rTouched \/ y.of \cap rTouched # {}
    BY <1>1 DEF EchoedInv
  <2>1. CASE y.id = x.id
    <3>1. y = x
      BY <2>1, <1>1, <1>4 DEF EchoInv, OnPage
    <3>2. PICK one \in own : p \in hop[one.id]
      BY <2>1, <1>3
    <3>3. one.id \in DOMAIN hop
      BY <3>2
    <3> HIDE DEF hop, own
    <3>4. one.id \in rTouched \/ p \in rTouched \cup rIncluded
      BY <3>2, <3>3, <1>6
    <3> QED BY <3>1, <3>2, <3>4, <1>5
  <2>2. CASE y.id # x.id
    <3>1. y.id \in DOMAIN rEcho /\ p \in rEcho[y.id]
      BY <2>2, <1>3
    <3> QED BY <3>1, <1>1 DEF EchoInv, EchoedInv
  <2> QED BY <2>1, <2>2
<1>9. Level1Inv' /\ Level2Inv'
  BY <1>1 DEF EchoInv, Level1Inv, Level2Inv, R!LivePeople, R!Named
<1>10. (rRead.at \in OnPage => \A y, z \in rPage : y.id = z.id => y = z)'
  BY <1>1 DEF EchoInv
<1> QED BY <1>1, <1>7, <1>8, <1>9, <1>10 DEF EchoInv

(* Another thread's write. *)
LEMMA EchoWrite ==
  ASSUME R!ReadingAssumption, ReadingTyped, EchoInv, R!WritePerson \/ R!WriteHousehold
  PROVE  EchoInv'
<1>1. PICK o : rTouched' = rTouched \cup {o}
        /\ (\A p \in People \ {o} : rPerson'[p] = rPerson[p])
        /\ (\A h \in Households \ {o} : rHousehold'[h] = rHousehold[h])
  <2>1. CASE R!WritePerson
    <3>1. PICK p \in People : R!Write(p) /\ UNCHANGED rHousehold
                             /\ \A q \in People \ {p} : rPerson'[q] = rPerson[q]
      BY <2>1 DEF R!WritePerson, ReadingTyped
    <3> QED BY <3>1 DEF R!Write
  <2>2. CASE R!WriteHousehold
    <3>1. PICK h \in Households : R!Write(h) /\ UNCHANGED rPerson
                                 /\ \A g \in Households \ {h} : rHousehold'[g] = rHousehold[g]
      BY <2>2 DEF R!WriteHousehold, ReadingTyped
    <3> QED BY <3>1 DEF R!Write
  <2> QED BY <2>1, <2>2
<1>2. UNCHANGED <<rRead, rPage, rTotal, rLevel1, rIncluded, rMemo, rEcho>>
  BY DEF R!WritePerson, R!WriteHousehold, R!Write, R!answer
<1>3. Level1Inv'
  <2>1. R!Named(rPage) \subseteq Households
    BY DEF R!Named, ReadingTyped, R!ReadingAssumption
  <2>2. R!Named(rPage)' = R!Named(rPage)
    BY <1>2 DEF R!Named
  <2> QED BY <1>1, <1>2, <2>1, <2>2 DEF EchoInv, Level1Inv
<1>4. Level2Inv'
  BY <1>1, <1>2 DEF EchoInv, Level2Inv, R!LivePeople
<1>5. rRead.at = "echo" => MemoInv' /\ EchoedInv'
  BY <1>1, <1>2 DEF EchoInv, MemoInv, EchoedInv
<1>6. (rRead.at \in OnPage => \A x, y \in rPage : x.id = y.id => x = y)'
  BY <1>2 DEF EchoInv
<1> QED BY <1>2, <1>3, <1>4, <1>5, <1>6 DEF EchoInv

LEMMA EchoStep ==
  ASSUME R!ReadingAssumption, ReadingTyped, EchoInv, [R!Next]_readingVars
  PROVE  EchoInv'
<1> USE DEF R!To, R!rows, R!answer
<1>1. CASE UNCHANGED readingVars
  BY <1>1 DEF readingVars, EchoInv, Level1Inv, Level2Inv, MemoInv, EchoedInv, R!Named, R!LivePeople
<1>2. CASE R!AskList \/ R!AskSingle \/ R!AskNested \/ R!AskMember \/ R!AskThrough
  <2>1. rRead'.at \in {"row", "count", "pco"} /\ rMemo' = R!Unasked /\ rEcho' = R!Unasked
    BY <1>2 DEF R!AskList, R!AskSingle, R!AskNested, R!AskMember, R!AskThrough, R!Fresh
  <2> QED BY <2>1 DEF EchoInv, Level1Inv, Level2Inv, OnPage
<1>3. CASE R!SingleRow
  <2>1. rRead.at = "row" /\ UNCHANGED <<rMemo, rEcho>>
        /\ rRead'.at \in {"idle", "pco", "level1"}
    BY <1>3 DEF R!SingleRow, R!NoRead, ReadingTyped
  <2>2. \E x : rPage' = {} \/ rPage' = {x}
    BY <1>3, Zenon DEF R!SingleRow
  <2> QED BY <2>1, <2>2 DEF EchoInv, Level1Inv, Level2Inv, OnPage
<1>4. CASE R!Through \/ R!Done
  <2>1. rRead'.at = "idle"
    BY <1>4 DEF R!Through, R!Done, R!NoRead
  <2> QED BY <2>1 DEF EchoInv, Level1Inv, Level2Inv, OnPage
<1>5. CASE R!Count
  <2>1. rRead.at = "count" /\ rRead'.at = "rows" /\ UNCHANGED <<rMemo, rEcho>>
    BY <1>5 DEF R!Count, ReadingTyped
  <2> QED BY <2>1 DEF EchoInv, Level1Inv, Level2Inv, OnPage
<1>6. CASE R!Rows
  <2>1. rRead.at = "rows" /\ rRead'.at = "level1" /\ UNCHANGED <<rMemo, rEcho>>
    BY <1>6 DEF R!Rows, ReadingTyped
  <2>2. \A x \in rPage' : \E p : x = [id |-> p, of |-> rPerson[p].of]
    BY <1>6 DEF R!Rows
  <2>3. \A x, y \in rPage' : x.id = y.id => x = y
    BY <2>2
  <2> QED BY <2>1, <2>3 DEF EchoInv, Level1Inv, Level2Inv, OnPage
<1>7. CASE R!Level1
  <2>1. rRead.at = "level1" /\ rRead'.at = "level2" /\ rLevel1' = R!RelatedHouseholds(rPage)
        /\ UNCHANGED <<rPage, rMemo, rEcho, rHousehold, rTouched>>
    BY <1>7 DEF R!Level1, ReadingTyped
  <2>2. Level1Inv'
    BY <2>1 DEF Level1Inv, R!RelatedHouseholds, R!Named
  <2> QED BY <2>1, <2>2 DEF EchoInv, Level2Inv, OnPage
<1>8. CASE R!Level2
  <2>1. rRead.at = "level2" /\ rRead'.at = "echo" /\ rIncluded' = R!RelatedPeople(rLevel1)
        /\ UNCHANGED <<rPage, rLevel1, rMemo, rEcho, rHousehold, rPerson, rTouched>>
    BY <1>8 DEF R!Level2, ReadingTyped
  <2>2. Level2Inv'
    BY <2>1 DEF Level2Inv, R!RelatedPeople, R!Named, R!LivePeople
  <2>3. Level1Inv'
    BY <2>1 DEF EchoInv, Level1Inv, R!Named
  <2>4. MemoInv' /\ EchoedInv'
    BY <2>1 DEF EchoInv, MemoInv, EchoedInv, R!Unasked
  <2> QED BY <2>1, <2>2, <2>3, <2>4 DEF EchoInv, OnPage
<1>9. CASE R!Reply
  <2>1. rRead'.at \in {"count", "reply"} /\ rMemo' = R!Unasked /\ rEcho' = R!Unasked
    BY <1>9 DEF R!Reply, ReadingTyped
  <2> QED BY <2>1 DEF EchoInv, Level1Inv, Level2Inv, OnPage
<1> QED BY <1>1, <1>2, <1>3, <1>4, <1>5, <1>6, <1>7, <1>8, <1>9, EchoOne, EchoWrite DEF R!Next

(* Whoever the synthesized relationship of an answer names is sideloaded,  *)
(* although both are asked for on their own: unless they, or a household   *)
(* of the person, were written while the answer was made.                  *)
THEOREM EchoIsSideloaded == Spec => []EchoLinked
<1> DEFINE Inv == part = "reading" => ReadingTyped /\ EchoInv
<1>1. Init => Inv
  BY ServiceAssumption DEF Init, R!Init, R!NoRead, ReadingTyped, EchoInv, Level1Inv, Level2Inv, OnPage
<1>2. Inv /\ [Next]_vars => Inv'
  <2> SUFFICES ASSUME Inv, [Next]_vars, part' = "reading" PROVE (ReadingTyped /\ EchoInv)'
    OBVIOUS
  <2>1. part = "reading"
    BY DEF Next, vars, ReadingOnly, VerdictsOnly, DivergenceOnly, SubscriptionsOnly, CorsOnly
  <2> QED BY <2>1, ReadingStep, ReadingTypedStep, EchoStep, ServiceAssumption DEF ServiceAssumption
<1>3. Inv => EchoLinked
  <2> SUFFICES ASSUME EchoInv PROVE R!EchoLinked
    BY DEF EchoLinked
  <2> QED BY DEF R!EchoLinked, R!Answered, R!Unechoed, EchoInv, EchoedInv
<1> QED BY <1>1, <1>2, <1>3, PTL DEF Spec

-----------------------------------------------------------------------------
(* Verdicts. *)

LEMMA VerdictsStep ==
  ASSUME part = "verdicts", [Next]_vars
  PROVE  part' = "verdicts" /\ [V!Next /\ VerdictsOnly]_vars
<1>1. CASE UNCHANGED vars
  BY <1>1 DEF vars
<1>2. CASE Next
  <2>1. VerdictsOnly
    BY <1>2 DEF Next, ReadingOnly, VerdictsOnly, DivergenceOnly, SubscriptionsOnly, CorsOnly
  <2> QED BY <1>2, <2>1 DEF Next, ReadingOnly, VerdictsOnly, DivergenceOnly,
             SubscriptionsOnly, CorsOnly, V!Next
<1> QED BY <1>1, <1>2

(* The one page, from the first record on, is all a side matches if no     *)
(* more follows it.                                                        *)
LEMMA AllOnPage ==
  ASSUME V!VerdictsAssumption, vOffset = 0, NEW side, ~V!HasMore(side)
  PROVE  V!Data(side) = V!Matched(side)
<1> DEFINE M == V!Matched(side)
<1>1. M \subseteq 1 .. Records
  BY DEF V!Matched, V!Ids
<1>2. \A X : V!Cardinality(X) = Cardinality(X)
  BY Zenon DEF V!Cardinality, Cardinality
<1>3. IsFiniteSet(1 .. Records)
  BY FS_Interval DEF V!VerdictsAssumption
<1>4. IsFiniteSet(M)
  BY <1>1, <1>3, FS_Subset
<1> HIDE DEF M
<1>5. Cardinality(M) \in Nat /\ Cardinality(M) <= PerPage
  BY <1>2, <1>4, FS_CardinalityType DEF V!HasMore, V!VerdictsAssumption, M
<1>6. ASSUME NEW k \in M PROVE V!Before(k, M) \in Nat /\ V!Before(k, M) < PerPage
  <2> DEFINE T == {j \in M : j < k}
  <2>1. k \in Nat
    BY <1>1
  <2>2. T \subseteq M /\ T # M
    <3>1. k \notin T
      BY <2>1
    <3> QED BY <3>1
  <2> HIDE DEF T
  <2>3. Cardinality(T) \in Nat /\ Cardinality(T) < Cardinality(M)
    BY <2>2, <1>4, <1>5, FS_Subset, FS_CardinalityType
  <2>4. V!Before(k, M) = Cardinality(T)
    BY <1>2 DEF V!Before, T
  <2> QED BY <2>3, <2>4, <1>5 DEF V!VerdictsAssumption
<1>7. V!Data(side) = {k \in M : vOffset <= V!Before(k, M) /\ V!Before(k, M) < vOffset + PerPage}
  BY DEF V!Data, M
<1>8. \A k \in M : vOffset <= V!Before(k, M) /\ V!Before(k, M) < vOffset + PerPage
  BY <1>6 DEF V!VerdictsAssumption
<1> QED BY <1>7, <1>8 DEF M

(* The edge of the first page accuses nobody, whatever both sides hold.    *)
THEOREM FirstPageAccusesNobody == Offsets \subseteq {0} => (Spec => []AccusesOnlyTheMissing)
<1> SUFFICES ASSUME Offsets \subseteq {0} PROVE Spec => []AccusesOnlyTheMissing
  OBVIOUS
<1> DEFINE Inv == part = "verdicts" => vOffset = 0
<1>1. Init => Inv
  BY DEF Init, V!Init
<1>2. Inv /\ [Next]_vars => Inv'
  <2> SUFFICES ASSUME Inv, [Next]_vars, part' = "verdicts" PROVE vOffset' = 0
    OBVIOUS
  <2>1. part = "verdicts"
    BY DEF Next, vars, ReadingOnly, VerdictsOnly, DivergenceOnly, SubscriptionsOnly, CorsOnly
  <2> QED BY <2>1, VerdictsStep DEF V!Next, V!Check, V!Sweep, vars, verdictsVars
<1>3. Inv => AccusesOnlyTheMissing
  <2> SUFFICES ASSUME vOffset = 0, NEW side \in {"pco", "mirror"}, NEW k \in V!OneSided(side)
               PROVE  k \notin V!Matched(V!Other(side))
    BY DEF AccusesOnlyTheMissing, V!AccusesOnlyTheMissing
  <2>1. ~V!HasMore(V!Other(side)) /\ k \in V!Data(side) \ V!Data(V!Other(side))
    BY DEF V!OneSided
  <2> QED BY <2>1, AllOnPage, ServiceAssumption DEF ServiceAssumption
<1> QED BY <1>1, <1>2, <1>3, PTL DEF Spec

LEMMA Greatest ==
  ASSUME NEW N \in Nat, NEW X, X \subseteq 0 .. N, X # {}
  PROVE  V!Max(X) \in X /\ \A y \in X : V!Max(X) >= y
<1> DEFINE T == {N - x : x \in X}
<1>1. T \subseteq Nat /\ T # {}
  <2>1. \A x \in X : N - x \in T /\ N - x \in Nat
    OBVIOUS
  <2> QED BY <2>1
<1>2. PICK Less : Less = {ss \in Nat \X Nat : ss[1] < ss[2]} /\ IsWellFoundedOn(Less, Nat)
  BY NatLessThanWellFounded DEF OpToRel
<1> HIDE DEF T
<1>3. PICK t \in T : \A u \in T : ~ (<<u, t>> \in Less)
  BY <1>1, <1>2, WFMin
<1>4. \A u \in T : ~(u < t)
  BY <1>1, <1>2, <1>3
<1>5. PICK x \in X : t = N - x
  BY <1>3 DEF T
<1>6. \A y \in X : x >= y
  <2> TAKE y \in X
  <2>1. N - y \in T
    BY DEF T
  <2>2. ~(N - y < N - x)
    BY <2>1, <1>4, <1>5
  <2> QED BY <2>2
<1> QED BY <1>6 DEF V!Max

(* Nothing is left for a sweep. *)
Swept == \A k \in V!Ids : vPco[k] <= vWatermark /\ ~ V!Taken(k)

Held == [is : {"absent", "live", "destroyed", "merged"}, uat : 0 .. Seconds]

VerdictInv ==
  /\ vPco \in [V!Ids -> 0 .. Seconds] /\ vHeld \in [V!Ids -> Held]
  /\ \A k \in V!Ids : vHeld[k].is = "absent" => vHeld[k].uat = 0
  /\ vWatermark \in 0 .. Seconds
  /\ Swept \/ (/\ vVerdict = "none" \/ vVerdict = V!Classify
               /\ \A k \in V!Ids : V!Behind(k) /\ vPco[k] # 0 => vWatermark <= vPco[k])

(* What a sweep leaves: each row as new as PCO's if the sweep read it.     *)
LEMMA SweepSweeps ==
  ASSUME V!VerdictsAssumption, VerdictInv, V!Sweep
  PROVE  /\ VerdictInv' /\ Swept'
         /\ Swept => UNCHANGED verdictsVars
<1> DEFINE all == {vWatermark} \cup {vPco[k] : k \in V!Ids}
<1>1. Seconds \in Nat /\ all \subseteq 0 .. Seconds /\ vWatermark \in all
      /\ \A k \in V!Ids : vPco[k] \in all
  BY DEF VerdictInv, V!VerdictsAssumption
<1>2. vWatermark' = V!Max(all)
  BY DEF V!Sweep
<1> HIDE DEF all
<1>3. vWatermark' \in all /\ \A y \in all : vWatermark' >= y
  BY <1>1, <1>2, Greatest
<1>4. vHeld' = [k \in V!Ids |-> IF V!Taken(k) THEN [is |-> "live", uat |-> vPco[k]] ELSE vHeld[k]]
      /\ UNCHANGED <<vPco, vFiltered, vDrifted, vMissed, vOffset, vVerdict>>
  BY DEF V!Sweep
<1>5. vWatermark' \in 0 .. Seconds /\ vWatermark' >= vWatermark /\ \A k \in V!Ids : vWatermark' >= vPco[k]
  BY <1>1, <1>3
<1>6. Swept'
  <2> SUFFICES ASSUME NEW k \in V!Ids PROVE vPco'[k] <= vWatermark' /\ ~ V!Taken(k)'
    BY DEF Swept, V!Ids
  <2>1. /\ vPco'[k] = vPco[k] /\ vPco[k] \in 0 .. Seconds /\ vPco[k] <= vWatermark'
        /\ vWatermark \in 0 .. Seconds
    BY <1>4, <1>5 DEF VerdictInv
  <2>2. CASE V!Taken(k)
    <3>1. vHeld'[k].uat = vPco[k]
      BY <1>4, <2>2
    <3> QED BY <2>1, <3>1 DEF V!Taken
  <2>3. CASE ~ V!Taken(k)
    <3>1. vHeld'[k] = vHeld[k]
      BY <1>4, <2>3
    <3>2. V!Collected(k)' => V!Collected(k)
      BY <1>4, <1>5, <2>1 DEF V!Collected
    <3> QED BY <2>1, <2>3, <3>1, <3>2 DEF V!Taken
  <2> QED BY <2>2, <2>3
<1>7. vHeld' \in [V!Ids -> Held] /\ \A k \in V!Ids : vHeld'[k].is = "absent" => vHeld'[k].uat = 0
  BY <1>4 DEF VerdictInv, Held
<1>8. ASSUME Swept PROVE UNCHANGED verdictsVars
  <2>1. \A y \in all : y <= vWatermark
    BY <1>1, <1>8 DEF Swept, all
  <2>2. vWatermark' = vWatermark
    BY <2>1, <1>1, <1>3
  <2>3. vHeld' = [k \in V!Ids |-> vHeld[k]]
    BY <1>4, <1>8 DEF Swept
  <2>4. vHeld' = vHeld
    BY <2>3 DEF VerdictInv
  <2> QED BY <2>2, <2>4, <1>4 DEF verdictsVars
<1>9. vPco' \in [V!Ids' -> 0 .. Seconds] /\ V!Ids' = V!Ids
  BY <1>4 DEF VerdictInv, V!Ids
<1> QED BY <1>5, <1>6, <1>7, <1>8, <1>9 DEF VerdictInv

(* What a check called stale the sweep repairs, if it is in its reach.     *)
LEMMA SweepMends ==
  ASSUME VerdictInv, ~ Swept, vVerdict = "staleness", V!Sweep,
         NEW k \in V!Stale, ~ V!OutOfReach(k)
  PROVE  vHeld'[k] = [is |-> "live", uat |-> vPco[k]]
<1>0. vVerdict = V!Classify /\ \A x \in V!Ids : V!Behind(x) /\ vPco[x] # 0 => vWatermark <= vPco[x]
  BY DEF VerdictInv
<1> DEFINE behind == {x \in V!Data("pco") \cap V!Data("mirror") : V!Behind(x)}
<1>1. k \in V!Ids /\ vPco[k] # 0
  BY DEF V!Stale, V!OneSided, V!Data, V!Matched
<1>2. vPco[k] >= vWatermark /\ vPco[k] > vHeld[k].uat
  <2>0. /\ vPco[k] \in 0 .. Seconds /\ vWatermark \in 0 .. Seconds /\ vHeld[k] \in Held
        /\ (vHeld[k].is = "absent" => vHeld[k].uat = 0)
    BY <1>1 DEF VerdictInv
  <2>1. CASE behind # {}
    <3>1. V!Behind(k)
      BY <2>1 DEF V!Stale
    <3>2. vWatermark <= vPco[k]
      BY <3>1, <1>0, <1>1
    <3>3. vHeld[k].uat < vPco[k]
      BY <3>1 DEF V!Behind
    <3> QED BY <2>0, <3>2, <3>3 DEF Held
  <2>2. CASE behind = {}
    <3>1. \A x \in V!OneSided("pco") : V!SweepConverges(x)
      BY <1>0, <2>2 DEF V!Classify
    <3>2. k \in V!OneSided("pco")
      BY <2>2 DEF V!Stale
    <3>3. vPco[k] >= vWatermark /\ (vHeld[k].is # "absent" => vPco[k] > vHeld[k].uat)
      BY <3>1, <3>2 DEF V!SweepConverges
    <3> QED BY <1>1, <2>0, <3>3 DEF Held
  <2> QED BY <2>1, <2>2
<1>3. V!Collected(k)
  <2>0. vPco[k] \in 0 .. Seconds /\ vWatermark \in 0 .. Seconds
    BY <1>1 DEF VerdictInv
  <2> QED BY <1>1, <1>2, <2>0 DEF V!Collected, V!OutOfReach
<1>4. V!Taken(k)
  BY <1>2, <1>3 DEF V!Taken, V!OutOfReach
<1> QED BY <1>1, <1>4 DEF V!Sweep

(* What a step that leaves all but the verdict alone keeps.                *)
LEMMA VerdictKept ==
  ASSUME VerdictInv, UNCHANGED <<vPco, vHeld, vFiltered, vDrifted, vMissed, vWatermark, vOffset>>,
         vVerdict' = vVerdict \/ vVerdict' = V!Classify
  PROVE  VerdictInv'
<1>1. V!Classify' = V!Classify
  BY DEF V!Classify, V!Differences, V!OneSided, V!SweepConverges, V!Data, V!Matched,
     V!HasMore, V!Behind, V!Live
<1>2. Swept => Swept'
  BY DEF Swept, V!Taken, V!Collected, V!Ids
<1>3. (\A k \in V!Ids : V!Behind(k) /\ vPco[k] # 0 => vWatermark <= vPco[k])
      => (\A k \in V!Ids : V!Behind(k) /\ vPco[k] # 0 => vWatermark <= vPco[k])'
  BY DEF V!Behind, V!Live, V!Ids
<1>4. V!Ids' = V!Ids
  BY DEF V!Ids
<1> QED BY <1>1, <1>2, <1>3, <1>4 DEF VerdictInv

(* A verdict of "staleness" is made good by the next sweep, and sweeps     *)
(* after it change nothing: whatever both sides held, and whichever way    *)
(* the resource is swept, but for rows buried by a merge and, under the    *)
(* descending sweep, the watermark's own second.                           *)
THEOREM WhatIsStaleIsSwept == Spec => StalenessIsSwept
<1> DEFINE Inv == part = "verdicts" => VerdictInv
           Repairs == part = "verdicts" => V!SweepRepairs
<1>1. Init => Inv
  <2> SUFFICES ASSUME V!Init PROVE VerdictInv
    BY DEF Init
  <2>1. /\ vPco \in [V!Ids -> 0 .. Seconds] /\ vHeld \in [V!Ids -> V!Rows]
        /\ vWatermark \in 1 .. Seconds /\ vVerdict = "none"
    BY DEF V!Init
  <2>2. \A k \in V!Ids : V!Behind(k) /\ vPco[k] # 0 => vWatermark <= vPco[k]
    BY DEF V!Init, V!Behind
  <2>3. V!Rows \subseteq Held /\ \A row \in V!Rows : row.is = "absent" => row.uat = 0
    BY ServiceAssumption DEF ServiceAssumption, V!VerdictsAssumption, V!Rows, V!NoRow, Held
  <2>4. vHeld \in [V!Ids -> Held] /\ \A k \in V!Ids : vHeld[k].is = "absent" => vHeld[k].uat = 0
    BY <2>1, <2>3
  <2> QED BY <2>1, <2>2, <2>4 DEF VerdictInv
<1>2. ASSUME Inv, [Next]_vars PROVE Inv' /\ [Repairs]_vars
  <2>1. part' = "verdicts" => part = "verdicts"
    BY <1>2 DEF Next, vars, ReadingOnly, VerdictsOnly, DivergenceOnly, SubscriptionsOnly, CorsOnly
  <2> SUFFICES ASSUME part = "verdicts" PROVE VerdictInv' /\ [Repairs]_vars
    BY <2>1
  <2>2. VerdictInv
    BY <1>2
  <2>3. CASE UNCHANGED vars
    BY <2>2, <2>3, VerdictKept DEF vars, verdictsVars
  <2>4. CASE V!Check
    <3>1. vVerdict = "none" /\ vVerdict' = V!Classify
          /\ UNCHANGED <<vPco, vHeld, vFiltered, vDrifted, vMissed, vWatermark, vOffset>>
      BY <2>4 DEF V!Check
    <3>2. VerdictInv'
      BY <2>2, <3>1, VerdictKept
    <3> QED BY <3>1, <3>2 DEF V!SweepRepairs
  <2>5. CASE V!Sweep /\ VerdictsOnly
    <3>1. VerdictInv' /\ (Swept => UNCHANGED verdictsVars)
      BY <2>2, <2>5, SweepSweeps, ServiceAssumption DEF ServiceAssumption
    <3>2. CASE Swept
      <4>1. UNCHANGED vars
        BY <3>1, <3>2, <2>5 DEF vars, VerdictsOnly
      <4> QED BY <3>1, <4>1
    <3>3. CASE ~ Swept
      <4>1. V!SweepRepairs
        <5> SUFFICES ASSUME vVerdict = "staleness", NEW k \in V!Stale, ~ V!OutOfReach(k)
                     PROVE  vHeld'[k] = [is |-> "live", uat |-> vPco[k]]
          BY DEF V!SweepRepairs
        <5> QED BY <2>2, <2>5, <3>3, SweepMends
      <4> QED BY <3>1, <4>1
    <3> QED BY <3>2, <3>3
  <2> QED BY <2>3, <2>4, <2>5, <1>2, VerdictsStep DEF V!Next
<1> QED BY <1>1, <1>2, PTL DEF Spec, StalenessIsSwept
=============================================================================
