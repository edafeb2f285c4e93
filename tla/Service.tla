------------------------------ MODULE Service ------------------------------
(***************************************************************************)
(* What the service does around the mirror, five modules that share no     *)
(* state, checked in one run: `part' says which of them a behaviour is of, *)
(* and the variables of the others are 0 throughout.                       *)
(***************************************************************************)
EXTENDS Integers, Sequences, FiniteSets

CONSTANTS
  People, Households, Homes, Members, MaxWrites, MaxReads,    \* Reading
  PerPage,                                                    \* Reading, Verdicts
  Records, Offsets, Seconds,                                  \* Verdicts
  Requests, Samples, MaxSeen, Rates, Minute, Keep, MaxBytes, Sizes,  \* Divergence
  Numbers, Contents, Chosen, Lists, MaxActs, MaxCrashes,
  TornRebuild, Readds,                                        \* Subscriptions
  Origins, Patterns, Forms, MaxEdits                          \* Cors

VARIABLES
  part,
  rPerson, rHousehold, rRead, rPage, rTotal, rLevel1, rIncluded, rMemo, rEcho, rSeen, rTouched, rLeft,
  vPco, vHeld, vFiltered, vDrifted, vMissed, vWatermark, vOffset, vVerdict,
  dRate, dTokens, dIdle, dCorpus, dStamps, dTodo, dTicked, dLog,
  sAt, sShape, sTable, sAside, sOverride, sTodo, sMinted, sUrl, sSaved, sBudget,
  cDefault, cStored, cEdits, cKept, cShown

readingVars == <<rPerson, rHousehold, rRead, rPage, rTotal, rLevel1, rIncluded, rMemo, rEcho, rSeen, rTouched, rLeft>>
verdictsVars == <<vPco, vHeld, vFiltered, vDrifted, vMissed, vWatermark, vOffset, vVerdict>>
divergenceVars == <<dRate, dTokens, dIdle, dCorpus, dStamps, dTodo, dTicked, dLog>>
subscriptionsVars == <<sAt, sShape, sTable, sAside, sOverride, sTodo, sMinted, sUrl, sSaved, sBudget>>
corsVars == <<cDefault, cStored, cEdits, cKept, cShown>>
vars == <<part, readingVars, verdictsVars, divergenceVars, subscriptionsVars, corsVars>>

R == INSTANCE Reading WITH
  person <- rPerson, household <- rHousehold, read <- rRead, page <- rPage,
  total <- rTotal, level1 <- rLevel1, included <- rIncluded,
  memo <- rMemo, echo <- rEcho, seen <- rSeen, touched <- rTouched,
  left <- rLeft

V == INSTANCE Verdicts WITH
  pco <- vPco, held <- vHeld, filtered <- vFiltered, drifted <- vDrifted,
  missed <- vMissed, watermark <- vWatermark, offset <- vOffset,
  verdict <- vVerdict

D == INSTANCE Divergence WITH
  rate <- dRate, tokens <- dTokens, idle <- dIdle, corpus <- dCorpus,
  stamps <- dStamps, todo <- dTodo, ticked <- dTicked, log <- dLog

S == INSTANCE Subscriptions WITH
  at <- sAt, shape <- sShape, table <- sTable, aside <- sAside,
  override <- sOverride, todo <- sTodo, minted <- sMinted,
  url <- sUrl, saved <- sSaved, budget <- sBudget

C == INSTANCE Cors WITH
  default <- cDefault, stored <- cStored, edits <- cEdits, kept <- cKept,
  shown <- cShown

ASSUME ServiceAssumption ==
  /\ R!ReadingAssumption /\ V!VerdictsAssumption /\ D!DivergenceAssumption
  /\ S!SubscriptionsAssumption /\ C!CorsAssumption

NoReading == rPerson = 0 /\ rHousehold = 0 /\ rRead = 0 /\ rPage = 0 /\ rTotal = 0 /\ rLevel1 = 0 /\ rIncluded = 0 /\ rMemo = 0 /\ rEcho = 0 /\ rSeen = 0 /\ rTouched = 0 /\ rLeft = 0
NoVerdicts == vPco = 0 /\ vHeld = 0 /\ vFiltered = 0 /\ vDrifted = 0 /\ vMissed = 0 /\ vWatermark = 0 /\ vOffset = 0 /\ vVerdict = 0
NoDivergence == dRate = 0 /\ dTokens = 0 /\ dIdle = 0 /\ dCorpus = 0 /\ dStamps = 0 /\ dTodo = 0 /\ dTicked = 0 /\ dLog = 0
NoSubscriptions == sAt = 0 /\ sShape = 0 /\ sTable = 0 /\ sAside = 0 /\ sOverride = 0 /\ sTodo = 0 /\ sMinted = 0 /\ sUrl = 0 /\ sSaved = 0 /\ sBudget = 0
NoCors == cDefault = 0 /\ cStored = 0 /\ cEdits = 0 /\ cKept = 0 /\ cShown = 0

Init ==
  \/ part = "reading" /\ R!Init /\ NoVerdicts /\ NoDivergence /\ NoSubscriptions /\ NoCors
  \/ part = "verdicts" /\ V!Init /\ NoReading /\ NoDivergence /\ NoSubscriptions /\ NoCors
  \/ part = "divergence" /\ D!Init /\ NoReading /\ NoVerdicts /\ NoSubscriptions /\ NoCors
  \/ part = "subscriptions" /\ S!Init /\ NoReading /\ NoVerdicts /\ NoDivergence /\ NoCors
  \/ part = "cors" /\ C!Init /\ NoReading /\ NoVerdicts /\ NoDivergence /\ NoSubscriptions

ReadingOnly == part = "reading" /\ UNCHANGED <<part, verdictsVars, divergenceVars, subscriptionsVars, corsVars>>
VerdictsOnly == part = "verdicts" /\ UNCHANGED <<part, readingVars, divergenceVars, subscriptionsVars, corsVars>>
DivergenceOnly == part = "divergence" /\ UNCHANGED <<part, readingVars, verdictsVars, subscriptionsVars, corsVars>>
SubscriptionsOnly == part = "subscriptions" /\ UNCHANGED <<part, readingVars, verdictsVars, divergenceVars, corsVars>>
CorsOnly == part = "cors" /\ UNCHANGED <<part, readingVars, verdictsVars, divergenceVars, subscriptionsVars>>

(* Every action on its own, for the coverage. *)
Next ==
  \/ (ReadingOnly /\ R!AskList) \/ (ReadingOnly /\ R!AskSingle)
  \/ (ReadingOnly /\ R!AskNested) \/ (ReadingOnly /\ R!AskMember)
  \/ (ReadingOnly /\ R!AskThrough)
  \/ (ReadingOnly /\ R!SingleRow) \/ (ReadingOnly /\ R!Through)
  \/ (ReadingOnly /\ R!Count) \/ (ReadingOnly /\ R!Rows)
  \/ (ReadingOnly /\ R!Level1) \/ (ReadingOnly /\ R!Level2)
  \/ (ReadingOnly /\ R!Echo) \/ (ReadingOnly /\ R!Reply)
  \/ (ReadingOnly /\ R!Done) \/ (ReadingOnly /\ R!WritePerson)
  \/ (ReadingOnly /\ R!WriteHousehold)
  \/ (VerdictsOnly /\ V!Check) \/ (VerdictsOnly /\ V!Sweep)
  \/ (DivergenceOnly /\ D!Observe) \/ (DivergenceOnly /\ D!PassBegin)
  \/ (DivergenceOnly /\ D!Check) \/ (DivergenceOnly /\ D!Wait)
  \/ (DivergenceOnly /\ D!Configure) \/ (DivergenceOnly /\ D!Clear)
  \/ (SubscriptionsOnly /\ S!Create) \/ (SubscriptionsOnly /\ S!Rename)
  \/ (SubscriptionsOnly /\ S!Recreate) \/ (SubscriptionsOnly /\ S!Copy)
  \/ (SubscriptionsOnly /\ S!Drop) \/ (SubscriptionsOnly /\ S!ApplyEnv)
  \/ (SubscriptionsOnly /\ S!EnvUpsert) \/ (SubscriptionsOnly /\ S!Serve)
  \/ (SubscriptionsOnly /\ S!Add) \/ (SubscriptionsOnly /\ S!Import)
  \/ (SubscriptionsOnly /\ S!PageUpsert) \/ (SubscriptionsOnly /\ S!Forget)
  \/ (SubscriptionsOnly /\ S!Toggle) \/ (SubscriptionsOnly /\ S!CliAdd)
  \/ (SubscriptionsOnly /\ S!CliUpsert) \/ (SubscriptionsOnly /\ S!CliRemove)
  \/ (SubscriptionsOnly /\ S!CliDone) \/ (SubscriptionsOnly /\ S!HandBack)
  \/ (SubscriptionsOnly /\ S!TakeOver) \/ (SubscriptionsOnly /\ S!Crash)
  \/ (CorsOnly /\ C!Save) \/ (CorsOnly /\ C!Reset)
  \/ (CorsOnly /\ C!Ask) \/ (CorsOnly /\ C!AskCache)
  \/ (CorsOnly /\ C!Expire)

(* The fairness of Divergence; the others have none. *)
Spec ==
  /\ Init /\ [][Next]_vars
  /\ WF_vars(DivergenceOnly /\ D!PassBegin)
  /\ WF_vars(DivergenceOnly /\ D!Check)
  /\ WF_vars(DivergenceOnly /\ D!Wait)

-----------------------------------------------------------------------------
(* The properties of the modules, each of the behaviours of its own part.  *)
(* Whoever was there all along is on one of the pages of a collection.     *)
PagesCover == part = "reading" => R!PagesCover

(* What an answer's relationships name it sideloads. *)
EchoLinked == part = "reading" => R!EchoLinked

(* The edge of a page accuses nobody. *)
AccusesOnlyTheMissing == part = "verdicts" => V!AccusesOnlyTheMissing

(* What is called stale the next sweep repairs, if it is in its reach. *)
StalenessIsSwept == [][part = "verdicts" => V!SweepRepairs]_vars

(* Every sample is checked again. *)
EverySampleChecked ==
  \A q \in Requests :
    (part = "divergence" /\ D!Awaited(q)) ~> (part = "divergence" /\ D!Attended(q))

(* The log keeps as much of the newest as its bounds allow. *)
NewestKept == [][part = "divergence" => D!KeepsNewest]_vars

(* No start undoes what the operator's page said it saved. *)
SavedStays == part = "subscriptions" => S!SavedStays

(* The address Planning Center was given does not change. *)
UrlKept == part = "subscriptions" => S!UrlKept

(* A page that may send may read what it gets. *)
MaySendMayRead == part = "cors" => C!MaySendMayRead

(* Browsers do what was saved. *)
BrowsersObey == part = "cors" => C!BrowsersObey
=============================================================================
