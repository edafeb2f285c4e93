-------------------------------- MODULE Cors ---------------------------------
(***************************************************************************)
(* Cross-origin access (cors.py): the policy in force, the preflight and   *)
(* the headers of every answer, between a browser's pages and a cache that *)
(* stands before the mirror and minds Vary.                                *)
(*                                                                         *)
(* An origin is the sequence of its scheme and port, its top-level domain, *)
(* and so on down to its first label; <<"null">> is `null', and <<>> is no *)
(* Origin header, or one that is not an origin.  A pattern is an origin,   *)
(* or everything below one: `*' is everything.                             *)
(*                                                                         *)
(* Pages only send requests that need a preflight.  The browser does not   *)
(* cache it: max_age is of no account to what is allowed.                  *)
(*                                                                         *)
(* An operator named Mut... is a deliberately wrong variant of the one it  *)
(* precedes; nothing uses it but the checks that a property notices.       *)
(***************************************************************************)
EXTENDS Naturals, FiniteSets, SequencesExt

CONSTANTS
  Origins,   \* of the pages, <<>> among them
  Patterns,  \* that may be configured
  Forms,     \* what the environment and the operator may ask for
  MaxEdits   \* bound on the changes of the policy

Everything == [below |-> TRUE, of |-> <<>>]
AnyHeader == "*"
Unset == {"unset"}

Methods == {"GET", "POST", "PATCH", "DELETE"}
CacheHeaders == {"cache-control", "if-none-match"}
Headers == {"authorization", "content-type", "x-app", AnyHeader} \cup CacheHeaders
Exposable == {"location", AnyHeader}

(* Names and the number of seconds are left out: they only word messages,  *)
(* and fill a header nobody here reads.                                    *)
Form == [origins : SUBSET Patterns, methods : SUBSET (Methods \cup {"PUT"}),
         headers : SUBSET Headers, expose : (SUBSET Exposable) \cup {Unset}, credentials : BOOLEAN]
Policy == [origins : SUBSET Patterns, methods : SUBSET Methods, headers : SUBSET Headers,
           expose : SUBSET Exposable, credentials : BOOLEAN]

-----------------------------------------------------------------------------
(* The one validator. *)

Off == [origins |-> {}, methods |-> Methods, headers |-> {"authorization", "content-type"},
        expose |-> {"location"}, credentials |-> FALSE]

(* Blank means the default, but for the headers a page may read.           *)
Filled(f) ==
  [origins |-> f.origins,
   methods |-> IF f.methods = {} THEN Off.methods ELSE f.methods,
   headers |-> IF f.headers = {} THEN Off.headers ELSE f.headers,
   expose |-> IF f.expose = Unset THEN Off.expose ELSE f.expose,
   credentials |-> f.credentials]

Refused(f) ==
  /\ f.origins # {}
  /\ \/ Everything \in f.origins /\ f.origins # {Everything}
     \/ ~ f.methods \subseteq Methods
     \/ f.credentials /\ (Everything \in f.origins \/ AnyHeader \in Filled(f).headers \cup Filled(f).expose)

Build(f) == IF f.origins = {} THEN Off ELSE Filled(f)

(* A stored policy goes through the validator again. *)
Decode(p) ==
  Build([origins |-> p.origins, methods |-> p.methods, headers |-> p.headers,
         expose |-> p.expose, credentials |-> p.credentials])

-----------------------------------------------------------------------------
(* What a policy allows. *)

Enabled(p) == p.origins # {}
AnyOrigin(p) == Everything \in p.origins

Matches(pattern, o) ==
  IF pattern.below THEN IsStrictPrefix(pattern.of, o) ELSE pattern.of = o
AllowsOrigin(p, o) == o # <<>> /\ \E pattern \in p.origins : Matches(pattern, o)

Varies(p) == ~AnyOrigin(p) \/ p.credentials

AllowsHeader(p, h) ==
  h \in CacheHeaders \cup {"content-type"} \/ AnyHeader \in p.headers \/ h \in p.headers

MutAdvertised(p) == p.headers

Advertised(p) == IF AnyHeader \in p.headers THEN {AnyHeader} ELSE p.headers \cup CacheHeaders

-----------------------------------------------------------------------------
(* The headers of an answer. *)

NoHeader == <<"none">>          \* no origin is that
Echo(p, o) ==
  IF ~AllowsOrigin(p, o) THEN NoHeader
  ELSE IF AnyOrigin(p) /\ ~p.credentials THEN <<"*">> ELSE o

MutAttach(p, o) ==
  [allow |-> Echo(p, o), credentials |-> p.credentials /\ AllowsOrigin(p, o),
   expose |-> IF AllowsOrigin(p, o) THEN p.expose ELSE {},
   vary |-> Enabled(p) /\ Varies(p) /\ AllowsOrigin(p, o)]

(* Of every answer, refusals and errors too; and Vary whatever the origin. *)
Attach(p, o) ==
  [allow |-> Echo(p, o), credentials |-> p.credentials /\ AllowsOrigin(p, o),
   expose |-> IF AllowsOrigin(p, o) THEN p.expose ELSE {},
   vary |-> Enabled(p) /\ Varies(p)]

(* While the policy is off OPTIONS is a 405, without any of these.         *)
Preflight(p, o) ==
  [answer |-> Attach(p, o),
   methods |-> IF AllowsOrigin(p, o) THEN p.methods ELSE {},
   headers |-> IF AllowsOrigin(p, o) THEN Advertised(p) ELSE {}]

(* The answer says in words that it refuses. *)
Explained(p, o, method, hs) ==
  ~AllowsOrigin(p, o) \/ method \notin p.methods \/ \E h \in hs : ~AllowsHeader(p, h)

(* The browser, which reads the other headers alone.  To it `*' covers     *)
(* neither a request with credentials nor Authorization, and a             *)
(* Content-Type of application/vnd.api+json needs permission like any.     *)
Readable(answer, o, credentialed) ==
  /\ answer.allow = o \/ (answer.allow = <<"*">> /\ ~credentialed)
  /\ credentialed => answer.credentials
MaySend(said, o, credentialed, method, hs) ==
  /\ Readable(said.answer, o, credentialed) /\ method \in said.methods
  /\ \A h \in hs :
       h \in said.headers \/ (AnyHeader \in said.headers /\ h # "authorization" /\ ~credentialed)

-----------------------------------------------------------------------------
CorsAssumption ==
  Origins \subseteq Seq(STRING) \ {NoHeader} /\ Forms \subseteq Form /\ MaxEdits \in Nat

VARIABLES
  default,  \* the environment's policy
  stored,   \* the operator's, if there is one
  edits,    \* how often it was changed
  kept,     \* the answer the cache keeps, if any
  shown     \* the answer a page has just been handed

vars == <<default, stored, edits, kept, shown>>

Wanted == IF stored = {} THEN default ELSE CHOOSE p \in stored : TRUE
InForce == IF stored = {} THEN default ELSE Decode(CHOOSE p \in stored : TRUE)

Made(o) == [head |-> Attach(InForce, o), for |-> o, by |-> edits]
Nothing == [origin |-> <<>>, credentialed |-> FALSE, answer |-> [head |-> Attach(Off, <<>>), for |-> <<>>, by |-> 0]]

TypeOK ==
  /\ default \in Policy /\ stored \subseteq Policy /\ Cardinality(stored) <= 1
  /\ edits \in 0 .. MaxEdits
  /\ Cardinality(kept) <= 1 /\ \A a \in kept : a.for \in Origins /\ a.by \in 0 .. edits
  /\ shown.origin \in Origins

Init ==
  /\ default \in {Build(f) : f \in {f \in Forms : ~Refused(f)}}
  /\ stored = {} /\ edits = 0 /\ kept = {} /\ shown = Nothing

(* The operator saves a form, or hands back to the environment.            *)
Save ==
  /\ edits < MaxEdits /\ edits' = edits + 1
  /\ \E f \in Forms : ~Refused(f) /\ stored' = {Build(f)}
  /\ shown' = Nothing /\ UNCHANGED <<default, kept>>

Reset ==
  /\ edits < MaxEdits /\ edits' = edits + 1
  /\ stored # {} /\ stored' = {}
  /\ shown' = Nothing /\ UNCHANGED <<default, kept>>

Gets(o, credentialed) ==
  o = <<>> \/ MaySend(Preflight(InForce, o), o, credentialed, "GET", {})

(* A page that may send, a page that sends without asking, or a caller     *)
(* that is no browser gets an answer of the mirror's.                      *)
Ask ==
  \E o \in Origins :
    /\ kept' \in {kept, {Made(o)}}
    /\ \E credentialed \in BOOLEAN :
         shown' = IF o # <<>> /\ Gets(o, credentialed)
                  THEN [origin |-> o, credentialed |-> credentialed, answer |-> Made(o)] ELSE Nothing
    /\ UNCHANGED <<default, stored, edits>>

(* A page gets the one the cache keeps, made for it or said not to vary.   *)
AskCache ==
  \E o \in Origins \ {<<>>}, credentialed \in BOOLEAN :
    /\ Gets(o, credentialed)
    /\ \E a \in kept :
         /\ a.head.vary => a.for = o
         /\ shown' = [origin |-> o, credentialed |-> credentialed, answer |-> a]
    /\ UNCHANGED <<default, stored, edits, kept>>

Expire ==
  /\ kept' = {} /\ shown' = Nothing
  /\ UNCHANGED <<default, stored, edits>>

Next == Save \/ Reset \/ Ask \/ AskCache \/ Expire

Spec == Init /\ [][Next]_vars

-----------------------------------------------------------------------------
(* A page that may send may read what it gets, whoever's answer the cache  *)
(* hands it, as long as the policy stands (attach, varies_by_origin).  The *)
(* code fails it when `*' is allowed and the answer was made for a caller  *)
(* without an Origin: it says neither `*' nor Vary.                        *)
MaySendMayRead ==
  shown.origin # <<>> /\ shown.answer.by = edits
  /\ ~(AnyOrigin(InForce) /\ shown.answer.for = <<>>)
    => Readable(shown.answer.head, shown.origin, shown.credentialed)

(* What allows_header lets pass and the advertised list does not say: the  *)
(* browser refuses it, and nothing explains why.                           *)
Unspoken(p) ==
  IF AnyHeader \in p.headers THEN {"authorization"} ELSE {"content-type"} \ p.headers

(* Browsers do what was saved, no more and no less: they send what the     *)
(* policy does not explain to refuse, and read the headers it names        *)
(* (advertised_headers, decode).  Two headers are excepted, which the code *)
(* passes and does not advertise: Authorization under a header list of     *)
(* `*', and a JSON:API Content-Type under a list that leaves it out.       *)
BrowsersObey ==
  \A o \in Origins \ {<<>>} :
    /\ AllowsOrigin(Wanted, o) => Attach(InForce, o).expose = Wanted.expose
    /\ \A method \in Methods, h \in Headers \ ({AnyHeader} \cup Unspoken(Wanted)) :
         MaySend(Preflight(InForce, o), o, FALSE, method, {h})
           <=> ~Explained(Wanted, o, method, {h})
=============================================================================
