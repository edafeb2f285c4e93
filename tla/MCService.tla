----------------------------- MODULE MCService ------------------------------
(* Small values for Service: see Service.cfg.                              *)
EXTENDS Service

(* What the environment's list of subscriptions may be, or what the        *)
(* operator pastes.                                                        *)
Listed(n, content, token) == [id |-> <<0, n>>, content |-> content, token |-> token, asked |-> token # 0]
MCLists == {<<>>, <<Listed(1, 1, 0), Listed(2, 2, 0)>>, <<Listed(1, 2, 1)>>}

(* Pages of an application, of another site and of no origin of their own; *)
(* forms that the validator takes and refuses.                             *)
App == <<"https", "org", "example", "app">>
MCOrigins == {<<>>, <<"null">>, App, <<"https", "org", "evil">>}
Everything == [below |-> TRUE, of |-> <<>>]
Example == [below |-> TRUE, of |-> <<"https", "org", "example">>]
Exactly(o) == [below |-> FALSE, of |-> o]
MCPatterns == {Everything, Example, Exactly(App), Exactly(<<"null">>)}
FormOf(o, m, h, e, c) == [origins |-> o, methods |-> m, headers |-> h, expose |-> e, credentials |-> c]
MCForms ==
  {FormOf(o, {}, h, {"unset"}, c) :
     o \in {{Everything}, {Exactly(App)}, {Example, Exactly(<<"null">>)}}, h \in {{}, {"*"}}, c \in BOOLEAN}
  \cup {FormOf({}, {"GET"}, {}, {"unset"}, FALSE),
        FormOf({Exactly(App)}, {"GET"}, {"x-app"}, {}, FALSE),
        FormOf({Everything, Example}, {}, {}, {"unset"}, FALSE)}

(* Two people of a household, one of another, some in neither. *)
MCHomes == {{}, {11, 12}}
MCMembers == {{1}, {2, 3}}

MCRequests == {<<1, 1>>, <<1, 2>>, <<1, 3>>, <<2, 1>>}
=============================================================================
