--------------------------- MODULE MCWebhookInbox ---------------------------
(***************************************************************************)
(* Four events that take the four ways through the inbox: a thin record    *)
(* whose list was refreshed and a merge, in one delivery; in another, which*)
(* PCO therefore repeats for ever, a resource with no table and a payload  *)
(* that does not parse.                                                    *)
(***************************************************************************)
EXTENDS WebhookInbox, TLC

CONSTANTS thin, merge, other, poison, d1, d2

MCEvents == {thin, merge, other, poison}
MCDeliveries == {d1, d2}
MCBatch == (d1 :> <<thin, merge>>) @@ (d2 :> <<other, poison>>)
=============================================================================
