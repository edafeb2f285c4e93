---------------------------- MODULE MCScheduler -----------------------------
(* A resource whose endpoint always fails stands first in the registry,    *)
(* before one that is audited and one that is walked.                      *)
EXTENDS Scheduler

CONSTANTS a, b, w

MCRegistry == <<a, b, w>>
MCWalked == {w}
MCAudited == {a, b}
MCBroken == {a}
=============================================================================
