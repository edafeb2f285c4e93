------------------------------ MODULE MCWriter ------------------------------
(***************************************************************************)
(* Two worlds of people, checked in one run; `part' is the one a behaviour *)
(* is of.                                                                  *)
(*   merge     Writer: everybody is mirrored, and PCO edits, destroys and  *)
(*             merges.  Creations, restorations and answers to GETs, which *)
(*             this world's constants rule out, are those of MCMirror's    *)
(*   families  Families: a household written through the mirror            *)
(* They share no state: the variables of Families are 0 in the first, the  *)
(* rows of Writer rest as they began in the second.                        *)
(***************************************************************************)
EXTENDS Writer

CONSTANTS Members, Household, MaxSyncPeers, DrainLimit, MaxWrites, MaxFaults

VARIABLES part, there, joined, served, house, carry, young, task, hot, web, budget

familyVars == <<there, joined, served, house, carry, young, task, hot, web, budget>>
mcVars == <<part, vars, familyVars>>

F == INSTANCE Families

ASSUME HouseholdAssumption == F!FamiliesAssumption

NoFamilies ==
  /\ there = 0 /\ joined = 0 /\ served = 0 /\ house = 0 /\ carry = 0
  /\ young = 0 /\ task = 0 /\ hot = 0 /\ web = 0 /\ budget = 0

MCInit ==
  \/ part = "merge" /\ Init /\ NoFamilies
  \/ /\ part = "families" /\ F!Init
     /\ Init /\ \A c \in Children : pco[c].raw.owner = CHOOSE o \in Owners : TRUE

MergeOnly == part = "merge" /\ UNCHANGED <<part, familyVars>>
FamiliesOnly == part = "families" /\ UNCHANGED <<part, vars>>

MCNext ==
  \/ (MergeOnly /\ \E id \in Ids, t \in Time, rels \in RelSets : PcoEdit(id, t, rels))
  \/ (MergeOnly /\ \E id \in Ids : PcoDestroy(id))
  \/ (MergeOnly /\ \E a, b \in Owners, moved \in SUBSET Children : PcoMerge(a, b, moved))
  \/ (MergeOnly /\ \E f \in sent : Deliver(f))
  \/ (FamiliesOnly /\ \E kind \in {"family", "join", "leave", "delete"}, who \in SUBSET Members :
                        F!Relay(kind, who))
  \/ (FamiliesOnly /\ F!WebStep) \/ (FamiliesOnly /\ F!HotStep)
  \/ (FamiliesOnly /\ F!Drain) \/ (FamiliesOnly /\ F!Repair) \/ (FamiliesOnly /\ F!Crash)
  \/ (FamiliesOnly /\ F!MinutePasses) \/ (FamiliesOnly /\ F!HourPasses)
  \/ (FamiliesOnly /\ F!AuditBuries)
  \/ (FamiliesOnly /\ \E p \in Members : F!Replicate(p))

(* The fairness of Families; Writer has none. *)
MCSpec ==
  /\ MCInit /\ [][MCNext]_mcVars
  /\ WF_mcVars(FamiliesOnly /\ F!WebStep) /\ WF_mcVars(FamiliesOnly /\ F!HotStep)
  /\ SF_mcVars(FamiliesOnly /\ F!Drain) /\ SF_mcVars(FamiliesOnly /\ F!Repair)
  /\ WF_mcVars(FamiliesOnly /\ F!MinutePasses) /\ WF_mcVars(FamiliesOnly /\ F!HourPasses)
  /\ WF_mcVars(FamiliesOnly /\ F!AuditBuries)
  /\ WF_mcVars(FamiliesOnly /\ \E p \in Members : F!Replicate(p))

-----------------------------------------------------------------------------
(* Of an edge PCO has, in the end the mirror never holds one half alone,   *)
(* whatever lagged, failed or was lost: nobody is shown on the family's    *)
(* page and told on their own that they have none (repair_split_edges).    *)
HalvesMeet == <>[](part = "families" => F!EdgesMeet)

(* Once the household is gone from the mirror, nobody names it for good    *)
(* (repair_dangling).                                                      *)
NobodyNamesTheDead == <>[](part = "families" => F!DeadUnnamed)
=============================================================================
