------------------------- MODULE EditorialPipeline -------------------------
(***************************************************************************)
(* What the editorial chain promises, one atomic step per decision: an     *)
(* article is written, submitted, and then moves through the four levels   *)
(* one at a time, each move signed by somebody entitled to decide at the   *)
(* level the article is AT; a refusal sends it back to the first level;    *)
(* its text changes only while it is a draft; publication is final.        *)
(*                                                                         *)
(* EditorialWorkflow, the code, is shown to implement this module when     *)
(* requests on an article do not overlap.                                  *)
(***************************************************************************)
EXTENDS Rbac, Sequences

CONSTANTS Contents, Users, RoleOf

VARIABLES
  stage,     \* where each article is
  revision,  \* how often its text has changed
  ledger     \* the decisions signed on it, oldest first

vars == <<stage, revision, ledger>>

Stage == {"none", "draft"} \union WorkflowStep

Init ==
  /\ stage = [c \in Contents |-> "none"]
  /\ revision = [c \in Contents |-> 0]
  /\ ledger = [c \in Contents |-> <<>>]

Write(c) ==
  /\ stage[c] = "none"
  /\ stage' = [stage EXCEPT ![c] = "draft"]
  /\ UNCHANGED <<revision, ledger>>

Edit(c) ==
  /\ stage[c] = "draft"
  /\ revision' = [revision EXCEPT ![c] = @ + 1]
  /\ UNCHANGED <<stage, ledger>>

Submit(c) ==
  /\ stage[c] = "draft"
  /\ stage' = [stage EXCEPT ![c] = "submitted"]
  /\ UNCHANGED <<revision, ledger>>

Decide(c, u, decision, to) ==
  /\ stage[c] \in DOMAIN nextStep
  /\ MayDecide(RoleOf[u], stage[c])
  /\ stage' = [stage EXCEPT ![c] = to]
  /\ ledger' = [ledger EXCEPT ![c] =
                  Append(@, [actor |-> u, from |-> stage[c], to |-> to,
                             decision |-> decision])]
  /\ UNCHANGED revision

Approve(c, u) == Decide(c, u, "approve", nextStep[stage[c]])

Refuse(c, u) == Decide(c, u, "reject", "submitted")

Next ==
  \E c \in Contents :
    \/ Write(c) \/ Edit(c) \/ Submit(c)
    \/ \E u \in Users : Approve(c, u) \/ Refuse(c, u)

Spec == Init /\ [][Next]_vars
=============================================================================
