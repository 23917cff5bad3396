------------------------------- MODULE Rbac -------------------------------
(***************************************************************************)
(* The role hierarchy of the API: the ranks of roles.decorator.ts, the     *)
(* test RolesGuard makes before a handler runs, and the two role tables    *)
(* the services consult a second time.                                     *)
(***************************************************************************)
EXTENDS Naturals

\* AppRole, a non-human caller included.
Role == {"service_automation", "journalist", "community_manager",
         "editor", "chief", "direction", "admin"}

\* A role of rank >= the required one is enough; service_automation never is.
RANK == [service_automation |-> 0, journalist |-> 1, community_manager |-> 1,
         editor |-> 2, chief |-> 3, direction |-> 4, admin |-> 5]

\* RolesGuard.canActivate for @Roles(required).
RolesAllow(role, required) == RANK[role] >= RANK[required]

\* contents.service isEditorOrAbove: its own RANK has no service_automation
\* entry and reads it as 0, the value it has here.
isEditorOrAbove(role) == RANK[role] >= RANK["editor"]

WorkflowStep == {"submitted", "editor", "chief", "direction", "published"}

\* STEP_ORDER and nextStep: the last step has no successor.
nextStep == [submitted |-> "editor", editor |-> "chief",
             chief |-> "direction", direction |-> "published"]

\* The role that may decide at a step.
requiredRoleFor == [submitted |-> "editor", editor |-> "editor", chief |-> "chief",
                    direction |-> "direction", published |-> "admin"]

\* Slip: any editor decides at any level.
MayDecideAnywhere(role, step) == RANK[role] >= RANK["editor"]

MayDecide(role, step) == RANK[role] >= RANK[requiredRoleFor[step]]
=============================================================================
