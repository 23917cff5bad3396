------------------------------ MODULE Permissions ------------------------------
(***************************************************************************)
(* What the web client offers to each role (lib/rbac.ts), next to what the *)
(* API lets each role do.  The two are written apart, and the API's part   *)
(* twice over: guards by rank or by list on the controllers, and the table *)
(* advance looks up.                                                       *)
(***************************************************************************)
EXTENDS Rbac

\* Roles of people.
allRoles == Role \ {"service_automation"}
editorialDesk == {"editor", "chief", "direction", "admin"}
seniorEditorial == {"chief", "direction", "admin"}
digitalDesk == {"editor", "chief", "direction", "community_manager", "admin"}

\* Those of PERMISSION_ROLES that stand for an endpoint with a guard.
Offered ==
  [workflows |-> editorialDesk, advance |-> editorialDesk,
   automations |-> {"admin"}, users |-> {"admin"}, audit |-> {"admin"},
   diffusion |-> digitalDesk, analytics |-> {"chief", "direction", "community_manager", "admin"},
   create |-> allRoles, upload |-> digitalDesk,
   editor |-> editorialDesk, chief |-> seniorEditorial, direction |-> {"direction", "admin"}]

can(role, permission) == role \in Offered[permission]

\* useEffectiveRole: without a role of a person, that of the mock user.
effectiveRole(stored) == IF stored \in allRoles THEN stored ELSE "admin"

\* @Roles(required)
Ranked(required) == {role \in Role : RolesAllow(role, required)}

\* advance, behind the guard of the controllers that call it.
Deciding(step) == {role \in Ranked("editor") : MayDecide(role, step)}

\* @ExactRoles(...)
uploadRoles == {"editor", "chief", "direction", "community_manager", "admin"}
diffusionRoles == {"editor", "chief", "direction", "community_manager", "admin"}
analyticsRoles == {"chief", "direction", "community_manager", "admin"}

\* RolesGuard and the services, for the same things.
Guarded ==
  [workflows |-> Ranked("editor"), advance |-> Ranked("editor"),
   automations |-> Ranked("admin"), users |-> Ranked("admin"), audit |-> Ranked("admin"),
   diffusion |-> diffusionRoles, analytics |-> analyticsRoles,
   create |-> Ranked("journalist"), upload |-> uploadRoles,
   editor |-> Deciding("editor"), chief |-> Deciding("chief"), direction |-> Deciding("direction")]
=============================================================================
