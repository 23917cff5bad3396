---------------------------- MODULE AutomationsPage ----------------------------
(***************************************************************************)
(* The switches of the automations page (automatisations/page.tsx) and the *)
(* rules they set (automations.controller.ts).  A switch shows at once     *)
(* what it was set to, from then on and until the page is left: an error   *)
(* puts back what the list said at the click.  It waits only while its own *)
(* rule is the latest one changed, and only the latest change hears its    *)
(* answer.                                                                 *)
(***************************************************************************)
EXTENDS Naturals, FiniteSets

CONSTANTS Rules,
          Toggles          \* changes that can be under way at once

ASSUME AutomationsPageAssumption == IsFiniteSet(Rules) /\ IsFiniteSet(Toggles)

VARIABLES
  active,     \* API: each rule
  rules,      \* the list, as last fetched
  onItsWay,   \* what the API answered to it, not yet shown: none or one
  invalid,    \* it was invalidated and is not asked for again yet
  overrides,  \* of the page: "none", "on" or "off"
  toggle,     \* changes under way
  misled      \* history: switches whose change nobody followed to its end

automations == <<active, rules, onItsWay, invalid, overrides, toggle, misled>>

OnOff == {"on", "off"}
NoToggle == [on |-> "none", to |-> "off", was |-> "off", at |-> "idle", latest |-> FALSE]

AutomationsInit ==
  /\ active \in [Rules -> OnOff] /\ rules = active /\ onItsWay = {} /\ invalid = FALSE
  /\ overrides = [r \in Rules |-> "none"]
  /\ toggle = [t \in Toggles |-> NoToggle] /\ misled = {}

isActive(r) == IF overrides[r] = "none" THEN rules[r] ELSE overrides[r]

\* disabled: isPending and variables are those of the latest mutation.
Enabled_(r) == \A t \in Toggles : ~(toggle[t].latest /\ toggle[t].on = r)

\* The change before the latest one is no longer followed; nor is one that was
\* made on a list yet to be fetched again, should it fail.
handleToggle(t, r) ==
  LET v == IF isActive(r) = "on" THEN "off" ELSE "on" IN
  /\ toggle[t].at = "idle" /\ Enabled_(r)
  /\ overrides' = [overrides EXCEPT ![r] = v]
  /\ toggle' = [u \in Toggles |->
       IF u = t THEN [on |-> r, to |-> v, was |-> rules[r], at |-> "sent", latest |-> TRUE]
       ELSE [toggle[u] EXCEPT !.latest = FALSE]]
  /\ misled' = misled \cup {toggle[u].on : u \in {u \in Toggles : toggle[u].latest}}
                     \cup (IF rules[r] = active[r] /\ onItsWay \subseteq {active} THEN {} ELSE {r})
  /\ UNCHANGED <<active, rules, onItsWay, invalid>>

\* PATCH automations/:id.
toggled(t) ==
  /\ toggle[t].at = "sent"
  /\ active' = [active EXCEPT ![toggle[t].on] = toggle[t].to]
  /\ toggle' = [toggle EXCEPT ![t].at = "ok"]
  /\ UNCHANGED <<rules, onItsWay, invalid, overrides, misled>>

\* Refused by the API.
notToggled(t) ==
  /\ toggle[t].at = "sent" /\ toggle' = [toggle EXCEPT ![t].at = "failed"]
  /\ UNCHANGED <<active, rules, onItsWay, invalid, overrides, misled>>

\* The change is made, and the page is told it failed.
changeUnheard(t) ==
  /\ toggle[t].at = "ok" /\ toggle' = [toggle EXCEPT ![t].at = "failed"]
  /\ misled' = misled \cup {toggle[t].on}
  /\ UNCHANGED <<active, rules, onItsWay, invalid, overrides>>

\* invalidateQueries, of the hook: also when the page is gone.
toggleSucceeds(t) ==
  /\ toggle[t].at = "ok" /\ invalid' = TRUE
  /\ toggle' = [toggle EXCEPT ![t] = NoToggle]
  /\ UNCHANGED <<active, rules, onItsWay, overrides, misled>>

\* Slip: an error leaves the switch where it was put.
RestoredNot(t) == overrides

Restored(t) == IF toggle[t].latest THEN [overrides EXCEPT ![toggle[t].on] = toggle[t].was] ELSE overrides

toggleFails(t) ==
  /\ toggle[t].at = "failed"
  /\ overrides' = Restored(t)
  /\ toggle' = [toggle EXCEPT ![t] = NoToggle]
  /\ UNCHANGED <<active, rules, onItsWay, invalid, misled>>

\* The list is asked for, answered, and shown.
refetchRules ==
  /\ onItsWay' = {active} /\ invalid' = FALSE
  /\ UNCHANGED <<active, rules, overrides, toggle, misled>>

rulesShown ==
  /\ rules' \in onItsWay /\ onItsWay' = {}
  /\ UNCHANGED <<active, invalid, overrides, toggle, misled>>

\* The switches are those of the list again; what is under way goes on unheard.
reopenPage ==
  /\ overrides' = [r \in Rules |-> "none"]
  /\ toggle' = [t \in Toggles |-> [toggle[t] EXCEPT !.latest = FALSE]]
  /\ misled' = misled \cup {toggle[t].on : t \in {t \in Toggles : toggle[t].at # "idle"}}
  /\ UNCHANGED <<active, rules, onItsWay, invalid>>

AutomationsNext ==
  \/ refetchRules \/ rulesShown \/ reopenPage
  \/ \E t \in Toggles :
       \/ toggled(t) \/ notToggled(t) \/ changeUnheard(t) \/ toggleSucceeds(t) \/ toggleFails(t)
       \/ \E r \in Rules : handleToggle(t, r)

-----------------------------------------------------------------------------
AutomationsTypeOK ==
  /\ active \in [Rules -> OnOff] /\ rules \in [Rules -> OnOff]
  /\ onItsWay \subseteq [Rules -> OnOff] /\ Cardinality(onItsWay) <= 1 /\ invalid \in BOOLEAN
  /\ overrides \in [Rules -> OnOff \cup {"none"}]
  /\ toggle \in [Toggles -> [on : Rules \cup {"none"}, to : OnOff, was : OnOff,
                             at : {"idle", "sent", "ok", "failed"}, latest : BOOLEAN]]
  /\ misled \subseteq Rules

Settled_ == /\ \A t \in Toggles : toggle[t].at = "idle"
            /\ ~invalid /\ onItsWay = {}

\* Once every change is answered and the list has been fetched, each switch is
\* where its rule is (automatisations/page.tsx 36-60): unless another rule was
\* changed, or the page left, before its answer, the answer was lost, or the
\* switch was used again before the list had come back.
SwitchIsTrue == Settled_ => \A r \in Rules \ misled : isActive(r) = active[r]
=============================================================================
