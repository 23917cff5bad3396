---------------------------- MODULE ValidationDesk ----------------------------
(***************************************************************************)
(* Deciding on pending contents from the web client: the list and the      *)
(* sheet of the home page (pending-contents-list.tsx, content-detail-      *)
(* sheet.tsx) and the workflows page.  A decision names a content, not a   *)
(* step: the API takes it at the step the instance has by then.  What      *)
(* keeps one from being taken twice is that a decided item is hidden from  *)
(* the list of the home page; the workflows page only asks for its list    *)
(* again.                                                                  *)
(***************************************************************************)
EXTENDS Rbac, FiniteSets

CONSTANTS Instances,
          Deciders,        \* decisions that can be under way at once
          DeskRoles        \* of the user

ASSUME ValidationDeskAssumption ==
  IsFiniteSet(Instances) /\ IsFiniteSet(Deciders) /\ DeskRoles \subseteq Role

VARIABLES
  role,      \* of the user
  route,     \* "home" or "workflows"
  step,      \* API: the step of each instance; "closed" once refused or published
  listed,    \* the list of the home page, as last fetched
  fetched,   \* what the API has answered to it, not yet shown
  hidden,    \* usePendingStore: validated and rejected
  sheet,     \* instances whose sheet is open: none or one
  decision,  \* under way
  (* History. *)
  strays     \* instances decided elsewhere, twice, or with an answer nobody heard

desk == <<role, route, step, listed, fetched, hidden, sheet, decision, strays>>

Routes == {"home", "workflows"}
Steps == WorkflowStep \cup {"closed"}
NoDecision == [does |-> "none", on |-> "none", saw |-> "none", at |-> "idle", heard |-> FALSE]

DeskInit ==
  /\ role \in DeskRoles /\ route = "home"
  /\ step \in [Instances -> {"submitted", "editor"}]
  /\ listed = step /\ fetched = {}
  /\ hidden = {} /\ sheet = {} /\ decision = [d \in Deciders |-> NoDecision]
  /\ strays = {}

UnderWay(i) == {d \in Deciders : decision[d].on = i}

-----------------------------------------------------------------------------
(* What the pages show *)

PERMISSION_ROLES == [editor |-> {"editor", "chief", "direction", "admin"},
                     chief |-> {"chief", "direction", "admin"},
                     direction |-> {"direction", "admin"}]

\* content.validate.submitted is no permission: asking for it throws.
canValidatePending(s) == s \in DOMAIN PERMISSION_ROLES /\ role \in PERMISSION_ROLES[s]

list == {i \in Instances : listed[i] # "closed" /\ i \notin hidden}

\* One freshly submitted instance in the list and the page does not render.
HomeRenders == route = "home" /\ \A i \in list : listed[i] # "submitted"

\* isPending of a hook is that of its latest mutation.
isPending(does) == \E d \in Deciders : decision[d].does \in does /\ decision[d].heard

-----------------------------------------------------------------------------
(* The user *)

\* mutate: an older mutation of the same hook loses its callbacks.
Decide(d, does, i, saw) ==
  /\ decision[d].at = "idle"
  /\ decision' = [e \in Deciders |->
       IF e = d THEN [does |-> does, on |-> i, saw |-> saw, at |-> "sent", heard |-> TRUE]
       ELSE [decision[e] EXCEPT !.heard = @ /\ decision[e].does # does]]
  /\ strays' = strays \cup {decision[e].on : e \in {e \in Deciders : decision[e].does = does}}
                   \cup (IF route = "workflows" \/ UnderWay(i) # {} THEN {i} ELSE {})
  /\ UNCHANGED <<role, route, step, listed, fetched, hidden>>

handleQuickValidate(d, i) ==
  /\ HomeRenders /\ i \in list /\ sheet = {}
  /\ canValidatePending(listed[i]) /\ ~isPending({"validate", "reject"})
  /\ Decide(d, "validate", i, listed[i])
  /\ UNCHANGED sheet

openSheet(i) ==
  /\ HomeRenders /\ i \in list /\ sheet = {} /\ sheet' = {i}
  /\ UNCHANGED <<role, route, step, listed, fetched, hidden, decision, strays>>

closeSheet ==
  /\ sheet # {} /\ sheet' = {}
  /\ UNCHANGED <<role, route, step, listed, fetched, hidden, decision, strays>>

\* The sheet waits for no mutation, says it is done and closes.
performFromSheet(d, i, does) ==
  /\ HomeRenders /\ i \in sheet /\ i \in list
  /\ canValidatePending(listed[i])
  /\ Decide(d, does, i, listed[i])
  /\ sheet' = {}

\* Both buttons wait for the mutation, not for the list that follows it.
handleAdvance(d, i, does) ==
  /\ route = "workflows" /\ ~isPending({"advance", "refuse"})
  /\ Decide(d, does, i, "none")
  /\ UNCHANGED sheet

\* The callbacks go with the page; so does the sheet.
navigate(p) ==
  /\ p # route /\ route' = p /\ sheet' = {}
  /\ decision' = [d \in Deciders |-> [decision[d] EXCEPT !.heard = FALSE]]
  /\ strays' = strays \cup {i \in Instances : UnderWay(i) # {}}
  /\ UNCHANGED <<role, step, listed, fetched, hidden>>

-----------------------------------------------------------------------------
(* The API *)

Refuses(d) == decision[d].does \in {"reject", "refuse"}

StepAfter(d, i) ==
  IF Refuses(d) \/ nextStep[step[i]] = "published" THEN "closed" ELSE nextStep[step[i]]

\* advance decides at the step of the moment; listPending leaves out the closed.
applied_(d) ==
  LET i == decision[d].on IN
  /\ decision[d].at = "sent" /\ step[i] # "closed" /\ MayDecide(role, step[i])
  /\ step' = [step EXCEPT ![i] = StepAfter(d, i)]
  /\ decision' = [decision EXCEPT ![d].at = "ok"]
  /\ UNCHANGED <<role, route, listed, fetched, hidden, sheet, strays>>

\* Bound: once; nothing is promised of a stray.
decidedElsewhere(i) ==
  /\ i \notin strays
  /\ step[i] # "closed" /\ step' = [step EXCEPT ![i] = nextStep[@]]
  /\ nextStep[step[i]] # "published"
  /\ strays' = strays \cup {i}
  /\ UNCHANGED <<role, route, listed, fetched, hidden, sheet, decision>>

-----------------------------------------------------------------------------
(* The answers *)

\* Slip: the item is left to the list that is asked for again.
HiddenNot(d) == hidden

\* validateLocal, rejectLocal: of the latest mutation of a page still there.
Hidden(d) ==
  IF decision[d].heard /\ decision[d].does \in {"validate", "reject"}
  THEN hidden \cup {decision[d].on} ELSE hidden

\* The lists that a success asks for again: "pending" is no list of anyone's.
onSuccess_(d) ==
  /\ decision[d].at = "ok"
  /\ hidden' = Hidden(d)
  /\ decision' = [decision EXCEPT ![d] = NoDecision]
  /\ UNCHANGED <<role, route, step, listed, fetched, sheet, strays>>

\* The API refused, or its answer never arrived, whatever it did.
onError_(d) ==
  /\ decision[d].at # "idle" /\ decision' = [decision EXCEPT ![d] = NoDecision]
  /\ strays' = IF decision[d].at = "ok" THEN strays \cup {decision[d].on} ELSE strays
  /\ UNCHANGED <<role, route, step, listed, fetched, hidden, sheet>>

\* The list is asked for when it is stale, was invalidated or failed; asking
\* again drops an answer on its way.
refetch ==
  /\ route = "home" /\ fetched' = {step}
  /\ UNCHANGED <<role, route, step, listed, hidden, sheet, decision, strays>>

shown_ ==
  /\ listed' \in fetched /\ fetched' = {}
  /\ UNCHANGED <<role, route, step, hidden, sheet, decision, strays>>

DeskNext ==
  \/ \E p \in Routes : navigate(p)
  \/ refetch \/ shown_ \/ closeSheet
  \/ \E i \in Instances : openSheet(i) \/ decidedElsewhere(i)
  \/ \E d \in Deciders :
       \/ applied_(d) \/ onSuccess_(d) \/ onError_(d)
       \/ \E i \in Instances :
            \/ handleQuickValidate(d, i)
            \/ \E does \in {"validate", "reject"} : performFromSheet(d, i, does)
            \/ \E does \in {"advance", "refuse"} : handleAdvance(d, i, does)

-----------------------------------------------------------------------------
DeskTypeOK ==
  /\ role \in Role /\ route \in Routes /\ step \in [Instances -> Steps]
  /\ listed \in [Instances -> Steps] /\ fetched \subseteq [Instances -> Steps]
  /\ Cardinality(fetched) <= 1
  /\ hidden \subseteq Instances /\ sheet \subseteq Instances /\ Cardinality(sheet) <= 1
  /\ decision \in [Deciders ->
       [does : {"none", "validate", "reject", "advance", "refuse"}, on : Instances \cup {"none"},
        saw : Steps \cup {"none"}, at : {"idle", "sent", "ok"}, heard : BOOLEAN]]
  /\ strays \subseteq Instances

\* A decision on its way from the home page reaches the step it displayed
\* (pending-contents-list.tsx 48-76): unless its instance was also decided
\* elsewhere, on the workflows page or from the sheet meanwhile, or an earlier
\* answer about it was lost, came after the page was left or after the next
\* decision was sent.
DecisionsAreAsShown ==
  \A d \in Deciders :
    LET i == decision[d].on IN
    decision[d].at = "sent" /\ decision[d].saw # "none" /\ i \notin strays => step[i] = decision[d].saw
=============================================================================
