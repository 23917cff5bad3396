------------------------------- MODULE MobileApp -------------------------------
(***************************************************************************)
(* The mobile pages of the web client (app/mobile): submissions that never *)
(* leave the browser (stores/mobile-store.ts).  Each tab keeps a copy,     *)
(* read from localStorage when it is loaded and written back, whole, by    *)
(* every change: no tab hears of what another has written.                 *)
(***************************************************************************)
EXTENDS Integers, Sequences

CONSTANTS Tabs,
          Submissions,     \* bound: what is submitted; seeds are like them
          MaxForms         \* bound: forms that are opened

ASSUME MobileAppAssumption == MaxForms \in Nat

VARIABLES
  memory,   \* each tab's submissions
  stored,   \* "cmr-mobile" in localStorage
  screen,   \* the page of each tab
  tabForm,  \* the publish form of each tab: which fields are long enough
  forms,
  (* History. *)
  made,     \* ids that were submitted
  behind    \* a tab has written without having read what another wrote

mobile == <<memory, stored, screen, tabForm, forms, made, behind>>

allSteps == <<"submitted", "editor", "chief", "direction", "published">>
Absent == [step |-> "none", history |-> <<>>]
Empty == [s \in Submissions |-> Absent]
NoForm == [title |-> FALSE, body |-> FALSE]

MobileInit ==
  /\ memory = [t \in Tabs |-> Empty] /\ stored = Empty
  /\ screen = [t \in Tabs |-> "closed"] /\ tabForm = [t \in Tabs |-> NoForm] /\ forms = 0
  /\ made = {} /\ behind = FALSE

-----------------------------------------------------------------------------
(* The store *)

\* set, then persist writes all of it.
Set_(t, submissions) ==
  /\ memory' = [memory EXCEPT ![t] = submissions]
  /\ stored' = submissions
  /\ behind' = (behind \/ stored # memory[t])

submit(t, s) ==
  /\ s \notin made /\ made' = made \cup {s}
  /\ Set_(t, [memory[t] EXCEPT ![s] = [step |-> "submitted", history |-> <<"submitted">>]])

nextStep_(step) ==
  CASE step = "submitted" -> "editor"
    [] step = "editor" -> "chief"
    [] step = "chief" -> "direction"
    [] OTHER -> "published"

Advanced(sub) ==
  [step |-> nextStep_(sub.step), history |-> Append(sub.history, nextStep_(sub.step))]

advance(t, s) == Set_(t, [memory[t] EXCEPT ![s] = Advanced(@)])

-----------------------------------------------------------------------------
(* The pages *)

Stay == UNCHANGED <<memory, stored, made, behind>>

\* A tab is opened, or its page loaded again.
load(t) ==
  /\ screen[t] = "closed" \/ memory[t] # stored
  /\ memory' = [memory EXCEPT ![t] = stored]
  /\ screen' = [screen EXCEPT ![t] = "contenus"] /\ tabForm' = [tabForm EXCEPT ![t] = NoForm]
  /\ UNCHANGED <<stored, made, behind, forms>>

\* Links and the address bar; an id the tab does not know shows "introuvable".
goTo(t, page) ==
  /\ screen[t] \notin {"closed", page} /\ screen' = [screen EXCEPT ![t] = page]
  /\ tabForm' = [tabForm EXCEPT ![t] = NoForm]
  /\ forms' = IF page = "publish" THEN forms + 1 ELSE forms
  /\ forms' <= MaxForms
  /\ Stay

close(t) ==
  /\ screen[t] # "closed" /\ screen' = [screen EXCEPT ![t] = "closed"]
  /\ tabForm' = [tabForm EXCEPT ![t] = NoForm]
  /\ UNCHANGED forms /\ Stay

setField(t, field) ==
  /\ screen[t] = "publish"
  /\ tabForm' = [tabForm EXCEPT ![t][field] = ~@]
  /\ UNCHANGED <<screen, forms>> /\ Stay

canSubmit(t) == tabForm[t].title /\ tabForm[t].body

handleSubmit_(t, s) ==
  /\ screen[t] = "publish" /\ canSubmit(t)
  /\ submit(t, s)
  /\ screen' = [screen EXCEPT ![t] = s] /\ tabForm' = [tabForm EXCEPT ![t] = NoForm]
  /\ UNCHANGED forms

\* The button of the detail page is gone once published.
handleAdvance_(t, s) ==
  /\ screen[t] = s /\ memory[t][s].step \notin {"none", "published"}
  /\ advance(t, s)
  /\ UNCHANGED <<screen, tabForm, forms, made>>

MobileNext ==
  \E t \in Tabs :
    \/ load(t) \/ close(t)
    \/ \E page \in Submissions \cup {"contenus", "publish"} : goTo(t, page)
    \/ \E field \in {"title", "body"} : setField(t, field)
    \/ \E s \in Submissions : handleSubmit_(t, s) \/ handleAdvance_(t, s)

-----------------------------------------------------------------------------
Steps_ == {allSteps[i] : i \in 1..5}
Submission == [step : Steps_ \cup {"none"}, history : UNION {[1..n -> Steps_] : n \in 0..5}]

MobileTypeOK ==
  /\ \A t \in Tabs, s \in Submissions : memory[t][s] \in Submission
  /\ \A s \in Submissions : stored[s] \in Submission
  /\ screen \in [Tabs -> Submissions \cup {"closed", "contenus", "publish"}]
  /\ tabForm \in [Tabs -> [title : BOOLEAN, body : BOOLEAN]]
  /\ forms \in 0..MaxForms /\ made \subseteq Submissions /\ behind \in BOOLEAN

\* The pipeline shown for a submission is the one it went through, each step
\* once and in order (mobile-store.ts 89-113), in every copy there is; and no
\* submission is lost or taken back a step, unless two tabs wrote at a time:
\* the later one writes back what it had read (72-119).
SubmissionsAreWhole ==
  /\ \A s \in Submissions, copy \in {stored} \cup {memory[t] : t \in Tabs} :
       copy[s].step # "none" =>
         /\ copy[s].history = SubSeq(allSteps, 1, Len(copy[s].history))
         /\ copy[s].step = allSteps[Len(copy[s].history)]
  /\ ~behind =>
       \A s \in Submissions :
         /\ s \in made => stored[s].step # "none"
         /\ \A t \in Tabs : Len(memory[t][s].history) <= Len(stored[s].history)
=============================================================================
