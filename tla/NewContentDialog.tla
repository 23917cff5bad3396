---------------------------- MODULE NewContentDialog ----------------------------
(***************************************************************************)
(* The dialog of the contents page that creates a draft from a template    *)
(* and opens it 200 ms later (new-content-dialog.tsx).  The answer of POST  *)
(* contents can be lost, and the API knows no repeated request: the web    *)
(* client sends no Idempotency-Key.                                        *)
(***************************************************************************)
EXTENDS Naturals

CONSTANTS MaxDrafts        \* bound

ASSUME NewContentDialogAssumption == MaxDrafts \in Nat

VARIABLES
  dialogOpen,
  creating,  \* POST contents: no, sent, made, failed
  opens,     \* timers of router.push under way
  drafts,    \* API: created by this dialog
  opened,    \* the editor was opened on a draft, since the page was
  (* History. *)
  told,      \* drafts the user was told of
  unheard    \* created, with an answer that was lost

dialog == <<dialogOpen, creating, opens, drafts, opened, told, unheard>>

DialogInit ==
  /\ dialogOpen = FALSE /\ creating = "no" /\ opens = 0 /\ drafts = 0
  /\ opened = FALSE /\ told = 0 /\ unheard = 0

onOpenChange ==
  /\ ~opened /\ dialogOpen' = ~dialogOpen
  /\ UNCHANGED <<creating, opens, drafts, opened, told, unheard>>

\* The button waits for the answer.
handleCreate ==
  /\ dialogOpen /\ creating = "no" /\ creating' = "sent"
  /\ UNCHANGED <<dialogOpen, opens, drafts, opened, told, unheard>>

draftCreated == drafts' = drafts + 1

\* POST contents: a draft, or a refusal.
createAnswers(ok) ==
  /\ creating = "sent" /\ drafts < MaxDrafts
  /\ creating' = IF ok THEN "made" ELSE "failed"
  /\ IF ok THEN draftCreated ELSE UNCHANGED drafts
  /\ UNCHANGED <<dialogOpen, opens, opened, told, unheard>>

createUnheard ==
  /\ creating = "made" /\ creating' = "failed" /\ unheard' = unheard + 1
  /\ UNCHANGED <<dialogOpen, opens, drafts, opened, told>>

\* The dialog closes, though it may have been opened anew meanwhile.
created ==
  /\ creating = "made" /\ creating' = "no"
  /\ dialogOpen' = FALSE /\ opens' = opens + 1 /\ told' = told + 1
  /\ UNCHANGED <<drafts, opened, unheard>>

\* The toast of the catch; the dialog stays.
notCreated ==
  /\ creating = "failed" /\ creating' = "no"
  /\ UNCHANGED <<dialogOpen, opens, drafts, opened, told, unheard>>

\* router.push, from wherever the user is by then.
draftOpens ==
  /\ opens > 0 /\ opens' = opens - 1
  /\ opened' = TRUE /\ dialogOpen' = FALSE
  /\ UNCHANGED <<creating, drafts, told, unheard>>

backToContents ==
  /\ opened /\ opened' = FALSE
  /\ UNCHANGED <<dialogOpen, creating, opens, drafts, told, unheard>>

DialogNext ==
  \/ onOpenChange \/ handleCreate \/ createUnheard \/ created \/ notCreated
  \/ draftOpens \/ backToContents
  \/ \E ok \in BOOLEAN : createAnswers(ok)

-----------------------------------------------------------------------------
DialogTypeOK ==
  /\ dialogOpen \in BOOLEAN /\ creating \in {"no", "sent", "made", "failed"}
  /\ opens \in 0..MaxDrafts /\ drafts \in 0..MaxDrafts /\ opened \in BOOLEAN
  /\ told \in 0..MaxDrafts /\ unheard \in 0..MaxDrafts

\* Every draft that was created was announced and opens, or is about to be
\* (new-content-dialog.tsx 43-62), except those whose answer was lost: they
\* stay, and a second try makes another.
DraftsAreTold == drafts = told + unheard + (IF creating = "made" THEN 1 ELSE 0)
=============================================================================
