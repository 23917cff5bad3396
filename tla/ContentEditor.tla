----------------------------- MODULE ContentEditor -----------------------------
(***************************************************************************)
(* The editor of one content in the web client (content-editor.tsx): the   *)
(* form, its handlers handleSave and handleSubmit, which run on after each *)
(* await and may overlap since no button waits for them, and the row of    *)
(* the API they write.  A text is the profile the score is computed from;  *)
(* each edit, of the title, the body or the channels, makes another one.   *)
(***************************************************************************)
EXTENDS Naturals, FiniteSets

CONSTANTS Clicks           \* handlers that can be under way at once

ASSUME ContentEditorAssumption == IsFiniteSet(Clicks)

VARIABLES
  row,        \* API: text ("own" as created, or a profile) and whether submitted
  form,       \* open, text, dirty
  click,      \* handlers under way
  redirects,  \* a timer of handleSubmit runs
  (* History. *)
  touched,    \* the open form was edited
  overlapped  \* while one of its handlers ran, or two ran at once

editor == <<row, form, click, redirects, touched, overlapped>>

\* Texts and what the score looks at: lengths, share of capitals over 5%, words
\* such as "rumeur", channels.  "own" is the row as createDraft left it.
Profile(t) ==
  CASE t = "seeded" -> [title |-> 50, len |-> 900, words |-> 140, upper |-> FALSE, banned |-> FALSE, channels |-> {"web", "youtube"}]
    [] t = "rumour" -> [title |-> 12, len |-> 80, words |-> 8, upper |-> TRUE, banned |-> TRUE, channels |-> {"web"}]
    [] t = "retitled" -> [title |-> 50, len |-> 80, words |-> 8, upper |-> TRUE, banned |-> TRUE, channels |-> {"web"}]
Texts == {"seeded", "rumour", "retitled"}

NoClick == [does |-> "none", at |-> "idle", text |-> "own", mine |-> FALSE]
Closed == [open |-> FALSE, text |-> "own", dirty |-> FALSE]

EditorInit ==
  /\ row = [text |-> "own", submitted |-> FALSE]
  /\ form = Closed /\ click = [h \in Clicks |-> NoClick] /\ redirects = FALSE
  /\ touched = FALSE /\ overlapped = FALSE

-----------------------------------------------------------------------------
(* computeAIChecks *)

Weighted(bonus) == IF bonus > 100 THEN 100 ELSE bonus

Spelling(t) == Weighted(85 + (IF t.len >= 250 THEN 8 ELSE 0)
                           + (IF t.upper THEN 0 ELSE 4) + (IF t.words > 100 THEN 3 ELSE 0))

Seo(t) == Weighted((IF t.title \in 35..65 THEN 70 ELSE IF t.title \in 25..80 THEN 50 ELSE 25)
                   + (IF t.words >= 80 THEN 25 ELSE IF t.words >= 40 THEN 15 ELSE 0)
                   + (IF Cardinality(t.channels) >= 2 THEN 5 ELSE 0))

Visual == {"youtube", "instagram", "tiktok", "smarttv"}

\* The mean of the seven scores, rounded; copyright is always 100.
computeAIChecks(text) ==
  LET t == Profile(text)
      sum == Spelling(t) + Seo(t) + 100
             + (IF t.channels \cap Visual # {} THEN 96 ELSE 78)
             + (IF t.len < 200 THEN 80 ELSE 100)
             + (IF t.banned THEN 72 + 78 ELSE 97 + 99)
  IN (2 * sum + 7) \div 14

Gate(t) == computeAIChecks(t) >= 75

-----------------------------------------------------------------------------
(* The form *)

Running == {h \in Clicks : click[h].at # "idle"}

\* The page mounts: the excerpt and the seed text, whatever body the API has.
openEditor ==
  /\ ~form.open
  /\ form' = [open |-> TRUE, text |-> "seeded", dirty |-> FALSE]
  /\ touched' = FALSE /\ overlapped' = (Running # {})
  /\ UNCHANGED <<row, click, redirects>>

\* Handlers run on after the page is left, but hold the form that is gone.
Unmount ==
  /\ form' = Closed /\ touched' = FALSE /\ overlapped' = FALSE
  /\ click' = [h \in Clicks |-> [click[h] EXCEPT !.mine = FALSE]]

leaveEditor == form.open /\ Unmount /\ UNCHANGED <<row, redirects>>

\* router.push of the timer: it leaves whichever editor is open by then.
redirect == redirects /\ redirects' = FALSE /\ Unmount /\ UNCHANGED row

Edited(t) ==
  /\ form.open /\ t # form.text
  /\ form' = [form EXCEPT !.text = t, !.dirty = TRUE]
  /\ touched' = TRUE /\ overlapped' = (overlapped \/ Running # {})

\* Typing, a channel, or onPickTitle of the AI panel.
edit(t) == Edited(t) /\ UNCHANGED <<row, click, redirects>>

-----------------------------------------------------------------------------
(* handleSave and handleSubmit *)

\* The closure of the click: the text of that render.
Start(h, does) ==
  /\ form.open /\ click[h].at = "idle"
  /\ click' = [click EXCEPT ![h] = [does |-> does, at |-> "sent", text |-> form.text, mine |-> TRUE]]
  /\ overlapped' = (overlapped \/ Running # {})
  /\ UNCHANGED <<row, form, redirects, touched>>

handleSave(h) == Start(h, "save")

First == IF form.dirty THEN "autosave" ELSE "submit"

handleSubmit(h) == form.open /\ Gate(form.text) /\ Start(h, First)

\* The API: PATCH and submit are for drafts only.
applied(h) ==
  /\ click[h].at = "sent" /\ ~row.submitted
  /\ row' = IF click[h].does = "submit" THEN [row EXCEPT !.submitted = TRUE]
            ELSE [row EXCEPT !.text = click[h].text]
  /\ click' = [click EXCEPT ![h].at = "ok"]
  /\ UNCHANGED <<form, redirects, touched, overlapped>>

refused(h) ==
  /\ click[h].at = "sent"
  /\ click' = [click EXCEPT ![h].at = "refused"]
  /\ UNCHANGED <<row, form, redirects, touched, overlapped>>

\* Slip: the form is clean before the answer is looked at.
CleanAnyway(h) == click[h].mine

Clean(h) == click[h].mine /\ click[h].at = "ok"

\* The await is over; an answer may have been lost to the abort timer.
saved(h) ==
  /\ click[h].at \in {"ok", "refused"} /\ click[h].does = "save"
  /\ form' = [form EXCEPT !.dirty = @ /\ ~Clean(h)]
  /\ click' = [click EXCEPT ![h] = NoClick]
  /\ UNCHANGED <<row, redirects, touched, overlapped>>

autosaved(h) ==
  /\ click[h].at = "ok" /\ click[h].does = "autosave"
  /\ click' = [click EXCEPT ![h].does = "submit", ![h].at = "sent"]
  /\ UNCHANGED <<row, form, redirects, touched, overlapped>>

submitted(h) ==
  /\ click[h].at = "ok" /\ click[h].does = "submit"
  /\ form' = [form EXCEPT !.dirty = @ /\ ~Clean(h)]
  /\ redirects' = TRUE
  /\ click' = [click EXCEPT ![h] = NoClick]
  /\ UNCHANGED <<row, touched, overlapped>>

\* The toast of the catch; nothing else is undone.
notSubmitted(h) ==
  /\ click[h].at = "refused" /\ click[h].does \in {"autosave", "submit"}
  /\ click' = [click EXCEPT ![h] = NoClick]
  /\ UNCHANGED <<row, form, redirects, touched, overlapped>>

answerLost(h) ==
  /\ click[h].at = "ok"
  /\ click' = [click EXCEPT ![h].at = "refused"]
  /\ UNCHANGED <<row, form, redirects, touched, overlapped>>

EditorNext ==
  \/ openEditor \/ leaveEditor \/ redirect
  \/ \E t \in Texts : edit(t)
  \/ \E h \in Clicks :
       \/ handleSave(h) \/ handleSubmit(h) \/ applied(h) \/ refused(h)
       \/ saved(h) \/ autosaved(h) \/ submitted(h) \/ notSubmitted(h) \/ answerLost(h)

-----------------------------------------------------------------------------
EditorTypeOK ==
  /\ row.text \in Texts \cup {"own"} /\ row.submitted \in BOOLEAN
  /\ form.text \in Texts \cup {"own"} /\ form.open \in BOOLEAN /\ form.dirty \in BOOLEAN
  /\ \A h \in Clicks : /\ click[h].does \in {"none", "save", "autosave", "submit"}
                       /\ click[h].at \in {"idle", "sent", "ok", "refused"}
                       /\ click[h].text \in Texts \cup {"own"} /\ click[h].mine \in BOOLEAN
  /\ redirects \in BOOLEAN
  /\ touched \in BOOLEAN /\ overlapped \in BOOLEAN

\* "Modifications non enregistrees" is shown whenever there are some: a form
\* that was edited and is not marked dirty shows what the API holds, and what
\* it submitted is that text and has passed the score (content-editor.tsx
\* 211-272).  Not so once an edit or a click overlapped a handler: the handler
\* clears the mark for the text of its own click.
EditsAreKept ==
  form.open /\ touched /\ ~form.dirty /\ ~overlapped =>
    /\ row.text = form.text
    /\ redirects => row.submitted
    /\ redirects /\ row.submitted => Gate(row.text)
=============================================================================
