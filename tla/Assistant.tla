------------------------------- MODULE Assistant -------------------------------
(***************************************************************************)
(* The chat of the web client (shell/ai-assistant.tsx): questions answered *)
(* by the event stream of POST /ai/ask/stream (ai.controller.ts), or by    *)
(* the local engine (lib/ai-engine.ts) when the stream is not to be had,   *)
(* and slash commands, which run 120 ms after they are sent.  Nothing      *)
(* keeps a second question from being asked while the first is answered.   *)
(***************************************************************************)
EXTENDS Naturals, FiniteSets

CONSTANTS Questions

ASSUME AssistantAssumption == IsFiniteSet(Questions)

VARIABLES
  isOpen,     \* the sheet
  input,      \* what is typed: "empty", "question", "command"
  question,   \* each: where its answer is, its bubbles in the conversation
  typing,
  commands,   \* sent, their timer still runs
  said,       \* answers of commands are in the conversation
  (* History. *)
  together  \* one was asked while another was answered

assistant == <<isOpen, input, question, typing, commands, said, together>>

\* "/help" stands for those that only say something: "/summary", "/export",
\* and what is no command.
Commands == {"/clear", "/goto", "/help"}

\* asked: the user's bubble; bubble: the streamed one; local: the engine's.
NotAsked == [at |-> "idle", asked |-> FALSE, bubble |-> "none", local |-> FALSE, cut |-> FALSE]

AssistantInit ==
  /\ isOpen = FALSE /\ input = "empty" /\ question = [q \in Questions |-> NotAsked]
  /\ typing = FALSE /\ commands = {} /\ said = FALSE /\ together = FALSE

Waiting == {q \in Questions : question[q].at \notin {"idle", "ended"}}

-----------------------------------------------------------------------------
(* The sheet and its form *)

setOpen(b) == /\ isOpen' = b /\ b # isOpen
              /\ UNCHANGED <<input, question, typing, commands, said, together>>

\* Typing, or picking a command or a page from the menu.
setInput(v) == /\ isOpen /\ v # input /\ input' = v
               /\ UNCHANGED <<isOpen, question, typing, commands, said, together>>

\* From the form, or at once from a suggestion of the introduction.
send(q) ==
  /\ isOpen /\ question[q].at = "idle"
  /\ input' = "empty" /\ typing' = TRUE
  /\ question' = [question EXCEPT ![q] = [NotAsked EXCEPT !.at = "fetching", !.asked = TRUE]]
  /\ together' = (together \/ Waiting # {})
  /\ UNCHANGED <<isOpen, commands, said>>

sendCommand(c) ==
  /\ isOpen /\ input = "command" /\ input' = "empty"
  /\ commands' = commands \cup {c}
  /\ UNCHANGED <<isOpen, question, typing, said, together>>

\* The conversation is emptied; what is being answered goes on.
Cleared(q) ==
  IF question[q].at = "ended" THEN NotAsked
  ELSE [question[q] EXCEPT !.asked = FALSE, !.bubble = "none"]

\* A page of the menu is found, or pages are listed.
handleSlash(c) ==
  /\ c \in commands /\ commands' = commands \ {c}
  /\ question' = IF c = "/clear" THEN [q \in Questions |-> Cleared(q)] ELSE question
  /\ \/ c = "/goto" /\ isOpen' = FALSE /\ said' = said
     \/ isOpen' = isOpen /\ said' = (c # "/clear")
  /\ UNCHANGED <<input, typing, together>>

-----------------------------------------------------------------------------
(* streamFromApi *)

Set(q, rec) ==
  /\ question' = [question EXCEPT ![q] = rec]
  /\ UNCHANGED <<isOpen, input, commands, said, together>>

\* The bubbles that come last close the exchange, for all that are waiting.
Ends(q, rec) == Set(q, [rec EXCEPT !.at = "ended"]) /\ typing' = FALSE

streamOpens(q) ==
  /\ question[q].at = "fetching"
  /\ Set(q, [question[q] EXCEPT !.at = "streaming", !.bubble = "partial"])
  /\ UNCHANGED typing

\* The answer is not 2xx, or there is none.
streamRefused(q) ==
  /\ question[q].at = "fetching"
  /\ Set(q, [question[q] EXCEPT !.at = "thinking"])
  /\ UNCHANGED typing

\* The bubble of this stream, if /clear has not dropped it.
Filled(q) == IF question[q].bubble = "none" THEN "none" ELSE "whole"

streamDone(q) ==
  question[q].at = "streaming" /\ Ends(q, [question[q] EXCEPT !.bubble = Filled(q)])

\* An error event, or a read that throws: what was streamed stays on screen,
\* and the local engine answers too.
streamBreaks(q) ==
  /\ question[q].at = "streaming"
  /\ Set(q, [question[q] EXCEPT !.at = "thinking"])
  /\ UNCHANGED typing

\* The connection is closed with neither: that counts as an answer.
streamCut(q) == question[q].at = "streaming" /\ Ends(q, [question[q] EXCEPT !.cut = TRUE])

localAnswer(q) == question[q].at = "thinking" /\ Ends(q, [question[q] EXCEPT !.local = TRUE])

AssistantNext ==
  \/ \E b \in BOOLEAN : setOpen(b)
  \/ \E v \in {"empty", "question", "command"} : setInput(v)
  \/ \E c \in Commands : sendCommand(c) \/ handleSlash(c)
  \/ \E q \in Questions :
       \/ send(q) \/ streamOpens(q) \/ streamRefused(q) \/ streamDone(q)
       \/ streamBreaks(q) \/ streamCut(q) \/ localAnswer(q)

-----------------------------------------------------------------------------
AssistantTypeOK ==
  /\ isOpen \in BOOLEAN /\ input \in {"empty", "question", "command"}
  /\ question \in [Questions -> [at : {"idle", "fetching", "streaming", "thinking", "ended"},
                                 asked : BOOLEAN, bubble : {"none", "partial", "whole"},
                                 local : BOOLEAN, cut : BOOLEAN]]
  /\ typing \in BOOLEAN /\ commands \subseteq Commands /\ said \in BOOLEAN /\ together \in BOOLEAN

\* A question still on screen whose exchange has ended has a whole answer
\* below it, unless the connection was cut (ai-assistant.tsx 132-192), and the
\* dots are shown exactly while an answer is awaited, unless two questions
\* together: the first to end hides them for both (217).
AnswersAreWhole ==
  /\ \A q \in Questions :
       question[q].at = "ended" /\ question[q].asked /\ ~question[q].cut =>
         question[q].local \/ question[q].bubble = "whole"
  /\ ~together => (typing <=> Waiting # {})
=============================================================================
