------------------------------ MODULE EditorPanel ------------------------------
(***************************************************************************)
(* The AI panel next to the editor (ai-assistant-panel.tsx): it has a      *)
(* model, through GroqService, write titles, check facts and write social  *)
(* posts about the text of the moment, which goes on being edited.  Texts  *)
(* are numbered as they are edited.                                        *)
(***************************************************************************)
EXTENDS Naturals

CONSTANTS MaxTexts         \* bound

ASSUME EditorPanelAssumption == MaxTexts \in Nat

VARIABLES
  mounted,   \* the editor is open
  body,      \* number of its text
  platforms, \* a platform is chosen
  mutation,  \* each request: idle, sent or answered; the text it was sent with
  result     \* what is on show for each: the text it is about, or NoResult

panel == <<mounted, body, platforms, mutation, result>>

Asks == {"titles", "factCheck", "social"}
NoResult == MaxTexts + 1
Idle_ == [at |-> "idle", of |-> NoResult, reply |-> "none"]

PanelInit ==
  /\ mounted = FALSE /\ body = 0 /\ platforms = TRUE
  /\ mutation = [a \in Asks |-> Idle_] /\ result = [a \in Asks |-> NoResult]

-----------------------------------------------------------------------------
(* The panel *)

\* The requests of a panel that is gone answer to nobody.
mount ==
  /\ mounted' = ~mounted /\ body' = 0 /\ platforms' = TRUE
  /\ mutation' = [a \in Asks |-> Idle_] /\ result' = [a \in Asks |-> NoResult]

editBody ==
  /\ mounted /\ body < MaxTexts /\ body' = body + 1
  /\ UNCHANGED <<mounted, platforms, mutation, result>>

togglePlatform ==
  /\ mounted /\ platforms' = ~platforms
  /\ UNCHANGED <<mounted, body, mutation, result>>

\* A mutation starts without data.
DroppedResult(a) == [result EXCEPT ![a] = NoResult]

\* handleTitles, handleFactCheck, handleSocial: the button waits for the
\* answer; without a platform there are no posts to write.
ask(a) ==
  /\ mounted /\ mutation[a].at = "idle"
  /\ a = "social" => platforms
  /\ mutation' = [mutation EXCEPT ![a] = [at |-> "sent", of |-> body, reply |-> "none"]]
  /\ result' = DroppedResult(a)
  /\ UNCHANGED <<mounted, body, platforms>>

\* A title that is picked is another text.
pickTitle == result["titles"] # NoResult /\ editBody

-----------------------------------------------------------------------------
(* GroqService *)

\* chat: nothing, for want of a key or of an upstream answer; text that is a
\* bare JSON object; or what was asked for.  What is no JSON counts as nothing.
chatReplies(a) ==
  /\ mutation[a].at = "sent"
  /\ \E reply \in {"none", "bare", "whole"} :
       mutation' = [mutation EXCEPT ![a].at = "replied", ![a].reply = reply]
  /\ UNCHANGED <<mounted, body, platforms, result>>

\* An empty list of titles is a failure.
generateTitles(reply) == reply = "whole"

\* An object without risk or flags reads as low risk.
factCheck(reply) == reply \in {"bare", "whole"}

\* At least one platform has a post.
socialPosts(reply) == reply = "whole"

Accepts(a) ==
  LET reply == mutation[a].reply IN
  \/ a = "titles" /\ generateTitles(reply)
  \/ a = "factCheck" /\ factCheck(reply)
  \/ a = "social" /\ socialPosts(reply)

\* The result or the toast; the answer may have been lost on its way.
mutated(a, heard) ==
  /\ mutation[a].at = "replied"
  /\ mutation' = [mutation EXCEPT ![a] = Idle_]
  /\ result' = IF heard /\ Accepts(a) THEN [result EXCEPT ![a] = mutation[a].of] ELSE result
  /\ UNCHANGED <<mounted, body, platforms>>

PanelNext ==
  \/ mount \/ editBody \/ togglePlatform \/ pickTitle
  \/ \E a \in Asks : ask(a) \/ chatReplies(a) \/ (\E heard \in BOOLEAN : mutated(a, heard))

-----------------------------------------------------------------------------
PanelTypeOK ==
  /\ mounted \in BOOLEAN /\ body \in 0..MaxTexts /\ platforms \in BOOLEAN
  /\ mutation \in [Asks -> [at : {"idle", "sent", "replied"}, of : 0..NoResult,
                            reply : {"none", "bare", "whole"}]]
  /\ result \in [Asks -> 0..NoResult]

\* A result on show is not of an older text than the one last asked about, nor
\* shown beside the request that is to replace it (ai-assistant-panel.tsx
\* 60-78, groq.service.ts 79-253).  It may be of an older text than the form's.
PanelIsOfTheText ==
  \A a \in Asks : result[a] # NoResult =>
    /\ mutation[a].at = "idle" /\ mounted /\ result[a] <= body
=============================================================================
