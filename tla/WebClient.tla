------------------------------- MODULE WebClient -------------------------------
(***************************************************************************)
(* The web client: its session and the parts of its pages that keep state  *)
(* of their own.  No two of them share a variable: a page's components are *)
(* mounted with it, and what they have in common (the session, the query   *)
(* cache) each part has as much of as it uses.  So a behaviour follows one *)
(* part, chosen when it starts, and the others stand still: every property *)
(* below is about one part, and has all of its behaviours.                 *)
(***************************************************************************)
EXTENDS WebSession, ContentEditor, LivePage, Assistant, ValidationDesk,
        AutomationsPage, ContentsPage, ActivityFeed, MobileApp, EditorPanel, NewContentDialog,
        MediaLibrary

VARIABLE part

webClient == <<part, session, editor, live, assistant, desk, automations, contentsPage, feed,
              mobile, panel, dialog, medias>>

Parts == {"session", "editor", "live", "assistant", "desk", "automations", "contents", "feed", "mobile", "panel",
          "dialog", "medias"}

\* A part that stands still does so in one of its initial states.
Rests ==
  /\ part # "live" => activeCamera = CHOOSE c \in Cameras : TRUE
  /\ part # "desk" => \A i \in Instances : step[i] = "editor"
  /\ part # "automations" => \A r \in Rules : active[r] = "on"
  /\ part # "feed" => adapter
  /\ part # "medias" => viewer = "none"

Init ==
  /\ part \in Parts
  /\ SessionInit /\ EditorInit /\ LiveInit /\ AssistantInit /\ DeskInit
  /\ AutomationsInit /\ ContentsInit /\ FeedInit /\ MobileInit
  /\ PanelInit /\ DialogInit /\ MediasInit /\ Rests

\* Nothing of the others moves.
Session == part = "session" /\ SessionNext
           /\ UNCHANGED <<part, editor, live, assistant, desk, automations, contentsPage, feed, mobile, panel, dialog, medias>>

Editor == part = "editor" /\ EditorNext
          /\ UNCHANGED <<part, session, live, assistant, desk, automations, contentsPage, feed, mobile, panel, dialog, medias>>

Live == part = "live" /\ LiveNext
        /\ UNCHANGED <<part, session, editor, assistant, desk, automations, contentsPage, feed, mobile, panel, dialog, medias>>

Chat == part = "assistant" /\ AssistantNext
        /\ UNCHANGED <<part, session, editor, live, desk, automations, contentsPage, feed, mobile, panel, dialog, medias>>

Desk == part = "desk" /\ DeskNext
        /\ UNCHANGED <<part, session, editor, live, assistant, automations, contentsPage, feed, mobile, panel, dialog, medias>>

Automations == part = "automations" /\ AutomationsNext
               /\ UNCHANGED <<part, session, editor, live, assistant, desk, contentsPage, feed, mobile, panel, dialog, medias>>

Contents == part = "contents" /\ ContentsNext
            /\ UNCHANGED <<part, session, editor, live, assistant, desk, automations, feed, mobile, panel, dialog, medias>>

Feed == part = "feed" /\ FeedNext
        /\ UNCHANGED <<part, session, editor, live, assistant, desk, automations, contentsPage, mobile, panel, dialog, medias>>

Mobile == part = "mobile" /\ MobileNext
          /\ UNCHANGED <<part, session, editor, live, assistant, desk, automations, contentsPage, feed, panel, dialog, medias>>

Panel == part = "panel" /\ PanelNext
         /\ UNCHANGED <<part, session, editor, live, assistant, desk, automations, contentsPage, feed, mobile, dialog, medias>>

Dialog == part = "dialog" /\ DialogNext
          /\ UNCHANGED <<part, session, editor, live, assistant, desk, automations, contentsPage, feed, mobile, panel, medias>>

Medias == part = "medias" /\ MediasNext
          /\ UNCHANGED <<part, session, editor, live, assistant, desk, automations, contentsPage, feed, mobile, panel, dialog>>

Next ==
  \/ Session \/ Editor \/ Live \/ Chat \/ Desk \/ Automations \/ Contents \/ Feed \/ Mobile
  \/ Panel \/ Dialog \/ Medias

Spec == Init /\ [][Next]_webClient

-----------------------------------------------------------------------------
\* Every part keeps the types of its module.
TypeOK ==
  /\ part \in Parts
  /\ part = "session" => SessionTypeOK
  /\ part = "editor" => EditorTypeOK
  /\ part = "live" => LiveTypeOK
  /\ part = "assistant" => AssistantTypeOK
  /\ part = "desk" => DeskTypeOK
  /\ part = "automations" => AutomationsTypeOK
  /\ part = "contents" => ContentsTypeOK
  /\ part = "feed" => FeedTypeOK
  /\ part = "mobile" => MobileTypeOK
  /\ part = "panel" => PanelTypeOK
  /\ part = "dialog" => DialogTypeOK
  /\ part = "medias" => MediasTypeOK

\* What a screen shows is what it is about, whatever was clicked while answers
\* were on their way: the player, the chat, the switches, the table and the
\* search, the feed, the submissions, the results of the AI panel, the
\* drafts that were made and the media (each stated, with its exceptions and the lines it is
\* about, in the part's module).
ScreenIsTrue ==
  /\ TypeOK
  /\ part = "live" => PreviewIsTrue
  /\ part = "assistant" => AnswersAreWhole
  /\ part = "automations" => SwitchIsTrue
  /\ part = "contents" => RowsAreTheUsers
  /\ part = "feed" => FeedIsWhole
  /\ part = "mobile" => SubmissionsAreWhole
  /\ part = "panel" => PanelIsOfTheText
  /\ part = "dialog" => DraftsAreTold
  /\ part = "medias" => MediaIsTrue
=============================================================================
