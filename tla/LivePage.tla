------------------------------- MODULE LivePage -------------------------------
(***************************************************************************)
(* The studio page of the web client (app/dashboard/live/page.tsx): what   *)
(* it shows of its preview, which is a <video> element with its own state. *)
(* The element reports by events, which arrive later.  The listeners are   *)
(* put on the element of the first render only, and <video key=cam.src>    *)
(* makes another element for each camera.                                  *)
(***************************************************************************)
EXTENDS Naturals, Sequences

CONSTANTS Cameras,
          MaxChat,         \* scales slice(-40)
          MaxEvents        \* bound: events not yet delivered

ASSUME LivePageAssumption == Cameras # {} /\ MaxChat \in Nat \ {0} /\ MaxEvents \in Nat

VARIABLES
  isStreaming, isPlaying, muted, volume, activeCamera, isPip, videoError, chat,
  video,    \* the element in the page; first: of the first render
  events,   \* its events on their way, if anyone listens
  began,    \* history: the first event came
  switched  \* history: the element is not the first one

live == <<isStreaming, isPlaying, muted, volume, activeCamera, isPip, videoError, chat,
          video, events, began, switched>>

Volumes == {0, 6, 10}      \* tenths

\* autoPlay: the element is paused until it has data.
LiveInit ==
  /\ isStreaming = TRUE /\ isPlaying = TRUE /\ muted = TRUE /\ volume = 6
  /\ activeCamera \in Cameras /\ isPip = FALSE /\ videoError = FALSE /\ chat = 1
  /\ video = [paused |-> TRUE, muted |-> TRUE, volume |-> 6, failed |-> FALSE]
  /\ events = <<>> /\ began = FALSE /\ switched = FALSE

-----------------------------------------------------------------------------
(* The element *)

Emitted(e) == IF switched THEN events ELSE Append(events, e)

\* Playing or pausing what already does so emits nothing.
Plays ==
  /\ video' = [video EXCEPT !.paused = FALSE]
  /\ events' = IF video.paused THEN Emitted("play") ELSE events

Pauses ==
  /\ video' = [video EXCEPT !.paused = TRUE]
  /\ events' = IF video.paused THEN events ELSE Emitted("pause")

Room == Len(events) < MaxEvents

autoplay ==
  /\ ~began /\ video.paused /\ ~video.failed /\ Room
  /\ Plays
  /\ UNCHANGED <<isStreaming, isPlaying, muted, volume, activeCamera, isPip, videoError, chat, began, switched>>

sourceFails ==
  /\ ~video.failed /\ video.paused /\ Room
  /\ video' = [video EXCEPT !.failed = TRUE]
  /\ events' = Emitted("error")
  /\ UNCHANGED <<isStreaming, isPlaying, muted, volume, activeCamera, isPip, videoError, chat, began, switched>>

Playing(e) == IF e = "play" THEN TRUE ELSE IF e = "pause" THEN FALSE ELSE isPlaying

\* onPlay, onPause, onError.
onEvent ==
  /\ events # <<>>
  /\ events' = Tail(events)
  /\ isPlaying' = Playing(Head(events))
  /\ videoError' = (videoError \/ Head(events) = "error")
  /\ began' = (began \/ Head(events) # "error")
  /\ UNCHANGED <<isStreaming, muted, volume, activeCamera, isPip, chat, video, switched>>

-----------------------------------------------------------------------------
(* The controls *)

togglePlay ==
  /\ Room
  /\ IF video.paused THEN Plays ELSE Pauses
  /\ UNCHANGED <<isStreaming, isPlaying, muted, volume, activeCamera, isPip, videoError, chat, began, switched>>

\* Stops or starts the live, and the preview with it.
stopStream ==
  /\ Room
  /\ isStreaming' = ~isStreaming
  /\ IF isStreaming THEN Pauses ELSE Plays
  /\ UNCHANGED <<isPlaying, muted, volume, activeCamera, isPip, videoError, chat, began, switched>>

\* The effect on [muted, volume].
Sounds(m, v) ==
  /\ muted' = m /\ volume' = v
  /\ video' = [video EXCEPT !.muted = m, !.volume = v]
  /\ UNCHANGED <<isStreaming, isPlaying, activeCamera, isPip, videoError, chat, events, began, switched>>

toggleMute == Sounds(~muted, volume)

\* The slider shows 0 while muted; leaving 0 unmutes, reaching it mutes.
setVolume(v) == Sounds(v = 0, v)

\* The old element is loaded and played again, then another one replaces it,
\* which plays by itself at full volume.  The page removes the old one, which
\* pauses, and is still listened to.
switchCamera(c) ==
  /\ c # activeCamera /\ Room
  /\ activeCamera' = c
  /\ events' = IF switched \/ video.paused THEN events ELSE Append(events, "pause")
  /\ video' = [paused |-> FALSE, muted |-> muted, volume |-> 10, failed |-> FALSE]
  /\ switched' = TRUE /\ isPip' = FALSE
  /\ UNCHANGED <<isStreaming, isPlaying, muted, volume, videoError, chat, began>>

\* The browser may refuse; the page follows its enter and leave events.
togglePip ==
  /\ isPip' = ~isPip
  /\ UNCHANGED <<isStreaming, isPlaying, muted, volume, activeCamera, videoError, chat, video, events, began, switched>>

-----------------------------------------------------------------------------
(* The chat *)

Capped(n) == IF n > MaxChat THEN MaxChat ELSE n

\* The simulated audience, only while streaming.
incomingChat ==
  /\ isStreaming
  /\ chat' = Capped(chat + 1)
  /\ UNCHANGED <<isStreaming, isPlaying, muted, volume, activeCamera, isPip, videoError, video, events, began, switched>>

\* The moderator's own messages are cut by the next incoming one only.
sendMessage ==
  /\ chat <= MaxChat
  /\ chat' = chat + 1
  /\ UNCHANGED <<isStreaming, isPlaying, muted, volume, activeCamera, isPip, videoError, video, events, began, switched>>

LiveNext ==
  \/ autoplay \/ sourceFails \/ onEvent
  \/ togglePlay \/ stopStream \/ toggleMute \/ togglePip
  \/ \E v \in Volumes : setVolume(v)
  \/ \E c \in Cameras : switchCamera(c)
  \/ incomingChat \/ sendMessage

-----------------------------------------------------------------------------
LiveTypeOK ==
  /\ isStreaming \in BOOLEAN /\ isPlaying \in BOOLEAN /\ muted \in BOOLEAN /\ isPip \in BOOLEAN
  /\ volume \in Volumes /\ activeCamera \in Cameras /\ videoError \in BOOLEAN
  /\ chat \in 1..MaxChat + 1
  /\ video \in [paused : BOOLEAN, muted : BOOLEAN, volume : Volumes, failed : BOOLEAN]
  /\ events \in Seq({"play", "pause", "error"}) /\ began \in BOOLEAN /\ switched \in BOOLEAN

\* "isPlaying reflects the preview <video> state" (51-53) once the events are
\* in, and the sound is the one of the controls: as long as the element is the
\* first one.  After a change of camera neither holds.
PreviewIsTrue ==
  ~switched =>
    /\ began /\ events = <<>> => isPlaying = ~video.paused
    /\ video.muted = muted /\ video.volume = volume
=============================================================================
