----------------------------- MODULE ActivityFeed -----------------------------
(***************************************************************************)
(* The live activity feed: the gateway that broadcasts decisions and made- *)
(* up activity to the sockets of its own replica, and of the others only   *)
(* through Redis (notifications.gateway.ts); the client's socket, which    *)
(* gives up after some attempts (lib/socket.ts); and the list of the home  *)
(* page, which makes up its own items while the socket is not connected    *)
(* (recent-activity-feed.tsx).  Events are numbered as they are broadcast. *)
(***************************************************************************)
EXTENDS Integers, Sequences

CONSTANTS Replicas,
          Attempts,        \* reconnectionAttempts
          Kept,            \* live items the list keeps
          MaxBroadcasts    \* bound

ASSUME ActivityFeedAssumption == Attempts \in Nat \ {0} /\ Kept \in Nat \ {0} /\ MaxBroadcasts \in Nat

VARIABLES
  adapter,   \* the Redis adapter is attached
  tick,      \* broadcasts so far; each: kind and replica
  broadcasts,
  wire,      \* on their way to the client, in order
  conn,      \* its socket: replica or "none"; attempts left; connections so far
  status,    \* what the page knows: connected
  liveItems, \* newest first: number of the event (0: made up), of which connection
  (* History. *)
  heardAt    \* number of broadcasts when the socket last connected

feed == <<adapter, tick, broadcasts, wire, conn, status, liveItems, heardAt>>

\* "activity" stands for all that become an item: content.validated,
\* content.rejected and workflow.advanced too.  content.submitted is broadcast
\* and the client does not listen to it.
Kinds == {"activity", "content.submitted"}
Heard == Kinds \ {"content.submitted"}

FeedInit ==
  /\ adapter \in BOOLEAN /\ tick = 0 /\ broadcasts = <<>> /\ wire = <<>>
  /\ conn = [to |-> "none", left |-> Attempts, nth |-> 0]
  /\ status = FALSE /\ liveItems = <<>> /\ heardAt = 0

-----------------------------------------------------------------------------
(* The server *)

\* Sockets of the replica, or all of them with the adapter.
Reaches(r) == conn.to # "none" /\ (adapter \/ conn.to = r)

\* A sample every 8 to 12 s, or the call of a controller after a decision.
broadcast(r, kind) ==
  /\ tick < MaxBroadcasts /\ tick' = tick + 1
  /\ broadcasts' = Append(broadcasts, [kind |-> kind, from |-> r])
  /\ wire' = IF Reaches(r) THEN Append(wire, tick + 1) ELSE wire
  /\ UNCHANGED <<adapter, conn, status, liveItems, heardAt>>

-----------------------------------------------------------------------------
(* The socket *)

\* What is on the wire of an earlier connection is lost.
connect(r) ==
  /\ conn.to = "none" /\ conn.left > 0
  /\ conn' = [to |-> r, left |-> Attempts, nth |-> conn.nth + 1]
  /\ conn.nth < MaxBroadcasts
  /\ wire' = <<>> /\ heardAt' = tick
  /\ UNCHANGED <<adapter, tick, broadcasts, status, liveItems>>

connectFails ==
  /\ conn.to = "none" /\ conn.left > 0
  /\ conn' = [conn EXCEPT !.left = @ - 1]
  /\ UNCHANGED <<adapter, tick, broadcasts, wire, status, liveItems, heardAt>>

disconnect ==
  /\ conn.to # "none"
  /\ conn' = [conn EXCEPT !.to = "none"] /\ wire' = <<>>
  /\ UNCHANGED <<adapter, tick, broadcasts, status, liveItems, heardAt>>

-----------------------------------------------------------------------------
(* The list *)

Prepend(item) == SubSeq(<<item>> \o liveItems, 1, IF Len(liveItems) < Kept THEN Len(liveItems) + 1 ELSE Kept)

\* The "connect" and "disconnect" listeners and the render after them.
statusChanges ==
  /\ status # (conn.to # "none") /\ status' = ~status
  /\ UNCHANGED <<adapter, tick, broadcasts, wire, conn, liveItems, heardAt>>

Listed(n) ==
  IF broadcasts[n].kind \in Heard THEN Prepend([event |-> n, nth |-> conn.nth]) ELSE liveItems

onEvent_ ==
  /\ wire # <<>> /\ wire' = Tail(wire)
  /\ liveItems' = Listed(Head(wire))
  /\ UNCHANGED <<adapter, tick, broadcasts, conn, status, heardAt>>

\* The interval that runs while the page knows of no connection.
makeUp ==
  /\ ~status
  /\ liveItems' = Prepend([event |-> 0, nth |-> conn.nth])
  /\ UNCHANGED <<adapter, tick, broadcasts, wire, conn, status, heardAt>>

\* The page is left and opened again: the list starts over.
remount ==
  /\ conn' = [conn EXCEPT !.to = "none", !.left = Attempts]
  /\ wire' = <<>> /\ status' = FALSE /\ liveItems' = <<>>
  /\ UNCHANGED <<adapter, tick, broadcasts, heardAt>>

FeedNext ==
  \/ \E r \in Replicas : connect(r) \/ (\E kind \in Kinds : broadcast(r, kind))
  \/ connectFails \/ disconnect \/ statusChanges \/ onEvent_ \/ makeUp \/ remount

-----------------------------------------------------------------------------
FeedTypeOK ==
  /\ adapter \in BOOLEAN /\ tick \in 0..MaxBroadcasts /\ Len(broadcasts) = tick
  /\ \A n \in 1..tick : broadcasts[n].kind \in Kinds /\ broadcasts[n].from \in Replicas
  /\ \A i \in DOMAIN wire : wire[i] \in 1..tick
  /\ conn.to \in Replicas \cup {"none"} /\ conn.left \in 0..Attempts /\ conn.nth \in 0..MaxBroadcasts
  /\ status \in BOOLEAN /\ heardAt \in 0..tick /\ Len(liveItems) <= Kept
  /\ \A i \in DOMAIN liveItems : liveItems[i].event \in 0..tick /\ liveItems[i].nth \in 0..conn.nth

\* The client listens to the event, and it was sent to where its socket is.
Due(n) == broadcasts[n].kind \in Heard /\ (adapter \/ broadcasts[n].from = conn.to)

\* The live items are events in the order of the server, newest first, none
\* twice, and of those since the socket connected none is missing: it is
\* listed, on its way, or has fallen off the end of a full list
\* (notifications.gateway.ts 87-89, lib/socket.ts 79-150).  Of what was
\* broadcast while the socket was away, or on another replica without Redis,
\* nothing is promised.
FeedIsWhole ==
  LET Now == {liveItems[i].event : i \in {j \in DOMAIN liveItems : liveItems[j].nth = conn.nth}} \ {0}
      Coming == {wire[i] : i \in DOMAIN wire}
  IN
  /\ \A i, j \in DOMAIN liveItems :
       i < j /\ liveItems[i].event # 0 /\ liveItems[j].event # 0 => liveItems[i].event > liveItems[j].event
  /\ \A i \in DOMAIN liveItems : liveItems[i].event # 0 => broadcasts[liveItems[i].event].kind \in Heard
  /\ conn.to # "none" =>
       \A n \in heardAt + 1 .. tick :
         Due(n) =>
           \/ n \in Now \cup Coming
           \/ Len(liveItems) = Kept /\ \A i \in DOMAIN liveItems : liveItems[i].event \in {0} \cup n..tick
=============================================================================
