----------------------------- MODULE Publishing -----------------------------
(***************************************************************************)
(* From a content.published event to the external channels:                *)
(* event-bus.service.ts (publish, runWithRetry) and connectors.ts          *)
(* (fanOutPublication, StubConnector), wired by publishing.module.ts.      *)
(*                                                                         *)
(* A delivery is one event on the replica whose request emitted it; the    *)
(* bus is in that process's memory.  One attempt of its handler runs one   *)
(* branch per channel, all at once; Promise.all ends the attempt at its    *)
(* first failed branch and the other branches run on, next to the          *)
(* attempts that follow.  Publication rows are shared by all replicas.     *)
(***************************************************************************)
EXTENDS Naturals, FiniteSets

CONSTANTS
  Deliveries,   \* content.published events; two approvals may emit two for
                \* one content
  Contents, Channels,
  ContentOf,    \* the content of each event
  ChannelsOf,   \* the ContentChannel rows of each content
  Retries,      \* the length of delays = [1000, 5000, 25000]
  MaxFaults     \* bound: database calls that fail and replicas that die

ASSUME RetriesAssumption == Retries \in Nat
ASSUME ContentOfAssumption == ContentOf \in [Deliveries -> Contents]
ASSUME ChannelsOfAssumption == ChannelsOf \in [Contents -> SUBSET Channels]

\* One attempt and its retries.
Attempts == 0..Retries

HandlerState == {"none", "reading", "running", "waiting", "acked", "dead", "lost"}

\* "posted": the platform took it; "erred": in the catch block.
BranchPC == {"off", "create", "call", "posted", "erred", "done", "failed"}

Publication == {"none", "publishing", "published", "failed"}

VARIABLES
  handler,      \* runWithRetry of each delivery
  attempt,      \* its loop variable
  branch,       \* where the branch of <<delivery, attempt, channel>> is
  publication,  \* Publication row by its unique <<contentId, channel>>
  calls,        \* how often a content was handed to a channel's connector
  posts,        \* how often the platform took it
  faults

delivery == <<handler, attempt>>
external == <<calls, posts>>
vars == <<delivery, branch, publication, external, faults>>

Branches == Deliveries \X Attempts \X Channels
Targets == Contents \X Channels

Target(b) == <<ContentOf[b[1]], b[3]>>

Init ==
  /\ handler = [d \in Deliveries |-> "none"]
  /\ attempt = [d \in Deliveries |-> 0]
  /\ branch = [b \in Branches |-> "off"]
  /\ publication = [t \in Targets |-> "none"]
  /\ calls = [t \in Targets |-> 0]
  /\ posts = [t \in Targets |-> 0]
  /\ faults = 0

Lost == {d \in Deliveries : handler[d] = "lost"}

\* The bound leaves room for one more failure.
Spare == faults + Cardinality(Lost) < MaxFaults

\* A database call fails.
Fault ==
  /\ Spare
  /\ faults' = faults + 1

Current(d, ch) == branch[<<d, attempt[d], ch>>]

-----------------------------------------------------------------------------
(* EventBusService *)

publish(d) ==
  /\ handler[d] = "none"
  /\ handler' = [handler EXCEPT ![d] = "reading"]
  /\ UNCHANGED <<attempt, branch, publication, external, faults>>

\* Slip: one attempt too many.
RejectedLate(d) ==
  handler' = [handler EXCEPT ![d] = IF attempt[d] > Retries THEN "dead" ELSE "waiting"]

\* The attempt rejected: wait for the next one, or the dead letter log.
Rejected(d) ==
  handler' = [handler EXCEPT ![d] = IF attempt[d] = Retries THEN "dead" ELSE "waiting"]

nextAttempt(d) ==
  /\ handler[d] = "waiting"
  /\ handler' = [handler EXCEPT ![d] = "reading"]
  /\ attempt' = [attempt EXCEPT ![d] = @ + 1]
  /\ UNCHANGED <<branch, publication, external, faults>>

\* Slip: the attempt counts as handled once every branch has settled.
AllSettled(d) ==
  \A ch \in ChannelsOf[ContentOf[d]] : Current(d, ch) \in {"done", "failed"}

\* Slip: attempts that were never made are waited for.
AllAttemptsDone(d) ==
  \A k \in Attempts, ch \in ChannelsOf[ContentOf[d]] : branch[<<d, k, ch>>] = "done"

AllDone(d) == \A ch \in ChannelsOf[ContentOf[d]] : Current(d, ch) = "done"

\* Promise.all: the first rejection rejects, all of them resolve.
attemptRejects(d) ==
  /\ handler[d] = "running"
  /\ \E ch \in ChannelsOf[ContentOf[d]] : Current(d, ch) = "failed"
  /\ Rejected(d)
  /\ UNCHANGED <<attempt, branch, publication, external, faults>>

attemptResolves(d) ==
  /\ handler[d] = "running"
  /\ AllDone(d)
  /\ handler' = [handler EXCEPT ![d] = "acked"]
  /\ UNCHANGED <<attempt, branch, publication, external, faults>>

-----------------------------------------------------------------------------
(* fanOutPublication *)

readChannels(d) ==
  /\ handler[d] = "reading"
  /\ handler' = [handler EXCEPT ![d] = "running"]
  /\ branch' = [b \in Branches |->
                  IF b[1] = d /\ b[2] = attempt[d] /\ b[3] \in ChannelsOf[ContentOf[d]]
                  THEN "create" ELSE branch[b]]
  /\ UNCHANGED <<attempt, publication, external, faults>>

readChannelsFails(d) ==
  /\ handler[d] = "reading"
  /\ Fault
  /\ Rejected(d)
  /\ UNCHANGED <<attempt, branch, publication, external>>

\* Branch b goes from one await to the next.
Advance(b, from, to) ==
  /\ branch[b] = from
  /\ branch' = [branch EXCEPT ![b] = to]
  /\ UNCHANGED delivery

\* Slip: the channels are taken one after the other, up to the first failure.
InsertableInSequence(b) ==
  /\ publication[Target(b)] = "none"
  /\ \A ch \in Channels : branch[<<b[1], b[2], ch>>] # "failed"

\* Slip: an upsert.
InsertableAgain(b) == publication[Target(b)] \in {"none", "failed"}

\* The unique index on contentId and channel.
Insertable(b) == publication[Target(b)] = "none"

createPublication(b) ==
  /\ Advance(b, "create", "call")
  /\ Insertable(b)
  /\ publication' = [publication EXCEPT ![Target(b)] = "publishing"]
  /\ UNCHANGED <<external, faults>>

\* The row exists, or the database is unavailable: the create is outside the
\* try block, so the branch rejects at once and no row is marked.
createFails(b) ==
  /\ Advance(b, "create", "failed")
  /\ \/ ~Insertable(b) /\ UNCHANGED faults
     \/ Fault
  /\ UNCHANGED <<publication, external>>

connectorPublishes(b) ==
  /\ Advance(b, "call", "posted")
  /\ calls' = [calls EXCEPT ![Target(b)] = @ + 1]
  /\ posts' = [posts EXCEPT ![Target(b)] = @ + 1]
  /\ UNCHANGED <<publication, faults>>

\* Slip: the connector's error is taken for an answer.
connectorFailsAsPosted(b) ==
  /\ Advance(b, "call", "posted")
  /\ calls' = [calls EXCEPT ![Target(b)] = @ + 1]
  /\ UNCHANGED <<publication, posts, faults>>

connectorFails(b) ==
  /\ Advance(b, "call", "erred")
  /\ calls' = [calls EXCEPT ![Target(b)] = @ + 1]
  /\ UNCHANGED <<publication, posts, faults>>

markPublished(b) ==
  /\ Advance(b, "posted", "done")
  /\ publication' = [publication EXCEPT ![Target(b)] = "published"]
  /\ UNCHANGED <<external, faults>>

\* The update is inside the try block too.
markPublishedFails(b) ==
  /\ Advance(b, "posted", "erred")
  /\ Fault
  /\ UNCHANGED <<publication, external>>

\* The catch block marks the row and throws again.
markFailed(b) ==
  /\ Advance(b, "erred", "failed")
  /\ publication' = [publication EXCEPT ![Target(b)] = "failed"]
  /\ UNCHANGED <<external, faults>>

markFailedFails(b) ==
  /\ Advance(b, "erred", "failed")
  /\ Fault
  /\ UNCHANGED <<publication, external>>

-----------------------------------------------------------------------------
Live(d) ==
  \/ handler[d] \in {"reading", "running", "waiting"}
  \/ \E b \in Branches : b[1] = d /\ branch[b] \notin {"off", "done", "failed"}

\* The replica dies: its deliveries, timers and branches are gone.
Crash(d) ==
  /\ Spare
  /\ Live(d)
  /\ handler' = [handler EXCEPT ![d] = "lost"]
  /\ branch' = [b \in Branches |-> IF b[1] = d THEN "off" ELSE branch[b]]
  /\ UNCHANGED <<attempt, publication, external, faults>>

\* What the process itself does next for delivery d, database and connector
\* answering one way or the other.
Bus(d) == nextAttempt(d) \/ attemptRejects(d) \/ attemptResolves(d) \/ readChannels(d)

Branch(b) ==
  \/ createPublication(b) \/ createFails(b)
  \/ connectorPublishes(b) \/ connectorFails(b)
  \/ markPublished(b) \/ markPublishedFails(b)
  \/ markFailed(b) \/ markFailedFails(b)

\* The replica that holds delivery d runs on.
Run(d) == Bus(d) \/ \E k \in Attempts, ch \in Channels : Branch(<<d, k, ch>>)

Next == \E d \in Deliveries : publish(d) \/ Run(d) \/ readChannelsFails(d) \/ Crash(d)

Spec == Init /\ [][Next]_vars

\* The event loop of a replica that is up does not stop: as long as a timer
\* or a continuation of d is due, one of them is run.
Fairness == \A d \in Deliveries : WF_vars(Run(d))

FairSpec == Spec /\ Fairness

-----------------------------------------------------------------------------
(* Type invariant; an attempt is the first or one of the retries. *)
TypeOK ==
  /\ handler \in [Deliveries -> HandlerState]
  /\ attempt \in [Deliveries -> Attempts]
  /\ branch \in [Branches -> BranchPC]
  /\ publication \in [Targets -> Publication]
  /\ calls \in [Targets -> Nat]
  /\ posts \in [Targets -> Nat]
  /\ faults \in Nat

\* A content is handed to a channel's connector at most once, whatever the
\* retries, the crashes and the events emitted twice for it: nothing but the
\* unique index stands between two approvals and two posts (connectors.ts 79,
\* workflows.service.ts 170).
AtMostOneCall == \A t \in Targets : calls[t] <= 1

\* A row never says "published" of what the platform did not take, and says
\* "failed" of what it did take only after a database call failed (the update
\* at 89 is inside the try whose catch marks the row failed).
OutcomeIsTrue ==
  \A t \in Targets :
    /\ publication[t] = "published" => posts[t] = 1
    /\ publication[t] = "failed" /\ faults = 0 => posts[t] = 0

\* An event the bus drops without a dead letter has every channel of its
\* content published.
AckMeansPublished ==
  \A d \in Deliveries : handler[d] = "acked" =>
    \A ch \in ChannelsOf[ContentOf[d]] : publication[<<ContentOf[d], ch>>] = "published"

\* No later attempt and no second event touches a row whose outcome is known,
\* although both meet it (the retry re-runs every channel).
RowIsFinal ==
  [][\A t \in Targets :
       publication[t] \in {"published", "failed"} => publication'[t] = publication[t]]_vars

Disturbed == faults > 0 \/ Lost # {}

\* connectors.ts 58: a failed publication does not stop the other channels.
\* Once an event is out, every channel of its content has its row settled,
\* unless a replica or a database call was lost.
ChannelsAreIsolated ==
  \A d \in Deliveries :
    handler[d] # "none" ~>
      \/ \A ch \in ChannelsOf[ContentOf[d]] :
           publication[<<ContentOf[d], ch>>] \in {"published", "failed"}
      \/ Disturbed

\* Every event ends: acknowledged, dead, or lost with its replica.
EventEnds ==
  \A d \in Deliveries :
    handler[d] # "none" ~> handler[d] \in {"acked", "dead", "lost"}

-----------------------------------------------------------------------------
(* What a comment says and the code refutes.                               *)

\* connectors.ts 57: the event bus retries a connector that failed.  An event
\* that is given up after its retries has its failed channels tried again.
FailureIsRetried ==
  \A d \in Deliveries : \A ch \in ChannelsOf[ContentOf[d]] :
    LET t == <<ContentOf[d], ch>> IN
    handler[d] = "dead" /\ publication[t] = "failed" => calls[t] > 1
=============================================================================
