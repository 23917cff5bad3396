-------------------------- MODULE PublishingProofs --------------------------
(***************************************************************************)
(* Proofs about Publishing for any events, channels, number of retries and *)
(* number of failures.                                                     *)
(***************************************************************************)
EXTENDS Publishing, TLAPS

\* A branch past its insert.
Inserted == {"call", "posted", "erred", "done"}

-----------------------------------------------------------------------------
(* Type correctness. *)

\* A delivery that is not through has tries left; part of the induction.
TriesLeft ==
  \A d \in Deliveries : handler[d] = "waiting" => attempt[d] < Retries

TInv == TypeOK /\ TriesLeft

LEMMA TargetType ==
  ASSUME NEW b \in Branches
  PROVE  Target(b) \in Targets
BY ContentOfAssumption DEF Branches, Targets, Target

LEMMA TInvInit == Init => TInv
<1>1. Init => TypeOK
  BY RetriesAssumption
  DEF Init, TypeOK, HandlerState, BranchPC, Publication, Attempts
<1>2. Init => TriesLeft
  BY DEF Init, TriesLeft
<1>. QED  BY <1>1, <1>2 DEF TInv

LEMMA TInvBus ==
  ASSUME TInv, NEW d \in Deliveries,
         \/ publish(d) \/ Bus(d) \/ readChannelsFails(d) \/ Crash(d)
  PROVE  TInv'
<1>. USE RetriesAssumption DEF TInv, TypeOK, TriesLeft, HandlerState, BranchPC, Attempts
<1>1. CASE publish(d)
  BY <1>1 DEF publish, external
<1>2. CASE nextAttempt(d)
  BY <1>2 DEF nextAttempt, external
<1>3. CASE attemptRejects(d)
  BY <1>3 DEF attemptRejects, Rejected, external
<1>4. CASE attemptResolves(d)
  BY <1>4 DEF attemptResolves, external
<1>5. CASE readChannels(d)
  BY <1>5 DEF readChannels, external
<1>6. CASE readChannelsFails(d)
  BY <1>6 DEF readChannelsFails, Rejected, Fault, external
<1>7. CASE Crash(d)
  BY <1>7 DEF Crash, external
<1>. QED  BY <1>1, <1>2, <1>3, <1>4, <1>5, <1>6, <1>7 DEF Bus

LEMMA TInvBranch ==
  ASSUME TInv, NEW b \in Branches, Branch(b)
  PROVE  TInv'
<1>. USE TargetType DEF TInv, TypeOK, TriesLeft, BranchPC, Publication, Advance,
                        delivery, external, Fault
<1>1. CASE createPublication(b)
  BY <1>1 DEF createPublication
<1>2. CASE createFails(b)
  BY <1>2 DEF createFails
<1>3. CASE connectorPublishes(b)
  BY <1>3 DEF connectorPublishes
<1>4. CASE connectorFails(b)
  BY <1>4 DEF connectorFails
<1>5. CASE markPublished(b)
  BY <1>5 DEF markPublished
<1>6. CASE markPublishedFails(b)
  BY <1>6 DEF markPublishedFails
<1>7. CASE markFailed(b)
  BY <1>7 DEF markFailed
<1>8. CASE markFailedFails(b)
  BY <1>8 DEF markFailedFails
<1>. QED  BY <1>1, <1>2, <1>3, <1>4, <1>5, <1>6, <1>7, <1>8 DEF Branch

LEMMA TInvNext ==
  ASSUME TInv, [Next]_vars
  PROVE  TInv'
<1>1. UNCHANGED vars => TInv'
  BY DEF vars, delivery, external, TInv, TypeOK, TriesLeft
<1>. QED  BY <1>1, TInvBus, TInvBranch DEF Next, Run, Branches

\* States are always those of the code; no attempt follows the last retry.
THEOREM TypeCorrect == Spec => []TypeOK
BY TInvInit, TInvNext, PTL DEF Spec, TInv

-----------------------------------------------------------------------------
(* One post per channel. *)

\* What the tables say of the target of a branch, by where the branch is.
BranchBacked ==
  \A b \in Branches :
    LET t == Target(b) IN
    /\ branch[b] = "call" =>
         publication[t] = "publishing" /\ calls[t] = 0 /\ posts[t] = 0
    /\ branch[b] = "posted" =>
         publication[t] = "publishing" /\ calls[t] = 1 /\ posts[t] = 1
    /\ branch[b] = "erred" =>
         /\ publication[t] = "publishing" /\ calls[t] = 1
         /\ posts[t] <= 1 /\ (faults = 0 => posts[t] = 0)
    /\ branch[b] = "done" => publication[t] = "published"

\* The unique index: one branch at most has inserted the row of a target.
OneInserter ==
  \A b1, b2 \in Branches :
    branch[b1] \in Inserted /\ branch[b2] \in Inserted /\ Target(b1) = Target(b2)
      => b1 = b2

NoRowNoCall ==
  \A t \in Targets : publication[t] = "none" => calls[t] = 0 /\ posts[t] = 0

IInv ==
  TInv /\ BranchBacked /\ OneInserter /\ NoRowNoCall
       /\ AtMostOneCall /\ OutcomeIsTrue /\ AckMeansPublished

LEMMA IInvInit == Init => IInv
<1>. SUFFICES ASSUME Init PROVE IInv
  OBVIOUS
<1>1. TInv
  BY TInvInit
<1>2. \A b \in Branches : branch[b] = "off"
  BY DEF Init
<1>3. BranchBacked
  BY <1>2 DEF BranchBacked
<1>4. OneInserter
  BY <1>2 DEF OneInserter, Inserted
<1>5. NoRowNoCall /\ AtMostOneCall /\ OutcomeIsTrue /\ AckMeansPublished
  BY DEF Init, NoRowNoCall, AtMostOneCall, OutcomeIsTrue, AckMeansPublished
<1>. QED  BY <1>1, <1>3, <1>4, <1>5 DEF IInv

\* Steps that touch no row: branches only start or end.
LEMMA IInvBus ==
  ASSUME IInv, NEW d \in Deliveries,
         \/ publish(d) \/ Bus(d) \/ readChannelsFails(d) \/ Crash(d)
  PROVE  IInv'
<1>0. TInv'
  BY TInvBus DEF IInv
<1>1. /\ UNCHANGED <<publication, calls, posts>>
      /\ faults \in Nat /\ faults' \in Nat /\ faults' >= faults
      /\ \A b \in Branches : branch'[b] \in Inserted => branch'[b] = branch[b]
  <2>. USE DEF external, IInv, TInv, TypeOK
  <2>1. CASE publish(d)
    BY <2>1 DEF publish
  <2>2. CASE nextAttempt(d)
    BY <2>2 DEF nextAttempt
  <2>3. CASE attemptRejects(d)
    BY <2>3 DEF attemptRejects
  <2>4. CASE attemptResolves(d)
    BY <2>4 DEF attemptResolves
  <2>5. CASE readChannels(d)
    BY <2>5 DEF readChannels, Inserted
  <2>6. CASE readChannelsFails(d)
    BY <2>6 DEF readChannelsFails, Fault
  <2>7. CASE Crash(d)
    BY <2>7 DEF Crash, Inserted
  <2>. QED  BY <2>1, <2>2, <2>3, <2>4, <2>5, <2>6, <2>7 DEF Bus
<1>2. BranchBacked'
  <2>. SUFFICES ASSUME NEW b \in Branches, branch'[b] \in Inserted
                PROVE  LET t == Target(b) IN
                       /\ branch'[b] = "call" =>
                            publication'[t] = "publishing" /\ calls'[t] = 0 /\ posts'[t] = 0
                       /\ branch'[b] = "posted" =>
                            publication'[t] = "publishing" /\ calls'[t] = 1 /\ posts'[t] = 1
                       /\ branch'[b] = "erred" =>
                            /\ publication'[t] = "publishing" /\ calls'[t] = 1
                            /\ posts'[t] <= 1 /\ (faults' = 0 => posts'[t] = 0)
                       /\ branch'[b] = "done" => publication'[t] = "published"
    BY DEF BranchBacked, Inserted
  <2>. QED  BY <1>1 DEF IInv, BranchBacked
<1>3. OneInserter'
  <2>. SUFFICES ASSUME NEW b1 \in Branches, NEW b2 \in Branches,
                       branch'[b1] \in Inserted, branch'[b2] \in Inserted,
                       Target(b1) = Target(b2)
                PROVE  b1 = b2
    BY DEF OneInserter
  <2>. QED  BY <1>1 DEF IInv, OneInserter
<1>6. NoRowNoCall' /\ AtMostOneCall'
  BY <1>1 DEF IInv, NoRowNoCall, AtMostOneCall
<1>4. OutcomeIsTrue'
  BY <1>1 DEF IInv, OutcomeIsTrue
<1>5. AckMeansPublished'
  <2>. SUFFICES ASSUME NEW e \in Deliveries, handler'[e] = "acked",
                       NEW ch \in ChannelsOf[ContentOf[e]]
                PROVE  publication'[<<ContentOf[e], ch>>] = "published"
    BY DEF AckMeansPublished
  <2>1. CASE handler[e] = "acked"
    BY <1>1, <2>1 DEF IInv, AckMeansPublished
  <2>2. CASE handler[e] # "acked"
    <3>1. e = d /\ attemptResolves(d)
      BY <2>2 DEF Bus, publish, nextAttempt, attemptRejects, attemptResolves,
         readChannels, readChannelsFails, Rejected, Crash, IInv, TInv, TypeOK
    <3>2. ch \in Channels /\ <<e, attempt[e], ch>> \in Branches
      BY ContentOfAssumption, ChannelsOfAssumption DEF IInv, TInv, TypeOK, Branches
    <3>3. branch[<<e, attempt[e], ch>>] = "done"
      BY <3>1 DEF attemptResolves, AllDone, Current
    <3>4. publication[<<ContentOf[e], ch>>] = "published"
      BY <3>2, <3>3 DEF IInv, BranchBacked, Target
    <3>. QED  BY <1>1, <3>4
  <2>. QED  BY <2>1, <2>2
<1>. QED  BY <1>0, <1>2, <1>3, <1>4, <1>5, <1>6 DEF IInv

\* What a step of branch b does: only b moves, and only its row and counters
\* may change.
Elsewhere(b) ==
  /\ \A x \in Branches : x # b => branch'[x] = branch[x]
  /\ \A t \in Targets : t # Target(b) =>
       publication'[t] = publication[t] /\ calls'[t] = calls[t] /\ posts'[t] = posts[t]
  /\ handler' = handler /\ faults \in Nat /\ faults' \in Nat /\ faults' >= faults

LEMMA BranchIsLocal ==
  ASSUME IInv, NEW b \in Branches, Branch(b)
  PROVE  Elsewhere(b)
<1>. USE TargetType DEF Elsewhere, IInv, TInv, TypeOK, Advance, delivery, external, Fault
<1>1. CASE createPublication(b)
  BY <1>1 DEF createPublication
<1>2. CASE createFails(b)
  BY <1>2 DEF createFails
<1>3. CASE connectorPublishes(b)
  BY <1>3 DEF connectorPublishes
<1>4. CASE connectorFails(b)
  BY <1>4 DEF connectorFails
<1>5. CASE markPublished(b)
  BY <1>5 DEF markPublished
<1>6. CASE markPublishedFails(b)
  BY <1>6 DEF markPublishedFails
<1>7. CASE markFailed(b)
  BY <1>7 DEF markFailed
<1>8. CASE markFailedFails(b)
  BY <1>8 DEF markFailedFails
<1>. QED  BY <1>1, <1>2, <1>3, <1>4, <1>5, <1>6, <1>7, <1>8 DEF Branch

\* The row and counters of b's target after a step of b, by where b is then.
LEMMA BranchStep ==
  ASSUME IInv, NEW b \in Branches, Branch(b), NEW t, t = Target(b)
  PROVE  \/ /\ branch'[b] = "call" /\ publication[t] = "none"
            /\ publication'[t] = "publishing" /\ calls'[t] = 0 /\ posts'[t] = 0
         \/ /\ branch'[b] = "failed" /\ branch[b] = "create"
            /\ publication'[t] = publication[t] /\ calls'[t] = calls[t] /\ posts'[t] = posts[t]
         \/ /\ branch'[b] = "posted" /\ branch[b] \in Inserted \ {"done"}
            /\ publication'[t] = "publishing" /\ calls'[t] = 1 /\ posts'[t] = 1
         \/ /\ branch'[b] = "erred" /\ branch[b] \in Inserted \ {"done"}
            /\ publication'[t] = "publishing" /\ calls'[t] = 1
            /\ posts'[t] \in {0, 1} /\ (faults' = 0 => posts'[t] = 0)
         \/ /\ branch'[b] = "done" /\ branch[b] \in Inserted \ {"done"}
            /\ publication'[t] = "published" /\ calls'[t] = 1 /\ posts'[t] = 1
         \/ /\ branch'[b] = "failed" /\ branch[b] \in Inserted \ {"done"}
            /\ publication'[t] \in {"publishing", "failed"} /\ calls'[t] = 1
            /\ posts'[t] \in {0, 1} /\ (faults' = 0 => posts'[t] = 0)
<1>. USE TargetType DEF IInv, TInv, TypeOK, Advance, delivery, external, Fault,
                        BranchBacked, NoRowNoCall, Inserted
<1>1. CASE createPublication(b)
  BY <1>1 DEF createPublication, Insertable
<1>2. CASE createFails(b)
  BY <1>2 DEF createFails
<1>3. CASE connectorPublishes(b)
  BY <1>3 DEF connectorPublishes
<1>4. CASE connectorFails(b)
  BY <1>4 DEF connectorFails
<1>5. CASE markPublished(b)
  BY <1>5 DEF markPublished
<1>6. CASE markPublishedFails(b)
  BY <1>6 DEF markPublishedFails
<1>7. CASE markFailed(b)
  BY <1>7 DEF markFailed
<1>8. CASE markFailedFails(b)
  BY <1>8 DEF markFailedFails
<1>. QED  BY <1>1, <1>2, <1>3, <1>4, <1>5, <1>6, <1>7, <1>8 DEF Branch
LEMMA IInvBranch ==
  ASSUME IInv, NEW b \in Branches, Branch(b)
  PROVE  IInv'
<1>. DEFINE t == Target(b)
<1>0. TInv' /\ t \in Targets
  BY TInvBranch, TargetType DEF IInv
<1>1. Elsewhere(b)
  BY BranchIsLocal
<1>2. \A x \in Branches : x # b /\ branch[x] \in Inserted =>
        ~(Target(x) = t /\ (publication[t] = "none" \/ branch[b] \in Inserted))
  <2>. SUFFICES ASSUME NEW x \in Branches, x # b, branch[x] \in Inserted, Target(x) = t
                PROVE  publication[t] # "none" /\ branch[b] \notin Inserted
    OBVIOUS
  <2>1. publication[t] # "none"
    BY DEF IInv, BranchBacked, Inserted
  <2>2. branch[b] \notin Inserted
    BY DEF IInv, OneInserter
  <2>. QED  BY <2>1, <2>2
\* b's target is b's alone, or b has just failed and changed nothing.
<1>3. \/ \A x \in Branches : x # b /\ branch[x] \in Inserted => Target(x) # t
      \/ /\ branch'[b] = "failed"
         /\ publication'[t] = publication[t] /\ calls'[t] = calls[t] /\ posts'[t] = posts[t]
  BY <1>2, BranchStep
<1>4. BranchBacked'
  <2>. SUFFICES ASSUME NEW x \in Branches
                PROVE  LET s == Target(x) IN
                       /\ branch'[x] = "call" =>
                            publication'[s] = "publishing" /\ calls'[s] = 0 /\ posts'[s] = 0
                       /\ branch'[x] = "posted" =>
                            publication'[s] = "publishing" /\ calls'[s] = 1 /\ posts'[s] = 1
                       /\ branch'[x] = "erred" =>
                            /\ publication'[s] = "publishing" /\ calls'[s] = 1
                            /\ posts'[s] <= 1 /\ (faults' = 0 => posts'[s] = 0)
                       /\ branch'[x] = "done" => publication'[s] = "published"
    BY DEF BranchBacked
  <2>1. CASE x = b
    BY <2>1, BranchStep
  <2>2. CASE x # b
    <3>. DEFINE s == Target(x)
    <3>1. s \in Targets /\ branch'[x] = branch[x]
      BY <1>1, <2>2, TargetType DEF Elsewhere
    <3>2. CASE branch[x] \notin Inserted
      BY <3>1, <3>2 DEF Inserted
    <3>3. CASE branch[x] \in Inserted
      <4>1. publication'[s] = publication[s] /\ calls'[s] = calls[s] /\ posts'[s] = posts[s]
        BY <1>1, <1>3, <2>2, <3>1, <3>3 DEF Elsewhere
      <4>2. faults' = 0 => faults = 0
        BY <1>1 DEF Elsewhere
      <4>. QED  BY <3>1, <4>1, <4>2 DEF IInv, BranchBacked
    <3>. QED  BY <3>2, <3>3
  <2>. QED  BY <2>1, <2>2
<1>5. OneInserter'
  <2>. SUFFICES ASSUME NEW b1 \in Branches, NEW b2 \in Branches,
                       branch'[b1] \in Inserted, branch'[b2] \in Inserted,
                       Target(b1) = Target(b2), b1 # b2
                PROVE  FALSE
    BY DEF OneInserter
  <2>1. CASE b1 # b /\ b2 # b
    BY <1>1, <2>1 DEF Elsewhere, IInv, OneInserter
  <2>2. CASE b1 = b \/ b2 = b
    <3>1. branch'[b] # "failed"
      BY <2>2 DEF Inserted
    <3>. QED  BY <1>1, <1>3, <2>2, <3>1 DEF Elsewhere
  <2>. QED  BY <2>1, <2>2
<1>6. NoRowNoCall'
  <2>. SUFFICES ASSUME NEW s \in Targets, publication'[s] = "none"
                PROVE  calls'[s] = 0 /\ posts'[s] = 0
    BY DEF NoRowNoCall
  <2>1. CASE s = t
    BY <1>0, <2>1, BranchStep DEF IInv, NoRowNoCall
  <2>2. CASE s # t
    BY <1>1, <2>2 DEF Elsewhere, IInv, NoRowNoCall
  <2>. QED  BY <2>1, <2>2
<1>7. AtMostOneCall'
  <2>. SUFFICES ASSUME NEW s \in Targets PROVE calls'[s] <= 1
    BY DEF AtMostOneCall
  <2>1. CASE s = t
    BY <1>0, <2>1, BranchStep DEF IInv, AtMostOneCall
  <2>2. CASE s # t
    BY <1>1, <2>2 DEF Elsewhere, IInv, AtMostOneCall
  <2>. QED  BY <2>1, <2>2
<1>8. OutcomeIsTrue'
  <2>. SUFFICES ASSUME NEW s \in Targets
                PROVE  /\ publication'[s] = "published" => posts'[s] = 1
                       /\ publication'[s] = "failed" /\ faults' = 0 => posts'[s] = 0
    BY DEF OutcomeIsTrue
  <2>0. faults' = 0 => faults = 0
    BY <1>1 DEF Elsewhere
  <2>1. CASE s = t
    BY <1>0, <2>0, <2>1, BranchStep DEF IInv, OutcomeIsTrue
  <2>2. CASE s # t
    BY <1>1, <2>0, <2>2 DEF Elsewhere, IInv, OutcomeIsTrue
  <2>. QED  BY <2>1, <2>2
<1>9. AckMeansPublished'
  <2>. SUFFICES ASSUME NEW d \in Deliveries, handler'[d] = "acked",
                       NEW ch \in ChannelsOf[ContentOf[d]]
                PROVE  publication'[<<ContentOf[d], ch>>] = "published"
    BY DEF AckMeansPublished
  <2>. DEFINE s == <<ContentOf[d], ch>>
  <2>1. publication[s] = "published" /\ s \in Targets
    BY <1>1, ContentOfAssumption, ChannelsOfAssumption
    DEF Elsewhere, IInv, AckMeansPublished, Targets
  <2>2. CASE s = t
    BY <2>1, <2>2, BranchStep DEF IInv, BranchBacked, Inserted
  <2>3. CASE s # t
    BY <1>1, <2>1, <2>3 DEF Elsewhere
  <2>. QED  BY <2>2, <2>3
<1>. QED  BY <1>0, <1>4, <1>5, <1>6, <1>7, <1>8, <1>9 DEF IInv

LEMMA IInvNext ==
  ASSUME IInv, [Next]_vars
  PROVE  IInv'
<1>1. UNCHANGED vars => IInv'
  <2>. SUFFICES ASSUME UNCHANGED vars PROVE IInv'
    OBVIOUS
  <2>1. TInv'
    BY TInvNext DEF IInv
  <2>2. BranchBacked' /\ OneInserter' /\ NoRowNoCall'
    BY DEF vars, delivery, external, IInv, BranchBacked, OneInserter, NoRowNoCall
  <2>3. AtMostOneCall' /\ OutcomeIsTrue' /\ AckMeansPublished'
    BY DEF vars, delivery, external, IInv, AtMostOneCall, OutcomeIsTrue, AckMeansPublished
  <2>. QED  BY <2>1, <2>2, <2>3 DEF IInv
<1>. QED  BY <1>1, IInvBus, IInvBranch DEF Next, Run, Branches

\* No retry, crash or second event hands a content to a channel's connector
\* twice.
THEOREM AtMostOneCallAlways == Spec => []AtMostOneCall
BY IInvInit, IInvNext, PTL DEF Spec, IInv

\* A publication's status never claims more than what the platform did.
THEOREM OutcomeIsTrueAlways == Spec => []OutcomeIsTrue
BY IInvInit, IInvNext, PTL DEF Spec, IInv

\* An acknowledged event has all its channels published.
THEOREM AckMeansPublishedAlways == Spec => []AckMeansPublished
BY IInvInit, IInvNext, PTL DEF Spec, IInv

\* A row whose outcome is known is never written again.
LEMMA RowStep ==
  ASSUME IInv, [Next]_vars, NEW s \in Targets,
         publication[s] \in {"published", "failed"}
  PROVE  publication'[s] = publication[s]
<1>1. ASSUME NEW b \in Branches, Branch(b)
      PROVE  publication'[s] = publication[s]
  <2>1. CASE s = Target(b)
    BY <1>1, <2>1, BranchStep DEF IInv, BranchBacked, Inserted
  <2>2. CASE s # Target(b)
    BY <1>1, <2>2, BranchIsLocal DEF Elsewhere
  <2>. QED  BY <2>1, <2>2
<1>2. ASSUME NEW d \in Deliveries,
             \/ publish(d) \/ Bus(d) \/ readChannelsFails(d) \/ Crash(d)
      PROVE  publication'[s] = publication[s]
  BY <1>2 DEF publish, Bus, nextAttempt, attemptRejects, attemptResolves,
              readChannels, readChannelsFails, Crash
<1>3. CASE UNCHANGED vars
  BY <1>3 DEF vars
<1>. QED  BY <1>1, <1>2, <1>3 DEF Next, Run, Branches

THEOREM RowIsFinalAlways == Spec => RowIsFinal
<1>1. IInv /\ [Next]_vars =>
        [\A t \in Targets : publication[t] \in {"published", "failed"} =>
           publication'[t] = publication[t]]_vars
  BY RowStep
<1>. QED  BY <1>1, IInvInit, IInvNext, PTL DEF Spec, RowIsFinal
=============================================================================
