---------------------------- MODULE TaggingProofs ----------------------------
(***************************************************************************)
(* Proofs about Tagging for any contents, tagging runs and versions.       *)
(***************************************************************************)
EXTENDS Tagging, FiniteSetTheorems, TLAPS

-----------------------------------------------------------------------------
(* Type correctness. *)

\* What TypeOK leaves out: a run is on a content from its claim on, and every
\* version a job or a vector is of has been written.
Placed ==
  \A r \in Runs : run[r].on = None <=> run[r].at = "ready"

Written ==
  /\ \A c \in Contents : embedded[c] <= text[c]
  /\ \A c \in Contents, v \in 1..MaxText : <<c, v>> \in jobs => v <= text[c]

TInv == TypeOK /\ Placed /\ Written

RunRow ==
  [at : {"ready", "claimed", "applying", "reapplying", "answered", "failed"},
   on : Contents \cup {None}, dto : {"tags", "summary"},
   tagged : BOOLEAN, locked : BOOLEAN]

\* What the steps of a run make of it: row is what it becomes.
Becomes(r, row) == row \in RunRow /\ run' = [run EXCEPT ![r] = row]

LEMMA ClaimEffect ==
  ASSUME TypeOK, NEW r \in Runs, NEW c \in Contents,
         claimForTagging(r, c) \/ claimUnlogged(r, c)
  PROVE  \E row \in RunRow :
           /\ Becomes(r, row)
           /\ row.on = c /\ row.at \in {"claimed", "failed"} /\ ~row.tagged
<1>0. NotRunning \in RunRow /\ ~NotRunning.tagged
  BY DEF NotRunning, RunRow
<1>1. CASE claimForTagging(r, c)
  <2>1. PICK dto \in {"tags", "summary"} :
          run' = [run EXCEPT ![r] = [NotRunning EXCEPT !.at = "claimed", !.on = c, !.dto = dto]]
    BY <1>1 DEF claimForTagging
  <2>. DEFINE row == [NotRunning EXCEPT !.at = "claimed", !.on = c, !.dto = dto]
  <2>2. row \in RunRow /\ row.on = c /\ row.at = "claimed" /\ ~row.tagged
    BY <1>0 DEF RunRow
  <2>3. Becomes(r, row)
    BY <2>1, <2>2 DEF Becomes
  <2>. QED  BY <2>2, <2>3
<1>2. CASE claimUnlogged(r, c)
  <2>. DEFINE row == [NotRunning EXCEPT !.at = "failed", !.on = c]
  <2>1. row \in RunRow /\ row.on = c /\ row.at = "failed" /\ ~row.tagged
    BY <1>0 DEF RunRow
  <2>2. Becomes(r, row)
    BY <1>2, <2>1 DEF claimUnlogged, Becomes
  <2>. QED  BY <2>1, <2>2
<1>. QED  BY <1>1, <1>2

LEMMA AppliesEffect ==
  ASSUME TypeOK, NEW r \in Runs, applyAutoTags(r)
  PROVE  \E row \in RunRow :
           /\ Becomes(r, row)
           /\ row.on = run[r].on /\ row.dto = run[r].dto
           /\ row.at = IF run[r].at = "claimed" THEN "applying" ELSE "reapplying"
           /\ row.tagged <=> tags[run[r].on] # None
<1>. DEFINE row == [run[r] EXCEPT !.at = IF @ = "claimed" THEN "applying" ELSE "reapplying",
                                 !.tagged = tags[run[r].on] # None,
                                 !.locked = lock[run[r].on] # None]
<1>0. run \in [Runs -> RunRow]
  BY DEF TypeOK, RunRow
<1>1. row \in RunRow
  BY <1>0 DEF RunRow
<1>2. run' = [run EXCEPT ![r] = row]
  BY <1>0 DEF applyAutoTags
<1>3. Becomes(r, row)
  BY <1>1, <1>2 DEF Becomes
<1>4. /\ row.on = run[r].on /\ row.dto = run[r].dto
      /\ row.at = IF run[r].at = "claimed" THEN "applying" ELSE "reapplying"
      /\ row.tagged <=> tags[run[r].on] # None
  BY <1>0 DEF RunRow
<1>. QED  BY <1>1, <1>3, <1>4

LEMMA GivesUpEffect ==
  ASSUME TypeOK, NEW r \in Runs, runGivesUp(r)
  PROVE  \E row \in RunRow : Becomes(r, row) /\ row.on = run[r].on /\ row.at = "failed"
<1>. DEFINE row == [run[r] EXCEPT !.at = "failed"]
<1>0. run \in [Runs -> RunRow]
  BY DEF TypeOK, RunRow
<1>1. row \in RunRow /\ row.on = run[r].on /\ row.at = "failed"
  BY <1>0 DEF RunRow
<1>2. Becomes(r, row)
  BY <1>0, <1>1 DEF Becomes, runGivesUp
<1>. QED  BY <1>1, <1>2

LEMMA AnswerEffect ==
  ASSUME TypeOK, NEW r \in Runs, tagsKept(r) \/ tagsWritten(r) \/ summaryWritten(r)
  PROVE  \E row \in RunRow :
           /\ Becomes(r, row)
           /\ row.on = run[r].on /\ row.dto = run[r].dto
           /\ row.at = "answered" /\ ~row.tagged
<1>. DEFINE row == [run[r] EXCEPT !.at = "answered", !.tagged = FALSE, !.locked = FALSE]
<1>0. run \in [Runs -> RunRow]
  BY DEF TypeOK, RunRow
<1>1. /\ row \in RunRow /\ row.on = run[r].on /\ row.dto = run[r].dto
      /\ row.at = "answered" /\ ~row.tagged
  BY <1>0 DEF RunRow
<1>2. Answer(r)
  BY DEF tagsKept, tagsWritten, summaryWritten, Release
<1>3. run' = [run EXCEPT ![r] = row]
  BY <1>0, <1>2 DEF Answer
<1>. QED  BY <1>1, <1>3 DEF Becomes

LEMMA BecomesKeepsTypes ==
  ASSUME TypeOK, Placed, NEW r \in Runs, NEW row \in RunRow, Becomes(r, row),
         row.on = None <=> row.at = "ready"
  PROVE  /\ run' \in [Runs -> RunRow] /\ Placed'
         /\ run'[r] = row /\ \A s \in Runs : s # r => run'[s] = run[s]
<1>0. run \in [Runs -> RunRow]
  BY DEF TypeOK, RunRow
<1>1. run' = [run EXCEPT ![r] = row]
  BY DEF Becomes
<1>2. /\ run' \in [Runs -> RunRow]
      /\ run'[r] = row /\ \A s \in Runs : s # r => run'[s] = run[s]
  BY <1>0, <1>1
<1>3. Placed'
  BY <1>2 DEF Placed
<1>. QED  BY <1>2, <1>3

LEMMA TInvInit == Init => TInv
BY TaggingAssumption DEF Init, TInv, TypeOK, Placed, Written, NotRunning, Versions

LEMMA TInvAuthor ==
  ASSUME TInv, NEW c \in Contents, Author(c)
  PROVE  TInv'
<1>. USE TaggingAssumption DEF TInv, TypeOK, Placed, Written, Versions
<1>1. CASE createDraft(c)
  BY <1>1 DEF createDraft, Refresh
<1>2. CASE leavesDraft(c)
  BY <1>2 DEF leavesDraft, embedding
<1>3. ASSUME NEW fields \in (SUBSET {"title", "body"}) \ {{}}, updateDraft(c, fields)
      PROVE  TInv'
  BY <1>3 DEF updateDraft, Refresh, tagging
<1>4. ASSUME NEW v \in 1..MaxText, refreshEmbedding(c, v)
      PROVE  TInv'
  BY <1>4 DEF refreshEmbedding, tagging
<1>5. ASSUME NEW v \in 1..MaxText, embedFails(c, v)
      PROVE  TInv'
  BY <1>5 DEF embedFails, tagging
<1>. QED  BY <1>1, <1>2, <1>3, <1>4, <1>5 DEF Author

LEMMA TInvRun ==
  ASSUME TInv, NEW r \in Runs, Run(r)
  PROVE  TInv'
<1>. USE TaggingAssumption DEF TInv
<1>1. ASSUME UNCHANGED embedding, draft' = draft,
             run' \in [Runs -> RunRow], Placed',
             lock' \in [Contents -> Runs \cup {None}],
             tags' \in [Contents -> Runs \cup {None}],
             taggers' \in [Contents -> SUBSET Runs],
             overrun' \subseteq Runs, strayed' \subseteq Contents
      PROVE  TInv'
  BY <1>1 DEF TypeOK, Written, RunRow, Versions, embedding
<1>2. ASSUME NEW c \in Contents, claimForTagging(r, c) \/ claimUnlogged(r, c)
      PROVE  TInv'
  <2>1. run' \in [Runs -> RunRow] /\ Placed'
    BY <1>2, ClaimEffect, BecomesKeepsTypes
  <2>. QED  BY <1>1, <1>2, <2>1 DEF claimForTagging, claimUnlogged, TypeOK
<1>3. CASE ttlElapses(r)
  BY <1>3 DEF ttlElapses, TypeOK, Placed, Written, Versions, embedding
<1>4. CASE applyAutoTags(r) \/ runGivesUp(r)
  <2>1. run' \in [Runs -> RunRow] /\ Placed'
    <3>1. run[r].at # "ready" /\ run[r].on # None
      BY <1>4 DEF applyAutoTags, runGivesUp, Placed
    <3>. QED  BY <1>4, <3>1, AppliesEffect, GivesUpEffect, BecomesKeepsTypes
  <2>. QED  BY <1>1, <1>4, <2>1 DEF applyAutoTags, runGivesUp, TypeOK
<1>5. CASE tagsKept(r) \/ tagsWritten(r) \/ summaryWritten(r)
  <2>1. run[r].at # "ready" /\ run[r].on # None
    BY <1>5 DEF tagsKept, tagsWritten, summaryWritten, Applying, Placed
  <2>2. run' \in [Runs -> RunRow] /\ Placed'
    BY <1>5, <2>1, AnswerEffect, BecomesKeepsTypes
  <2>3. run[r].on \in Contents
    BY <2>1 DEF TypeOK
  <2>4. lock' \in [Contents -> Runs \cup {None}] /\ strayed' \subseteq Contents
    BY <1>5, <2>3 DEF tagsKept, tagsWritten, summaryWritten, Release, TypeOK
  <2>5. /\ tags' \in [Contents -> Runs \cup {None}] /\ taggers' \in [Contents -> SUBSET Runs]
        /\ overrun' = overrun /\ draft' = draft /\ UNCHANGED embedding
    BY <1>5, <2>3 DEF tagsKept, tagsWritten, summaryWritten, TypeOK
  <2>6. overrun \subseteq Runs
    BY DEF TypeOK
  <2>. QED  BY <1>1, <2>2, <2>4, <2>5, <2>6
<1>. QED  BY <1>2, <1>3, <1>4, <1>5 DEF Run

LEMMA TInvNext ==
  ASSUME TInv, [Next]_vars
  PROVE  TInv'
<1>1. UNCHANGED vars => TInv'
  BY DEF vars, tagging, embedding, TInv, TypeOK, Placed, Written, Versions
<1>. QED  BY <1>1, TInvAuthor, TInvRun DEF Next

LEMMA TInvAlways == Spec => []TInv
BY TInvInit, TInvNext, PTL DEF Spec

\* Rows, runs and jobs keep their types; no run writes tags without a claim.
THEOREM TypeCorrect == Spec => []TypeOK
BY TInvAlways, PTL DEF TInv

-----------------------------------------------------------------------------
(* The vector follows the text. *)

\* EmbeddingFollows with the job that matters: the one of the present text.
Follows ==
  \A c \in Contents :
    \/ text[c] = 0
    \/ <<c, text[c]>> \in jobs
    \/ embedded[c] = text[c]
    \/ <<c, text[c]>> \in unembedded
    \/ c \in reordered

LEMMA FollowsNext ==
  ASSUME TInv, Follows, [Next]_vars
  PROVE  Follows'
<1>. USE TaggingAssumption DEF TInv, TypeOK, Placed, Written, Follows, Versions
<1>1. ASSUME NEW c \in Contents, createDraft(c)
      PROVE  Follows'
  BY <1>1 DEF createDraft, Refresh
<1>2. ASSUME NEW c \in Contents, NEW fields \in (SUBSET {"title", "body"}) \ {{}},
             updateDraft(c, fields)
      PROVE  Follows'
  <2>1. TextFields(fields)
    BY DEF TextFields
  <2>. QED  BY <1>2, <2>1 DEF updateDraft, Refresh
<1>3. ASSUME NEW c \in Contents, NEW v \in 1..MaxText, refreshEmbedding(c, v)
      PROVE  Follows'
  <2>1. v <= text[c] /\ embedded[c] <= text[c]
    BY <1>3 DEF refreshEmbedding
  <2>. QED  BY <1>3, <2>1 DEF refreshEmbedding
<1>4. ASSUME NEW c \in Contents, NEW v \in 1..MaxText, embedFails(c, v)
      PROVE  Follows'
  BY <1>4 DEF embedFails
<1>5. ASSUME UNCHANGED embedding
      PROVE  Follows'
  BY <1>5 DEF embedding
<1>6. ASSUME NEW r \in Runs, Run(r)
      PROVE  UNCHANGED embedding
  BY <1>6 DEF Run, claimForTagging, claimUnlogged, ttlElapses, applyAutoTags, runGivesUp,
              tagsKept, tagsWritten, summaryWritten
<1>7. ASSUME NEW c \in Contents, leavesDraft(c)
      PROVE  UNCHANGED embedding
  BY <1>7 DEF leavesDraft
<1>8. UNCHANGED vars => UNCHANGED embedding
  BY DEF vars
<1>. QED  BY <1>1, <1>2, <1>3, <1>4, <1>5, <1>6, <1>7, <1>8 DEF Next, Author

\* Once its refreshes are through, a content's vector is that of its text,
\* unless a job failed or was overtaken, whatever the edits and the order of
\* the jobs (contents.service.ts 48-58, 222, 275).
THEOREM EmbeddingFollowsAlways == Spec => []EmbeddingFollows
<1>1. Init => Follows
  BY DEF Init, Follows
<1>2. TInv /\ Follows => EmbeddingFollows
  <2>. SUFFICES ASSUME TInv, Follows, NEW c \in Contents,
                       \A v \in 1..MaxText : <<c, v>> \notin jobs
                PROVE  \/ embedded[c] = text[c]
                       \/ <<c, text[c]>> \in unembedded
                       \/ c \in reordered
    BY DEF EmbeddingFollows
  <2>1. text[c] \in 0..MaxText /\ embedded[c] \in 0..MaxText /\ embedded[c] <= text[c]
    BY DEF TInv, TypeOK, Written
  <2>2. CASE text[c] = 0
    BY <2>1, <2>2, TaggingAssumption
  <2>3. CASE text[c] # 0
    <3>1. text[c] \in 1..MaxText
      BY <2>1, <2>3, TaggingAssumption
    <3>. QED  BY <2>3, <3>1 DEF Follows
  <2>. QED  BY <2>2, <2>3
<1>. QED  BY <1>1, <1>2, FollowsNext, TInvAlways, PTL DEF Spec

-----------------------------------------------------------------------------
(* One tagger at a time. *)

\* The lock names the run that holds the content, and a run it names is on it.
LockBacked ==
  /\ \A c \in Contents : lock[c] # None => run[lock[c]].on = c
  /\ \A c \in Contents, r \in Runs : ~Disturbed(c) /\ Holds(r, c) => lock[c] = r

\* Tags are never taken away, so a run that has been answered, or has seen
\* them, can rely on them.
TagsBacked ==
  \A r \in Runs :
    /\ run[r].at = "answered" /\ run[r].dto = "tags" => tags[run[r].on] # None
    /\ run[r].tagged /\ run[r].at \in {"applying", "reapplying"} => tags[run[r].on] # None
    /\ run[r].at = "reapplying" /\ run[r].dto = "tags" => run[r].tagged

\* While its lease lasts, what a run has read of the tags still is so.
ReadStillHolds ==
  \A c \in Contents, r \in Runs :
    ~Disturbed(c) /\ run[r].on = c /\ run[r].at = "applying" /\ ~run[r].tagged
      => tags[c] = None

OneTagger ==
  \A c \in Contents :
    /\ tags[c] = None => taggers[c] = {}
    /\ ~Disturbed(c) => \A r, s \in taggers[c] : r = s

XInv == TInv /\ LockBacked /\ TagsBacked /\ ReadStillHolds /\ OneTagger

LEMMA XInvInit == Init => XInv
<1>. SUFFICES ASSUME Init PROVE XInv
  OBVIOUS
<1>1. TInv
  BY TInvInit
<1>. QED  BY <1>1 DEF XInv, Init, NotRunning, LockBacked, TagsBacked, ReadStillHolds, OneTagger, Holds

\* What was disturbed stays so.
LEMMA DisturbedStays ==
  ASSUME TInv, [Next]_vars, NEW c \in Contents, Disturbed(c)
  PROVE  Disturbed(c)'
<1>. USE DEF TInv, TypeOK, Placed, Disturbed
<1>1. ASSUME UNCHANGED <<run, overrun, strayed>>
      PROVE  Disturbed(c)'
  BY <1>1
<1>2. ASSUME NEW d \in Contents, Author(d)
      PROVE  UNCHANGED <<run, overrun, strayed>>
  BY <1>2 DEF Author, createDraft, leavesDraft, updateDraft, refreshEmbedding, embedFails, tagging
<1>3. ASSUME NEW r \in Runs, Run(r)
      PROVE  /\ strayed \subseteq strayed' /\ overrun \subseteq overrun'
             /\ \A s \in Runs : run[s].on # None => run'[s].on = run[s].on
  <2>0. ASSUME NEW row \in RunRow, Becomes(r, row), run[r].on # None => row.on = run[r].on
        PROVE  \A s \in Runs : run[s].on # None => run'[s].on = run[s].on
    BY <2>0 DEF Becomes
  <2>1. ASSUME NEW d \in Contents, claimForTagging(r, d) \/ claimUnlogged(r, d)
        PROVE  /\ strayed \subseteq strayed' /\ overrun \subseteq overrun'
               /\ \A s \in Runs : run[s].on # None => run'[s].on = run[s].on
    <3>1. run[r].on = None /\ UNCHANGED <<overrun, strayed>>
      BY <2>1 DEF claimForTagging, claimUnlogged
    <3>. QED  BY <2>0, <2>1, <3>1, ClaimEffect
  <2>2. CASE ttlElapses(r)
    BY <2>2 DEF ttlElapses
  <2>3. CASE applyAutoTags(r) \/ runGivesUp(r)
    <3>1. UNCHANGED <<overrun, strayed>>
      BY <2>3 DEF applyAutoTags, runGivesUp
    <3>. QED  BY <2>0, <2>3, <3>1, AppliesEffect, GivesUpEffect
  <2>4. CASE tagsKept(r) \/ tagsWritten(r) \/ summaryWritten(r)
    <3>1. strayed \subseteq strayed' /\ overrun' = overrun
      BY <2>4 DEF tagsKept, tagsWritten, summaryWritten, Release
    <3>. QED  BY <2>0, <2>4, <3>1, AnswerEffect
  <2>. QED  BY <1>3, <2>1, <2>2, <2>3, <2>4 DEF Run
<1>4. UNCHANGED vars => UNCHANGED <<run, overrun, strayed>>
  BY DEF vars, tagging
<1>. QED  BY <1>1, <1>2, <1>3, <1>4, TaggingAssumption DEF Next

\* A claim finds no lock, or the content disturbed.
LEMMA XInvClaim ==
  ASSUME XInv, NEW r \in Runs, NEW d \in Contents,
         claimForTagging(r, d) \/ claimUnlogged(r, d)
  PROVE  XInv'
<1>. USE TaggingAssumption DEF XInv
<1>0. [Next]_vars
  BY DEF Next, Run
<1>1. TInv'
  BY <1>0, TInvNext
<1>2. \A c \in Contents : ~Disturbed(c)' => ~Disturbed(c)
  BY <1>0, DisturbedStays
<1>3. /\ run[r].at = "ready" /\ lock' = [lock EXCEPT ![d] = r]
      /\ UNCHANGED <<tags, overrun, strayed, taggers>>
      /\ run'[r].on = d /\ run'[r].at \in {"claimed", "failed"} /\ ~run'[r].tagged
      /\ \A s \in Runs : s # r => run'[s] = run[s]
      /\ lock[d] = None \/ lock[d] \in overrun
  <2>1. PICK row \in RunRow : /\ Becomes(r, row) /\ row.on = d
                              /\ row.at \in {"claimed", "failed"} /\ ~row.tagged
    BY ClaimEffect DEF TInv
  <2>2. run'[r] = row /\ \A s \in Runs : s # r => run'[s] = run[s]
    BY <2>1 DEF Becomes, TInv, TypeOK
  <2>3. /\ run[r].at = "ready" /\ lock' = [lock EXCEPT ![d] = r]
        /\ UNCHANGED <<tags, overrun, strayed, taggers>>
        /\ lock[d] = None \/ lock[d] \in overrun
    BY DEF claimForTagging, claimUnlogged, Unlocked
  <2>. QED  BY <2>1, <2>2, <2>3
<1>4. run[r].on = None /\ \A s \in Runs : run[s].on = None <=> run[s].at = "ready"
  BY <1>3 DEF TInv, Placed
<1>5. LockBacked'
  <2>1. \A c \in Contents : lock'[c] # None => run'[lock'[c]].on = c
    BY <1>3, <1>4 DEF LockBacked, TInv, TypeOK
  <2>2. ASSUME NEW c \in Contents, NEW s \in Runs, ~Disturbed(c)', Holds(s, c)'
        PROVE  lock'[c] = s
    <3>0. ~Disturbed(c)
      BY <1>2, <2>2
    <3>1. CASE s = r
      BY <3>1, <2>2, <1>3 DEF Holds, TInv, TypeOK
    <3>2. CASE s # r
      <4>1. Holds(s, c)
        BY <3>2, <2>2, <1>3 DEF Holds
      <4>2. lock[c] = s /\ s # None
        BY <4>1, <3>0 DEF LockBacked
      <4>3. c # d
        <5>. SUFFICES ASSUME c = d PROVE FALSE
          OBVIOUS
        <5>1. s \in overrun /\ run[s].on = c
          BY <4>1, <4>2, <1>3 DEF Holds
        <5>. QED  BY <5>1, <3>0 DEF Disturbed
      <4>. QED  BY <4>2, <4>3, <1>3 DEF TInv, TypeOK
    <3>. QED  BY <3>1, <3>2
  <2>. QED  BY <2>1, <2>2 DEF LockBacked
<1>6. TagsBacked'
  BY <1>3 DEF TagsBacked
<1>7. ReadStillHolds'
  BY <1>2, <1>3 DEF ReadStillHolds
<1>8. OneTagger'
  BY <1>2, <1>3 DEF OneTagger
<1>. QED  BY <1>1, <1>5, <1>6, <1>7, <1>8

\* Steps of a run that write no tags and release nothing.
LEMMA XInvRunQuiet ==
  ASSUME XInv, NEW r \in Runs, ttlElapses(r) \/ applyAutoTags(r) \/ runGivesUp(r)
  PROVE  XInv'
<1>. USE TaggingAssumption DEF XInv
<1>0. [Next]_vars
  BY DEF Next, Run
<1>1. TInv'
  BY <1>0, TInvNext
<1>2. \A c \in Contents : ~Disturbed(c)' => ~Disturbed(c)
  BY <1>0, DisturbedStays
<1>3. UNCHANGED <<lock, tags, taggers>>
  BY DEF ttlElapses, applyAutoTags, runGivesUp
<1>4. /\ \A s \in Runs : run'[s].on = run[s].on
      /\ \A s \in Runs, c \in Contents : Holds(s, c)' => Holds(s, c)
  BY DEF ttlElapses, applyAutoTags, runGivesUp, Holds, TInv, TypeOK
<1>5. LockBacked'
  BY <1>2, <1>3, <1>4 DEF LockBacked, TInv, TypeOK
<1>6. TagsBacked' /\ ReadStillHolds'
  <2>1. CASE ttlElapses(r)
    BY <2>1, <1>2, <1>3 DEF ttlElapses, TagsBacked, ReadStillHolds
  <2>2. CASE applyAutoTags(r)
    <3>1. /\ \A s \in Runs : s # r => run'[s] = run[s]
          /\ run[r].at \in {"claimed", "answered"}
          /\ run'[r].at = IF run[r].at = "claimed" THEN "applying" ELSE "reapplying"
          /\ run'[r].dto = run[r].dto /\ run'[r].on = run[r].on
          /\ run'[r].tagged <=> tags[run[r].on] # None
      BY <2>2 DEF applyAutoTags, TInv, TypeOK
    <3>2. TagsBacked'
      BY <3>1, <1>3 DEF TagsBacked
    <3>3. ReadStillHolds'
      BY <3>1, <1>2, <1>3 DEF ReadStillHolds
    <3>. QED  BY <3>2, <3>3
  <2>3. CASE runGivesUp(r)
    <3>1. (\A s \in Runs : s # r => run'[s] = run[s]) /\ run'[r].at = "failed"
      BY <2>3 DEF runGivesUp, TInv, TypeOK
    <3>. QED  BY <3>1, <1>2, <1>3 DEF TagsBacked, ReadStillHolds
  <2>. QED  BY <2>1, <2>2, <2>3
<1>7. OneTagger'
  BY <1>2, <1>3 DEF OneTagger
<1>. QED  BY <1>1, <1>5, <1>6, <1>7

\* An answered run gives back its lock, or somebody else's.
LEMMA XInvAnswered ==
  ASSUME XInv, NEW r \in Runs, tagsKept(r) \/ tagsWritten(r) \/ summaryWritten(r)
  PROVE  XInv'
<1>. DEFINE d == run[r].on
<1>. USE TaggingAssumption DEF XInv
<1>0. [Next]_vars
  BY DEF Next, Run
<1>1. TInv'
  BY <1>0, TInvNext
<1>2. \A c \in Contents : ~Disturbed(c)' => ~Disturbed(c)
  BY <1>0, DisturbedStays
<1>3. /\ run[r].at \in {"applying", "reapplying"}
      /\ run' = [run EXCEPT ![r].at = "answered", ![r].tagged = FALSE, ![r].locked = FALSE]
  BY DEF tagsKept, tagsWritten, summaryWritten, Release, Answer, Applying
<1>4. d \in Contents
  BY <1>3 DEF TInv, TypeOK, Placed
<1>5. /\ run'[r].at = "answered" /\ ~run'[r].tagged
      /\ run'[r].on = d /\ run'[r].dto = run[r].dto
      /\ \A s \in Runs : s # r => run'[s] = run[s]
  BY <1>3 DEF TInv, TypeOK
<1>6. \/ UNCHANGED <<lock, strayed>>
      \/ /\ lock' = [lock EXCEPT ![d] = None]
         /\ strayed' = IF lock[d] \in {None, r} THEN strayed ELSE strayed \cup {d}
  BY DEF tagsKept, tagsWritten, summaryWritten, Release
<1>7. LockBacked'
  <2>1. \A c \in Contents : lock'[c] # None => run'[lock'[c]].on = c
    <3>1. \A c \in Contents : lock'[c] # None => lock'[c] = lock[c] /\ lock[c] \in Runs
      BY <1>4, <1>6 DEF TInv, TypeOK
    <3>. QED  BY <3>1, <1>5 DEF LockBacked
  <2>2. ASSUME NEW c \in Contents, NEW s \in Runs, ~Disturbed(c)', Holds(s, c)'
        PROVE  lock'[c] = s
    <3>1. s # r /\ Holds(s, c)
      BY <2>2, <1>5 DEF Holds
    <3>2. lock[c] = s
      BY <2>2, <1>2, <3>1 DEF LockBacked
    <3>3. UNCHANGED lock \/ c # d
      <4>. SUFFICES ASSUME c = d, ~UNCHANGED lock PROVE FALSE
        OBVIOUS
      <4>1. c \in strayed'
        BY <1>6, <3>1, <3>2
      <4>. QED  BY <4>1, <2>2 DEF Disturbed
    <3>. QED  BY <3>2, <3>3, <1>6 DEF TInv, TypeOK
  <2>. QED  BY <2>1, <2>2 DEF LockBacked
<1>8. CASE tagsKept(r) \/ summaryWritten(r)
  <2>1. UNCHANGED <<tags, taggers>> /\ (run[r].dto = "tags" => tags[d] # None)
    BY <1>8, <1>3 DEF tagsKept, summaryWritten, KeepsTags, TagsBacked
  <2>2. TagsBacked'
    BY <2>1, <1>5 DEF TagsBacked
  <2>3. ReadStillHolds'
    BY <2>1, <1>2, <1>5 DEF ReadStillHolds
  <2>4. OneTagger'
    BY <2>1, <1>2 DEF OneTagger
  <2>. QED  BY <1>1, <1>7, <2>2, <2>3, <2>4
<1>9. CASE tagsWritten(r)
  <2>1. /\ run[r].dto = "tags" /\ ~run[r].tagged
        /\ tags' = [tags EXCEPT ![d] = r]
        /\ taggers' = [taggers EXCEPT ![d] = @ \cup {r}]
    BY <1>9 DEF tagsWritten, KeepsTags
  <2>2. run[r].at = "applying"
    BY <2>1, <1>3 DEF TagsBacked
  <2>3. \A c \in Contents : tags[c] # None => tags'[c] # None
    BY <2>1 DEF TInv, TypeOK
  <2>4. TagsBacked'
    <3>1. \A s \in Runs : run[s].at # "ready" => run[s].on \in Contents
      BY DEF TInv, TypeOK, Placed
    <3>2. tags'[d] # None
      BY <2>1, <1>4 DEF TInv, TypeOK
    <3>. QED  BY <3>1, <3>2, <2>3, <1>5 DEF TagsBacked
  <2>5. ReadStillHolds'
    <3>. SUFFICES ASSUME NEW c \in Contents, NEW s \in Runs, ~Disturbed(c)',
                         run'[s].on = c, run'[s].at = "applying", ~run'[s].tagged
                  PROVE  tags'[c] = None
      BY DEF ReadStillHolds
    <3>1. s # r /\ run[s].on = c /\ run[s].at = "applying" /\ ~run[s].tagged /\ ~Disturbed(c)
      BY <1>2, <1>5
    <3>2. tags[c] = None
      BY <3>1 DEF ReadStillHolds
    <3>3. c # d
      <4>. SUFFICES ASSUME c = d PROVE FALSE
        OBVIOUS
      <4>1. Holds(s, c) /\ Holds(r, c)
        BY <3>1, <2>2 DEF Holds
      <4>. QED  BY <4>1, <3>1 DEF LockBacked
    <3>. QED  BY <3>2, <3>3, <2>1 DEF TInv, TypeOK
  <2>6. OneTagger'
    <3>. SUFFICES ASSUME NEW c \in Contents
                  PROVE  /\ tags'[c] = None => taggers'[c] = {}
                         /\ ~Disturbed(c)' => \A s, t \in taggers'[c] : s = t
      BY DEF OneTagger
    <3>1. CASE c # d
      BY <3>1, <2>1, <1>2 DEF OneTagger, TInv, TypeOK
    <3>2. CASE c = d
      <4>1. tags'[c] = r /\ r # None
        BY <3>2, <2>1 DEF TInv, TypeOK
      <4>2. ~Disturbed(c) => taggers[c] = {}
        BY <3>2, <2>1, <2>2 DEF ReadStillHolds, OneTagger
      <4>3. taggers'[c] = taggers[c] \cup {r}
        BY <3>2, <2>1 DEF TInv, TypeOK
      <4>. QED  BY <4>1, <4>2, <4>3, <1>2
    <3>. QED  BY <3>1, <3>2
  <2>. QED  BY <1>1, <1>7, <2>4, <2>5, <2>6
<1>. QED  BY <1>8, <1>9

LEMMA XInvNext ==
  ASSUME XInv, [Next]_vars
  PROVE  XInv'
<1>1. TInv'
  BY TInvNext DEF XInv
<1>2. ASSUME UNCHANGED <<lock, tags, run, overrun, strayed, taggers>>
      PROVE  XInv'
  BY <1>1, <1>2 DEF XInv, LockBacked, TagsBacked, ReadStillHolds, OneTagger, Disturbed, Holds
<1>3. ASSUME NEW c \in Contents, Author(c)
      PROVE  UNCHANGED <<lock, tags, run, overrun, strayed, taggers>>
  BY <1>3 DEF Author, createDraft, leavesDraft, updateDraft, refreshEmbedding, embedFails, tagging
<1>4. UNCHANGED vars => UNCHANGED <<lock, tags, run, overrun, strayed, taggers>>
  BY DEF vars, tagging
<1>5. ASSUME NEW r \in Runs, Run(r)
      PROVE  XInv'
  BY <1>5, XInvClaim, XInvRunQuiet, XInvAnswered DEF Run
<1>. QED  BY <1>2, <1>3, <1>4, <1>5 DEF Next

\* For any number of runs, repeated answers and failures: one run at a time
\* holds a content and one alone tags it, as long as no run outlives its lease
\* and none gives back another's lock (contents.service.ts 96-172).
THEOREM TaggingIsExclusiveAlways == Spec => []TaggingIsExclusive
<1>1. XInv => TaggingIsExclusive
  <2>. SUFFICES ASSUME XInv, NEW c \in Contents, ~Disturbed(c)
                PROVE  /\ Cardinality({r \in Runs : Holds(r, c)}) <= 1
                       /\ Cardinality(taggers[c]) <= 1
    BY DEF TaggingIsExclusive
  <2>1. ASSUME NEW S, \A r, s \in S : r = s
        PROVE  Cardinality(S) <= 1
    <3>1. CASE S = {}
      BY <3>1, FS_EmptySet
    <3>2. CASE S # {}
      <4>1. PICK r \in S : S = {r}
        BY <2>1, <3>2
      <4>2. Cardinality({r}) = 1
        BY FS_Singleton
      <4>. QED  BY <4>1, <4>2
    <3>. QED  BY <3>1, <3>2
  <2>2. \A r, s \in {x \in Runs : Holds(x, c)} : r = s
    BY DEF XInv, LockBacked
  <2>3. \A r, s \in taggers[c] : r = s
    BY DEF XInv, OneTagger
  <2>. QED  BY <2>1, <2>2, <2>3
<1>. QED  BY <1>1, XInvInit, XInvNext, PTL DEF Spec
=============================================================================
