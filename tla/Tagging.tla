------------------------------- MODULE Tagging -------------------------------
(***************************************************************************)
(* What runs beside a draft's author: the tagging runs of the automation   *)
(* service (claimForTagging, applyAutoTags) and the embeddings the search  *)
(* is made on (refreshEmbedding), from contents.service.ts.                *)
(*                                                                         *)
(* The tagging lock is the column taggingStartedAt.  It names no owner;    *)
(* lock[c] is the run whose claim wrote it, which only the history uses.   *)
(* The lock is stale once that run has overrun its TTL.  The runs are an   *)
(* external service: they claim, then send their tags, and send them again *)
(* if the answer got lost.                                                 *)
(***************************************************************************)
EXTENDS Naturals, FiniteSets

CONSTANTS Contents, Runs, None,
          MaxText          \* bound: versions of the text

ASSUME TaggingAssumption == None \notin Runs \cup Contents /\ MaxText \in Nat \ {0}

VARIABLES
  draft,      \* status = draft and deletedAt null
  lock, tags, \* tags: the run whose tags are stored
  run,        \* dto: what it sends; tagged, locked: what applyAutoTags has read
  text,       \* version of title and body, 0 before createDraft
  embedded,   \* version the embedding column was computed from, 0 for null
  jobs,       \* refreshes under way, <<content, version>>
  (* History. *)
  overrun,    \* runs that outlived the TTL of their claim
  strayed,    \* contents whose lock was released by a run it is not of
  taggers,    \* runs that wrote tags
  unembedded, \* jobs that ended without a vector
  reordered   \* contents where a job wrote after a later one

tagging == <<draft, lock, tags, run, overrun, strayed, taggers>>
embedding == <<text, embedded, jobs, unembedded, reordered>>
vars == <<tagging, embedding>>

NotRunning == [at |-> "ready", on |-> None, dto |-> "tags", tagged |-> FALSE, locked |-> FALSE]

Init ==
  /\ draft = {} /\ lock = [c \in Contents |-> None] /\ tags = [c \in Contents |-> None]
  /\ run = [r \in Runs |-> NotRunning]
  /\ text = [c \in Contents |-> 0] /\ embedded = [c \in Contents |-> 0] /\ jobs = {}
  /\ overrun = {} /\ strayed = {} /\ taggers = [c \in Contents |-> {}]
  /\ unembedded = {} /\ reordered = {}

-----------------------------------------------------------------------------
(* The author *)

\* Slip: the text is read before the row is written.
RefreshBefore(c) == jobs \cup {<<c, text[c]>>}

\* refreshEmbedding of the row that create or update returned.
Refresh(c) == jobs \cup {<<c, text[c] + 1>>}

createDraft(c) ==
  /\ text[c] = 0
  /\ draft' = draft \cup {c}
  /\ text' = [text EXCEPT ![c] = 1]
  /\ jobs' = Refresh(c)
  /\ UNCHANGED <<lock, tags, run, overrun, strayed, taggers, embedded, unembedded, reordered>>

\* Slip: an edit of the body alone is taken for no change of the text.
TextFieldsTitle(fields) == "title" \in fields

TextFields(fields) == "title" \in fields \/ "body" \in fields

\* A new text; the vector is computed in the background.
updateDraft(c, fields) ==
  /\ c \in draft /\ text[c] < MaxText
  /\ text' = [text EXCEPT ![c] = @ + 1]
  /\ jobs' = IF TextFields(fields) THEN Refresh(c) ELSE jobs
  /\ UNCHANGED <<tagging, embedded, unembedded, reordered>>

\* submitForValidation or softDelete.
leavesDraft(c) ==
  /\ c \in draft
  /\ draft' = draft \ {c}
  /\ UNCHANGED <<lock, tags, run, overrun, strayed, taggers, embedding>>

\* The provider answered: the column is written, whatever it held.
refreshEmbedding(c, v) ==
  /\ <<c, v>> \in jobs
  /\ jobs' = jobs \ {<<c, v>>}
  /\ embedded' = [embedded EXCEPT ![c] = v]
  /\ reordered' = IF v < embedded[c] THEN reordered \cup {c} ELSE reordered
  /\ UNCHANGED <<tagging, text, unembedded>>

\* embed returned null (no key, text too short, provider down), or the process
\* ended; nobody tries again.
embedFails(c, v) ==
  /\ <<c, v>> \in jobs
  /\ jobs' = jobs \ {<<c, v>>}
  /\ unembedded' = unembedded \cup {<<c, v>>}
  /\ UNCHANGED <<tagging, text, embedded, reordered>>

-----------------------------------------------------------------------------
(* The tagging runs *)

Holds(r, c) == run[r].on = c /\ run[r].at \in {"claimed", "applying"}

Unlocked(c) == lock[c] = None \/ lock[c] \in overrun

\* One UPDATE ... WHERE, so check and write are one step.
claimForTagging(r, c) ==
  /\ run[r].at = "ready"
  /\ c \in draft /\ Unlocked(c)
  /\ lock' = [lock EXCEPT ![c] = r]
  /\ \E dto \in {"tags", "summary"} :
       run' = [run EXCEPT ![r] = [NotRunning EXCEPT !.at = "claimed", !.on = c, !.dto = dto]]
  /\ UNCHANGED <<draft, tags, overrun, strayed, taggers, embedding>>

\* The audit entry fails after the UPDATE: the run is told 500, the lock stays.
claimUnlogged(r, c) ==
  /\ run[r].at = "ready"
  /\ c \in draft /\ Unlocked(c)
  /\ lock' = [lock EXCEPT ![c] = r]
  /\ run' = [run EXCEPT ![r] = [NotRunning EXCEPT !.at = "failed", !.on = c]]
  /\ UNCHANGED <<draft, tags, overrun, strayed, taggers, embedding>>

ttlElapses(r) ==
  /\ run[r].at # "ready" /\ r \notin overrun
  /\ overrun' = overrun \cup {r}
  /\ UNCHANGED <<draft, lock, tags, run, strayed, taggers, embedding>>

Applying(r) == run[r].at \in {"applying", "reapplying"}

\* applyAutoTags reads the row.  Sent again if the answer was lost.
applyAutoTags(r) ==
  /\ run[r].at \in {"claimed", "answered"}
  /\ run' = [run EXCEPT ![r].at = IF @ = "claimed" THEN "applying" ELSE "reapplying",
                        ![r].tagged = tags[run[r].on] # None,
                        ![r].locked = lock[run[r].on] # None]
  /\ UNCHANGED <<draft, lock, tags, overrun, strayed, taggers, embedding>>

Answer(r) == run' = [run EXCEPT ![r].at = "answered", ![r].tagged = FALSE, ![r].locked = FALSE]

Release(r, c) ==
  /\ lock' = [lock EXCEPT ![c] = None]
  /\ strayed' = IF lock[c] \in {None, r} THEN strayed ELSE strayed \cup {c}
  /\ Answer(r)

\* Slip: the tags that are there are not looked at.
KeepsTagsNever(r) == FALSE

KeepsTags(r) == run[r].tagged

\* There were tags: only the lock goes, if one was there.
tagsKept(r) ==
  LET c == run[r].on IN
  /\ Applying(r) /\ run[r].dto = "tags" /\ KeepsTags(r)
  /\ \/ run[r].locked /\ Release(r, c)
     \/ ~run[r].locked /\ Answer(r) /\ UNCHANGED <<lock, strayed>>
  /\ UNCHANGED <<draft, tags, overrun, taggers, embedding>>

\* Neither the status nor the lock is looked at.
tagsWritten(r) ==
  LET c == run[r].on IN
  /\ Applying(r) /\ run[r].dto = "tags" /\ ~KeepsTags(r)
  /\ Release(r, c)
  /\ tags' = [tags EXCEPT ![c] = r]
  /\ taggers' = [taggers EXCEPT ![c] = @ \cup {r}]
  /\ UNCHANGED <<draft, overrun, embedding>>

\* A summary without tags is always written.
summaryWritten(r) ==
  /\ Applying(r) /\ run[r].dto = "summary"
  /\ Release(r, run[r].on)
  /\ UNCHANGED <<draft, tags, overrun, taggers, embedding>>

runGivesUp(r) ==
  /\ run[r].at \in {"claimed", "applying", "reapplying", "answered"}
  /\ run' = [run EXCEPT ![r].at = "failed"]
  /\ UNCHANGED <<draft, lock, tags, overrun, strayed, taggers, embedding>>

-----------------------------------------------------------------------------
Author(c) ==
  \/ createDraft(c) \/ leavesDraft(c)
  \/ \E fields \in (SUBSET {"title", "body"}) \ {{}} : updateDraft(c, fields)
  \/ \E v \in 1..MaxText : refreshEmbedding(c, v) \/ embedFails(c, v)

Run(r) ==
  \/ \E c \in Contents : claimForTagging(r, c) \/ claimUnlogged(r, c)
  \/ ttlElapses(r) \/ applyAutoTags(r) \/ runGivesUp(r)
  \/ tagsKept(r) \/ tagsWritten(r) \/ summaryWritten(r)

Next == (\E c \in Contents : Author(c)) \/ (\E r \in Runs : Run(r))

Spec == Init /\ [][Next]_vars

-----------------------------------------------------------------------------
Versions == Contents \X (1..MaxText)

TypeOK ==
  /\ draft \subseteq Contents
  /\ lock \in [Contents -> Runs \cup {None}] /\ tags \in [Contents -> Runs \cup {None}]
  /\ run \in [Runs ->
       [at : {"ready", "claimed", "applying", "reapplying", "answered", "failed"},
        on : Contents \cup {None}, dto : {"tags", "summary"},
        tagged : BOOLEAN, locked : BOOLEAN]]
  /\ text \in [Contents -> 0..MaxText] /\ embedded \in [Contents -> 0..MaxText]
  /\ jobs \subseteq Versions /\ unembedded \subseteq Versions
  /\ overrun \subseteq Runs /\ strayed \subseteq Contents /\ reordered \subseteq Contents
  /\ taggers \in [Contents -> SUBSET Runs]

\* Runs that outlived their TTL, or released a lock that was another's, on c.
Disturbed(c) == c \in strayed \/ \E r \in overrun : run[r].on = c

\* "Only one caller wins the race" and tags that exist are not overwritten
\* (contents.service.ts 92, 152), although applyAutoTags reads and writes in
\* two steps and never looks at the lock: this holds as long as no run
\* outlives its TTL and none repeats its answer into another's claim.
TaggingIsExclusive ==
  \A c \in Contents : ~Disturbed(c) =>
    /\ Cardinality({r \in Runs : Holds(r, c)}) <= 1
    /\ Cardinality(taggers[c]) <= 1

\* Once every refresh is through, the vector is that of the present text,
\* unless its job failed or an older one was written last (275, 222): an edit
\* of either field never leaves the search on the old text for good.
EmbeddingFollows ==
  \A c \in Contents :
    \/ \E v \in 1..MaxText : <<c, v>> \in jobs
    \/ embedded[c] = text[c]
    \/ <<c, text[c]>> \in unembedded
    \/ c \in reordered
=============================================================================
