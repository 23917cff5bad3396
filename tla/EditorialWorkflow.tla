------------------------- MODULE EditorialWorkflow -------------------------
(***************************************************************************)
(* The life of a content: contents.service.ts (createDraft, updateDraft,   *)
(* submitForValidation, softDelete) and workflows.service.ts (advance),    *)
(* as the controllers call them.                                           *)
(*                                                                         *)
(* A request is several database round trips, and other requests run       *)
(* between them: the first step reads the rows and makes every check the   *)
(* method makes, later steps write with no check.  A request that fails    *)
(* its checks answers 4xx and changes nothing; it is not an action.  The   *)
(* API runs as several replicas that share only the database, so a         *)
(* handler here is one request slot of some replica.                       *)
(***************************************************************************)
EXTENDS Rbac, Sequences

CONSTANTS
  Contents,     \* rows of the Content table that may be created
  Users,        \* callers; a caller's role is fixed in its access token
  RoleOf,       \* the role of each caller
  AuthorOf,     \* whose create request each row comes from
  Handlers,     \* requests that may be in flight at once
  NoRequest,    \* what an idle handler holds
  MaxAborts,    \* bound: requests that die between two round trips
  MaxActions,   \* bound: no advance is read once this many are signed
  MaxEdits      \* bound: no update is read once this many are committed

ASSUME RoleAssumption == RoleOf \in [Users -> Role]
ASSUME AuthorAssumption == AuthorOf \in [Contents -> Users]

\* "reject" stands for request_changes too: one path, which tells them apart
\* only in the text it records.
Decision == {"approve", "reject"}
Op == {"create", "update", "submit", "delete"} \union Decision

\* "none": no row. "archived" is in the schema and no code sets it.
Status == {"none", "draft", "pending_editor", "pending_chief",
           "pending_direction", "published", "rejected"}

PC == {"idle", "write", "status", "publish", "audit"}

\* What a handler keeps across its awaits: who asked for what, the step it
\* read, and the signature it wrote.
Request == [op : Op, user : Users, content : Contents,
            step : WorkflowStep, sig : Nat]

ASSUME NoRequestAssumption == NoRequest \notin Request

VARIABLES
  content,   \* Content: status, deletedAt set, committed edits
  instance,  \* WorkflowInstance by its unique contentId
  actions,   \* ValidationAction rows of each instance, oldest first
  audit,     \* AuditEvent rows; sig stands for metadata.signatureHash
  events,    \* content.published events handed to the bus
  pc, req,   \* each handler's position and request
  aborts     \* requests that died so far

rows == <<content, instance, actions, audit, events>>
vars == <<rows, pc, req, aborts>>

Content == [status : Status, deleted : BOOLEAN, edits : Nat]
Instance == [exists : BOOLEAN, step : WorkflowStep, completed : BOOLEAN]
Action == [actor : Users, from : WorkflowStep, to : WorkflowStep,
           decision : Decision]

\* Only the entries that carry a signatureHash are kept: those of create,
\* submit and delete are logged the same way and nothing here reads them.
AuditEvent == [action : {"validate", "reject"}, target : Contents, sig : Nat]
PublishEvent == [content : Contents, sig : Nat]

Init ==
  /\ content = [c \in Contents |->
                  [status |-> "none", deleted |-> FALSE, edits |-> 0]]
  /\ instance = [c \in Contents |->
                   [exists |-> FALSE, step |-> "submitted", completed |-> FALSE]]
  /\ actions = [c \in Contents |-> <<>>]
  /\ audit = {}
  /\ events = {}
  /\ pc = [h \in Handlers |-> "idle"]
  /\ req = [h \in Handlers |-> NoRequest]
  /\ aborts = 0

-----------------------------------------------------------------------------
(* The handlers' control: a request starts with its read, moves on, ends.  *)

Start(h, o, u, c, s, where) ==
  /\ pc[h] = "idle"
  /\ pc' = [pc EXCEPT ![h] = where]
  /\ req' = [req EXCEPT ![h] = [op |-> o, user |-> u, content |-> c,
                                step |-> s, sig |-> 0]]

\* Handler h, at this point of one of these operations, is scheduled again.
At(h, where, ops) == pc[h] = where /\ req[h].op \in ops

Goto(h, where) ==
  /\ pc' = [pc EXCEPT ![h] = where]
  /\ UNCHANGED req

\* Slip: the request is dropped and its slot stays busy.
RespondHalf(h) ==
  /\ req' = [req EXCEPT ![h] = NoRequest]
  /\ UNCHANGED pc

Respond(h) ==
  /\ pc' = [pc EXCEPT ![h] = "idle"]
  /\ req' = [req EXCEPT ![h] = NoRequest]

Exists(c) == content[c].status # "none" /\ ~content[c].deleted

\* assertCanWrite: the author, or an editor and above.
assertCanWrite(u, c) == u = AuthorOf[c] \/ isEditorOrAbove(RoleOf[u])

\* Slip: no check that the row is a draft.
WritableAnyStatus(u, c) == Exists(c) /\ assertCanWrite(u, c)

\* What updateDraft and submitForValidation both check on the row they read.
WritableDraft(u, c) ==
  Exists(c) /\ assertCanWrite(u, c) /\ content[c].status = "draft"

-----------------------------------------------------------------------------
(* POST /contents *)
createDraft(h, u, c) ==
  /\ RolesAllow(RoleOf[u], "journalist")
  /\ u = AuthorOf[c]
  /\ content[c].status = "none"
  /\ content' = [content EXCEPT ![c].status = "draft"]
  /\ Start(h, "create", u, c, "submitted", "audit")
  /\ UNCHANGED <<instance, actions, audit, events>>

(* PATCH /contents/:id reads the row and checks that it is a draft ...     *)
updateDraftRead(h, u, c) ==
  /\ RolesAllow(RoleOf[u], "journalist")
  /\ WritableDraft(u, c)
  /\ content[c].edits < MaxEdits
  /\ Start(h, "update", u, c, "submitted", "write")
  /\ UNCHANGED rows

(* ... and then commits the new text and channels whatever the row is now. *)
updateDraftWrite(h) ==
  /\ At(h, "write", {"update"})
  /\ content' = [content EXCEPT ![req[h].content].edits = @ + 1]
  /\ Respond(h)
  /\ UNCHANGED <<instance, actions, audit, events>>

(* POST /contents/:id/submit *)
submitRead(h, u, c) ==
  /\ RolesAllow(RoleOf[u], "journalist")
  /\ WritableDraft(u, c)
  /\ instance[c].exists => instance[c].completed
  /\ Start(h, "submit", u, c, "submitted", "write")
  /\ UNCHANGED rows

\* contentId is unique: a second WorkflowInstance is refused by the database.
submitWrite(h) ==
  LET c == req[h].content IN
  /\ At(h, "write", {"submit"})
  /\ ~instance[c].exists
  /\ instance' = [instance EXCEPT ![c] = [exists |-> TRUE, step |-> "submitted",
                                          completed |-> FALSE]]
  /\ content' = [content EXCEPT ![c].status = "pending_editor"]
  /\ Goto(h, "audit")
  /\ UNCHANGED <<actions, audit, events>>

submitRefused(h) ==
  /\ At(h, "write", {"submit"})
  /\ instance[req[h].content].exists
  /\ Respond(h)
  /\ UNCHANGED rows

(* DELETE /contents/:id *)
softDeleteRead(h, u, c) ==
  /\ isEditorOrAbove(RoleOf[u])
  /\ Exists(c)
  /\ Start(h, "delete", u, c, "submitted", "write")
  /\ UNCHANGED rows

softDeleteWrite(h) ==
  /\ At(h, "write", {"delete"})
  /\ content' = [content EXCEPT ![req[h].content].deleted = TRUE]
  /\ Goto(h, "audit")
  /\ UNCHANGED <<instance, actions, audit, events>>

-----------------------------------------------------------------------------
(* POST /workflows/:id/advance, /contents/:id/validate, /contents/:id/reject *)

\* Slip: a closed instance is still open to decisions.
OpenEvenClosed(c) == instance[c].exists

Open(c) == instance[c].exists /\ ~instance[c].completed

\* The instance is read and every check is made on what was read; deletedAt
\* is not one of them.
advanceRead(h, u, c, d) ==
  /\ RolesAllow(RoleOf[u], "editor")
  /\ Open(c)
  /\ MayDecide(RoleOf[u], instance[c].step)
  /\ d = "approve" => instance[c].step \in DOMAIN nextStep
  /\ Len(actions[c]) < MaxActions
  /\ Start(h, d, u, c, instance[c].step, "write")
  /\ UNCHANGED rows

\* Slip: a refusal restarts one level too far.
TargetSkipsFirst(r) == IF r.op = "approve" THEN nextStep[r.step] ELSE "editor"

\* Where the decision leads from the step that was READ.
Target(r) == IF r.op = "approve" THEN nextStep[r.step] ELSE "submitted"

\* completedAt is set by the approval that publishes, reset by any other, and
\* left alone by a refusal.
CompletedAfter(r, completed) ==
  IF r.op = "approve" THEN nextStep[r.step] = "published" ELSE completed

\* Slip: the instance moves on from where it is now, not from what was signed.
MovedFromCurrent(r, i) ==
  IF r.op = "approve" /\ i.step \in DOMAIN nextStep
  THEN [i EXCEPT !.step = nextStep[@], !.completed = CompletedAfter(r, @)]
  ELSE [i EXCEPT !.step = Target(r), !.completed = CompletedAfter(r, @)]

\* The instance row once decision r is applied to it.
Moved(r, i) == [i EXCEPT !.step = Target(r), !.completed = CompletedAfter(r, @)]

\* Slip: off by one in the signature referred to later.
LastSig(c) == Len(actions[c])

NewSig(c) == Len(actions[c]) + 1

\* The transaction: the signed action, and the instance moved to its target.
advanceSign(h) ==
  LET r == req[h]
      c == r.content
  IN
  /\ At(h, "write", Decision)
  /\ actions' = [actions EXCEPT ![c] =
                   Append(@, [actor |-> r.user, from |-> r.step,
                              to |-> Target(r), decision |-> r.op])]
  /\ instance' = [instance EXCEPT ![c] = Moved(r, @)]
  /\ pc' = [pc EXCEPT ![h] = "status"]
  /\ req' = [req EXCEPT ![h].sig = NewSig(c)]
  /\ UNCHANGED <<content, audit, events>>

\* Slip: a refused content is a draft again.
statusOfReopened == [submitted |-> "draft", editor |-> "pending_editor",
                     chief |-> "pending_chief", direction |-> "pending_direction",
                     published |-> "published"]

\* The status a decision gives the content, by the step it leads to.
statusOf == [submitted |-> "rejected", editor |-> "pending_editor",
             chief |-> "pending_chief", direction |-> "pending_direction",
             published |-> "published"]

\* Slip: the status of the step after the target.
StatusAhead(r, current) ==
  statusOf[IF Target(r) \in DOMAIN nextStep THEN nextStep[Target(r)] ELSE Target(r)]

\* Slip: a refusal leaves the content alone.
StatusOnApproval(r, current) ==
  IF r.op = "approve" THEN statusOf[Target(r)] ELSE current

\* Content.status after decision r, whatever it was.
StatusWritten(r, current) == statusOf[Target(r)]

\* content.update, in a transaction of its own.
advanceStatus(h) ==
  /\ At(h, "status", Decision)
  /\ content' = [content EXCEPT ![req[h].content].status = StatusWritten(req[h], @)]
  /\ Goto(h, IF Target(req[h]) = "published" THEN "publish" ELSE "audit")
  /\ UNCHANGED <<instance, actions, audit, events>>

\* The channels are read and the event is handed to the bus.
advancePublish(h) ==
  /\ At(h, "publish", Decision)
  /\ events' = events \union {[content |-> req[h].content, sig |-> req[h].sig]}
  /\ Goto(h, "audit")
  /\ UNCHANGED <<content, instance, actions, audit>>

-----------------------------------------------------------------------------
auditAction == [approve |-> "validate", reject |-> "reject"]

EntryOf(r) == [action |-> auditAction[r.op], target |-> r.content, sig |-> r.sig]

\* Slip: refusals are not logged.
EntriesOfApprovals(r) == IF r.op = "approve" THEN {EntryOf(r)} ELSE {}

\* What request r logs that this module keeps.
Entries(r) == IF r.op \in Decision THEN {EntryOf(r)} ELSE {}

\* Every operation but update ends with one AuditService.log.
auditLog(h) ==
  /\ pc[h] = "audit"
  /\ audit' = audit \union Entries(req[h])
  /\ Respond(h)
  /\ UNCHANGED <<content, instance, actions, events>>

\* The replica dies, or the round trip it was about to make fails: what was
\* committed stays, the rest never happens.
Abort(h) ==
  /\ aborts < MaxAborts
  /\ pc[h] # "idle"
  /\ aborts' = aborts + 1
  /\ Respond(h)
  /\ UNCHANGED rows

Begin(h) ==
  \E u \in Users, c \in Contents :
    \/ createDraft(h, u, c)
    \/ updateDraftRead(h, u, c)
    \/ submitRead(h, u, c)
    \/ softDeleteRead(h, u, c)
    \/ \E d \in Decision : advanceRead(h, u, c, d)

Continue(h) ==
  \/ updateDraftWrite(h)
  \/ submitWrite(h) \/ submitRefused(h)
  \/ softDeleteWrite(h)
  \/ advanceSign(h) \/ advanceStatus(h) \/ advancePublish(h)
  \/ auditLog(h)

Next ==
  \E h \in Handlers :
    \/ (Begin(h) \/ Continue(h)) /\ UNCHANGED aborts
    \/ Abort(h)

Spec == Init /\ [][Next]_vars

-----------------------------------------------------------------------------
(* Type invariant: rows and requests are what the schema and the handlers  *)
(* make of them, and exactly the busy handlers hold a request.             *)
TypeOK ==
  /\ content \in [Contents -> Content]
  /\ instance \in [Contents -> Instance]
  /\ actions \in [Contents -> Seq(Action)]
  /\ audit \subseteq AuditEvent
  /\ events \subseteq PublishEvent
  /\ pc \in [Handlers -> PC]
  /\ req \in [Handlers -> Request \union {NoRequest}]
  /\ aborts \in Nat
  /\ \A h \in Handlers : pc[h] # "idle" => req[h] \in Request
-----------------------------------------------------------------------------
(* Safety that survives every interleaving and every lost request.         *)

\* The rank README.md's four levels ask of whoever signs from a step.
LevelRank == [submitted |-> 2, editor |-> 2, chief |-> 3, direction |-> 4,
              published |-> 5]

\* Every decision in an instance's history is signed by somebody entitled to
\* decide at the step it claims to leave, although the check was made on a row
\* read earlier (workflows.service.ts 124-131 against 138-149).
SignedByRank ==
  \A c \in Contents : \A i \in DOMAIN actions[c] :
    RANK[RoleOf[actions[c][i].actor]] >= LevelRank[actions[c][i].from]

\* Action i of c approves it from step s.
ApprovedFrom(c, s, i) ==
  /\ i \in DOMAIN actions[c]
  /\ actions[c][i].from = s
  /\ actions[c][i].decision = "approve"

\* A content is published, or its instance closed, only after four approvals,
\* one from each level and in that order: a stale decision may skip levels in
\* the current round, never in the history ("validation a 4 niveaux").
FourLevels ==
  \A c \in Contents :
    content[c].status = "published" \/ instance[c].completed =>
      \E i1, i2, i3, i4 \in DOMAIN actions[c] :
        /\ i1 < i2 /\ i2 < i3 /\ i3 < i4
        /\ ApprovedFrom(c, "submitted", i1)
        /\ ApprovedFrom(c, "editor", i2)
        /\ ApprovedFrom(c, "chief", i3)
        /\ ApprovedFrom(c, "direction", i4)

\* An instance stands where its last signed action put it, so the history
\* explains the current step (one transaction writes both, 138-158, 198-213).
StepIsLastSigned ==
  \A c \in Contents :
    instance[c].step = IF actions[c] = <<>> THEN "submitted"
                       ELSE actions[c][Len(actions[c])].to

\* Content.status is written after the transaction, by requests that may be
\* late; whatever order they come in, a status past pending_editor is the
\* outcome of some signed action of that content.
StatusHasEvidence ==
  \A c \in Contents :
    content[c].status \notin {"none", "draft", "pending_editor"} =>
      \E i \in DOMAIN actions[c] : statusOf[actions[c][i].to] = content[c].status

\* Nothing is announced or audited that was not signed: every audit entry
\* refers to an action that took the decision it names, every
\* content.published event to an approval that published.
TraceIsSigned ==
  /\ \A a \in audit :
       /\ a.sig \in DOMAIN actions[a.target]
       /\ auditAction[actions[a.target][a.sig].decision] = a.action
  /\ \A ev \in events :
       /\ ev.sig \in DOMAIN actions[ev.content]
       /\ actions[ev.content][ev.sig].to = "published"
       /\ actions[ev.content][ev.sig].decision = "approve"

\* A draft has no instance and an instance has left the draft stage: two
\* racing submissions of a draft give one instance (the unique contentId).
DraftHasNoInstance ==
  \A c \in Contents :
    instance[c].exists <=> content[c].status \notin {"none", "draft"}

-----------------------------------------------------------------------------
(* What holds when requests on a content do not overlap (one handler).     *)

Busy(c) == \E h \in Handlers : pc[h] # "idle" /\ req[h].content = c

\* Between requests, and as long as none died half-way, Content.status is the
\* one its instance's step stands for: the second write catches up.
SettledStatus ==
  aborts = 0 =>
    \A c \in Contents :
      instance[c].exists /\ ~Busy(c) =>
        content[c].status = IF actions[c] = <<>> THEN "pending_editor"
                            ELSE statusOf[instance[c].step]

\* Between requests, and as long as none died half-way, every signed action
\* has its audit entry.
AuditIsComplete ==
  aborts = 0 =>
    \A c \in Contents : ~Busy(c) =>
      \A i \in DOMAIN actions[c] :
        \E a \in audit : a.target = c /\ a.sig = i

\* Publication is final: neither the published status nor a closed instance
\* is ever taken back ("Workflow deja cloture", 122).
PublicationIsFinal ==
  [][\A c \in Contents :
       /\ content[c].status = "published" => content'[c].status = "published"
       /\ instance[c].completed => instance'[c] = instance[c]]_vars

\* The rows implement the editorial chain: the instance, once there is one,
\* is the article's stage.
Pipeline == INSTANCE EditorialPipeline WITH
  stage <- [c \in Contents |-> IF instance[c].exists THEN instance[c].step
                               ELSE content[c].status],
  revision <- [c \in Contents |-> content[c].edits],
  ledger <- actions

PipelineSpec == Pipeline!Spec

-----------------------------------------------------------------------------
(* What the repository says and overlapping requests refute.               *)

\* docs/pentest-checklist.md 74: going from editor to published in one call
\* is refused, an instance advances step by step.
NoShortcut ==
  [][\A c \in Contents :
       instance'[c].step = "published" /\ instance[c].step # "published"
         => instance[c].step = "direction"]_vars

\* contents.service.ts 230-231: once submitted, a content is no longer
\* editable.
FrozenAfterSubmit ==
  [][\A c \in Contents :
       content'[c].edits # content[c].edits => content[c].status = "draft"]_vars
=============================================================================
