--------------------- MODULE EditorialRefinementProofs ---------------------
(***************************************************************************)
(* When requests do not overlap on a content, the workflow implements the  *)
(* editorial chain, even if requests die half-way: any number of them may  *)
(* be under way, on different contents.                                    *)
(***************************************************************************)
EXTENDS EditorialWorkflowProofs

\* Two requests under way are about two contents.
Apart ==
  \A g, h \in Handlers :
    pc[g] # "idle" /\ pc[h] # "idle" /\ Row(g) = Row(h) => g = h

\* What the request of h read still holds when it writes.
ReadHolds(h) ==
  /\ req[h].op \in {"update", "submit"} => content[Row(h)].status = "draft"
  /\ req[h].op \in Decision =>
       /\ req[h].step = instance[Row(h)].step
       /\ req[h].step # "published"
       /\ MayDecide(RoleOf[req[h].user], req[h].step)

\* Nobody else changed the row.  And an instance is closed exactly when it
\* stands at published.
ReadStillHolds == \A h \in Handlers : pc[h] = "write" => ReadHolds(h)

ClosedIsPublished ==
  \A c \in Contents : instance[c].step = "published" => instance[c].completed

SInv == TInv /\ IInv /\ ReadStillHolds /\ ClosedIsPublished

LEMMA SInvInit == Init => ReadStillHolds /\ ClosedIsPublished
BY DEF Init, ReadStillHolds, ClosedIsPublished

\* A step of handler h about content c leaves the other contents, and the
\* other requests, which are not about c, as they are.
Around(h, c) ==
  /\ \A b \in Contents \ {c} :
       content'[b] = content[b] /\ instance'[b] = instance[b] /\ actions'[b] = actions[b]
  /\ \A g \in Handlers \ {h} :
       pc'[g] = pc[g] /\ req'[g] = req[g] /\ (pc[g] # "idle" => Row(g) # c)
  /\ pc[h] # "idle" => Row(h) = c
  /\ pc'[h] # "idle" => Row(h)' = c

LEMMA AroundBegin ==
  ASSUME TypeOK, Apart', NEW h \in Handlers, NEW u \in Users, NEW c \in Contents,
         \/ createDraft(h, u, c)
         \/ updateDraftRead(h, u, c)
         \/ submitRead(h, u, c)
         \/ softDeleteRead(h, u, c)
         \/ \E d \in Decision : advanceRead(h, u, c, d)
  PROVE  Around(h, c) /\ pc[h] = "idle" /\ UNCHANGED audit
<1>1. PICK o, s, where :
        /\ Start(h, o, u, c, s, where) /\ where # "idle"
        /\ \A b \in Contents \ {c} : content'[b] = content[b]
        /\ UNCHANGED <<instance, actions, audit>>
  BY DEF createDraft, updateDraftRead, submitRead, softDeleteRead, advanceRead, rows, TypeOK
<1>2. /\ pc[h] = "idle" /\ pc'[h] # "idle" /\ Row(h)' = c
      /\ \A g \in Handlers \ {h} : pc'[g] = pc[g] /\ req'[g] = req[g]
  BY <1>1 DEF Start, TypeOK, Row
<1>3. \A g \in Handlers \ {h} : pc[g] # "idle" => Row(g) # c
  BY <1>2 DEF Apart, Row
<1>. QED  BY <1>1, <1>2, <1>3 DEF Around

LEMMA AroundContinue ==
  ASSUME TypeOK, Apart, NEW h \in Handlers, Continue(h) \/ Abort(h)
  PROVE  Around(h, Row(h)) /\ Row(h) \in Contents /\ pc[h] # "idle"
<1>1. pc[h] # "idle"
  BY DEF Continue, At, updateDraftWrite, submitWrite, submitRefused, softDeleteWrite,
         advanceSign, advanceStatus, advancePublish, auditLog, Abort
<1>2. PICK c \in Contents : c = Row(h)
  BY <1>1, BusyRequest
<1>3. \A g \in Handlers \ {h} : pc[g] # "idle" => Row(g) # c
  BY <1>1, <1>2 DEF Apart
<1>4. /\ \A g \in Handlers \ {h} : pc'[g] = pc[g] /\ req'[g] = req[g]
      /\ pc'[h] # "idle" => Row(h)' = Row(h)
  <2>1. CASE UNCHANGED req /\ \E w : pc' = [pc EXCEPT ![h] = w]
    BY <2>1 DEF TypeOK, Row
  <2>2. CASE Respond(h)
    BY <2>2 DEF Respond, TypeOK
  <2>3. CASE advanceSign(h)
    <3>1. req[h] \in Request
      BY <1>1, BusyRequest
    <3>. QED  BY <2>3, <3>1 DEF advanceSign, TypeOK, Row, Request
  <2>. QED  BY <2>1, <2>2, <2>3 DEF Continue, updateDraftWrite, submitWrite, submitRefused,
              softDeleteWrite, advanceStatus, advancePublish, auditLog, Abort, Goto
<1>5. \A b \in Contents \ {c} :
        content'[b] = content[b] /\ instance'[b] = instance[b] /\ actions'[b] = actions[b]
  BY <1>2 DEF Continue, updateDraftWrite, submitWrite, submitRefused, softDeleteWrite,
     advanceSign, advanceStatus, advancePublish, auditLog, Abort, rows, Row, TypeOK
<1>. QED  BY <1>1, <1>2, <1>3, <1>4, <1>5 DEF Around

\* What the others read still holds, and so it is up to h.
LEMMA ReadKept ==
  ASSUME SInv, NEW h \in Handlers, NEW c \in Contents, Around(h, c),
         pc'[h] = "write" => ReadHolds(h)',
         instance'[c].step = "published" => instance'[c].completed
  PROVE  ReadStillHolds' /\ ClosedIsPublished'
<1>1. ASSUME NEW g \in Handlers, g # h, pc'[g] = "write"
      PROVE  ReadHolds(g)'
  <2>1. /\ pc[g] = "write" /\ pc[g] # "idle" /\ req'[g] = req[g] /\ Row(g) # c
    BY <1>1 DEF Around
  <2>2. Row(g) \in Contents
    BY <2>1, BusyRequest DEF SInv, TInv
  <2>3. /\ content'[Row(g)] = content[Row(g)] /\ instance'[Row(g)] = instance[Row(g)]
        /\ Row(g)' = Row(g)
    BY <2>1, <2>2 DEF Around, Row
  <2>4. ReadHolds(g)
    BY <2>1 DEF SInv, ReadStillHolds
  <2>. QED  BY <2>1, <2>3, <2>4 DEF ReadHolds, MayDecide
<1>2. ClosedIsPublished'
  BY DEF Around, SInv, ClosedIsPublished
<1>. QED  BY <1>1, <1>2 DEF ReadStillHolds

LEMMA SInvBegin ==
  ASSUME SInv, Apart', NEW h \in Handlers, Begin(h)
  PROVE  ReadStillHolds' /\ ClosedIsPublished'
<1>0. TypeOK /\ pc \in [Handlers -> PC] /\ req \in [Handlers -> Request \union {NoRequest}]
  BY DEF SInv, TInv, TypeOK
<1>. PICK u \in Users, c \in Contents :
       \/ createDraft(h, u, c)
       \/ updateDraftRead(h, u, c)
       \/ submitRead(h, u, c)
       \/ softDeleteRead(h, u, c)
       \/ \E d \in Decision : advanceRead(h, u, c, d)
  BY DEF Begin
<1>1. Around(h, c)
  BY <1>0, AroundBegin
<1>2. ASSUME NEW o, NEW s, Start(h, o, u, c, s, "write"), UNCHANGED rows,
             o \in {"update", "submit"} => content[c].status = "draft",
             o \in Decision => /\ s = instance[c].step
                               /\ s # "published"
                               /\ MayDecide(RoleOf[u], s)
      PROVE  ReadStillHolds' /\ ClosedIsPublished'
  <2>1. req'[h] = [op |-> o, user |-> u, content |-> c, step |-> s, sig |-> 0]
    BY <1>0, <1>2 DEF Start
  <2>2. UNCHANGED <<content, instance>>
    BY <1>2 DEF rows
  <2>3. ReadHolds(h)'
    BY <1>2, <2>1, <2>2 DEF ReadHolds, Row, MayDecide
  <2>4. instance'[c].step = "published" => instance'[c].completed
    BY <2>2 DEF SInv, ClosedIsPublished
  <2>. QED  BY <1>1, <2>3, <2>4, ReadKept
<1>3. CASE createDraft(h, u, c)
  <2>1. pc'[h] # "write" /\ UNCHANGED instance
    BY <1>0, <1>3 DEF createDraft, Start
  <2>. QED  BY <1>1, <2>1, ReadKept DEF SInv, ClosedIsPublished
<1>4. CASE updateDraftRead(h, u, c)
  BY <1>2, <1>4 DEF updateDraftRead, WritableDraft, Decision
<1>5. CASE submitRead(h, u, c)
  BY <1>2, <1>5 DEF submitRead, WritableDraft, Decision
<1>6. CASE softDeleteRead(h, u, c)
  BY <1>2, <1>6 DEF softDeleteRead, Decision
<1>7. CASE \E d \in Decision : advanceRead(h, u, c, d)
  <2>. PICK d \in Decision : advanceRead(h, u, c, d)
    BY <1>7
  <2>1. instance[c].step # "published"
    BY DEF advanceRead, Open, SInv, ClosedIsPublished
  <2>2. Start(h, d, u, c, instance[c].step, "write") /\ UNCHANGED rows
        /\ MayDecide(RoleOf[u], instance[c].step)
    BY DEF advanceRead
  <2>3. d \notin {"update", "submit"}
    BY DEF Decision
  <2>. QED  BY <1>2, <2>1, <2>2, <2>3
<1>. QED  BY <1>3, <1>4, <1>5, <1>6, <1>7

LEMMA SInvContinue ==
  ASSUME SInv, Apart, NEW h \in Handlers, Continue(h) \/ Abort(h)
  PROVE  ReadStillHolds' /\ ClosedIsPublished'
<1>0. /\ TypeOK /\ pc \in [Handlers -> PC]
      /\ content \in [Contents -> Content] /\ instance \in [Contents -> Instance]
  BY DEF SInv, TInv, TypeOK
<1>1. PICK c \in Contents : c = Row(h) /\ Around(h, c) /\ pc[h] # "idle"
  BY <1>0, AroundContinue
<1>2. pc'[h] # "write"
  BY <1>0 DEF Continue, updateDraftWrite, submitWrite, submitRefused, softDeleteWrite,
     advanceSign, advanceStatus, advancePublish, auditLog, Abort, Respond, Goto, At
<1>3. CASE advanceSign(h)
  <2>1. req[h].op \in Decision
    BY <1>3 DEF advanceSign, At
  <2>2. /\ instance' = [instance EXCEPT ![c] = Moved(req[h], instance[c])]
        /\ instance[c] \in Instance
    BY <1>0, <1>1, <1>3 DEF advanceSign, Row
  <2>3. /\ Moved(req[h], instance[c]).step = Target(req[h])
        /\ Moved(req[h], instance[c]).completed = CompletedAfter(req[h], instance[c].completed)
    BY <2>2 DEF Moved, Instance
  <2>4. Target(req[h]) = "published" => CompletedAfter(req[h], instance[c].completed)
    BY DEF Target, CompletedAfter
  <2>5. instance'[c] = Moved(req[h], instance[c])
    BY <1>0, <2>2
  <2>6. instance'[c].step = "published" => instance'[c].completed
    BY <2>3, <2>4, <2>5
  <2>. QED  BY <1>1, <1>2, <2>6, ReadKept
<1>4. CASE submitWrite(h)
  <2>1. instance'[c].step # "published"
    BY <1>0, <1>1, <1>4 DEF submitWrite, Row
  <2>. QED  BY <1>1, <1>2, <2>1, ReadKept
<1>5. CASE ~advanceSign(h) /\ ~submitWrite(h)
  <2>1. UNCHANGED instance
    BY <1>5 DEF Continue, Abort, updateDraftWrite, submitRefused, softDeleteWrite,
       advanceStatus, advancePublish, auditLog, rows
  <2>. QED  BY <1>1, <1>2, <2>1, ReadKept DEF SInv, ClosedIsPublished
<1>. QED  BY <1>3, <1>4, <1>5

LEMMA SInvNext ==
  ASSUME SInv, Apart, Apart', [Next]_vars
  PROVE  ReadStillHolds' /\ ClosedIsPublished'
<1>1. CASE UNCHANGED vars
  BY <1>1 DEF vars, rows, SInv, ReadStillHolds, ReadHolds, ClosedIsPublished, Row, MayDecide
<1>. QED  BY <1>1, SInvBegin, SInvContinue DEF Next

-----------------------------------------------------------------------------
(* Every step of the code is a step of the chain, or none. *)

\* The chain's stage of content c, as the refinement maps it.
StageOf(c) == IF instance[c].exists THEN instance[c].step ELSE content[c].status

\* The three variables of the chain under the refinement.
LEMMA Mapping ==
  ASSUME TypeOK, TypeOK'
  PROVE  /\ (\A c \in Contents : StageOf(c)' = StageOf(c)
                /\ content'[c].edits = content[c].edits) /\ UNCHANGED actions
              => UNCHANGED Pipeline!vars
BY DEF Pipeline!vars, StageOf

\* A step that changes no instance and no status it can be seen through, no
\* edit and no history is a stutter.
LEMMA Stutter ==
  ASSUME TypeOK, TypeOK', UNCHANGED <<instance, actions>>,
         \A c \in Contents :
           /\ content'[c].edits = content[c].edits
           /\ ~instance[c].exists => content'[c].status = content[c].status
  PROVE  UNCHANGED Pipeline!vars
BY Mapping DEF StageOf

LEMMA RefinesInit == Init => Pipeline!Init
BY DEF Init, Pipeline!Init

LEMMA RefinesStep ==
  ASSUME NEW h \in Handlers, SInv, TInv', Begin(h) \/ Continue(h) \/ Abort(h)
  PROVE  [Pipeline!Next]_(Pipeline!vars)
<1>. /\ TypeOK /\ TypeOK'
     /\ content \in [Contents -> Content] /\ content' \in [Contents -> Content]
     /\ instance \in [Contents -> Instance] /\ instance' \in [Contents -> Instance]
     /\ actions \in [Contents -> Seq(Action)]
  BY DEF SInv, TInv, TypeOK
<1>1. CASE Begin(h)
  <2>. PICK u \in Users, c \in Contents :
         \/ createDraft(h, u, c)
         \/ updateDraftRead(h, u, c)
         \/ submitRead(h, u, c)
         \/ softDeleteRead(h, u, c)
         \/ \E d \in Decision : advanceRead(h, u, c, d)
    BY <1>1 DEF Begin
  <2>1. CASE createDraft(h, u, c)
    <3>1. ~instance[c].exists /\ content[c].status = "none"
      BY <2>1 DEF createDraft, SInv, IInv, DraftHasNoInstance
    <3>2. Pipeline!Write(c)
      BY <2>1, <3>1 DEF createDraft, Pipeline!Write, Content
    <3>. QED  BY <3>2 DEF Pipeline!Next
  <2>2. CASE ~createDraft(h, u, c)
    <3>1. UNCHANGED <<content, instance, actions>>
      BY <2>2 DEF updateDraftRead, submitRead, softDeleteRead, advanceRead, rows
    <3>. QED  BY <3>1, Stutter
  <2>. QED  BY <2>1, <2>2
<1>2. CASE Continue(h)
  <2>0. pc[h] # "idle" /\ h \in Handlers
    BY <1>2 DEF Continue, At, updateDraftWrite, submitWrite, submitRefused,
           softDeleteWrite, advanceSign, advanceStatus, advancePublish, auditLog
  <2>a. PICK c \in Contents : c = Row(h) /\ req[h] \in Request
    BY <2>0, BusyRequest
  <2>b. PICK u \in Users : u = req[h].user
    BY <2>a DEF Request
  <2>1. CASE updateDraftWrite(h)
    <3>1. content[c].status = "draft" /\ ~instance[c].exists
      BY <2>0, <2>1, <2>a
      DEF updateDraftWrite, At, SInv, ReadStillHolds, ReadHolds, IInv, DraftHasNoInstance
    <3>2. Pipeline!Edit(c)
      BY <2>1, <2>a, <3>1 DEF updateDraftWrite, Row, Pipeline!Edit, Content
    <3>. QED  BY <2>a, <3>2 DEF Pipeline!Next
  <2>2. CASE submitWrite(h)
    <3>1. content[c].status = "draft" /\ ~instance[c].exists
      BY <2>0, <2>2, <2>a DEF submitWrite, At, SInv, ReadStillHolds, ReadHolds, Row
    <3>2. Pipeline!Submit(c)
      BY <2>2, <2>a, <3>1 DEF submitWrite, Row, Pipeline!Submit, Content, Instance
    <3>. QED  BY <2>a, <3>2 DEF Pipeline!Next
  <2>3. CASE advanceSign(h)
    <3>1. /\ req[h].op \in Decision /\ pc[h] = "write"
          /\ instance[c].exists
          /\ req[h].step = instance[c].step
          /\ instance[c].step \in DOMAIN nextStep
          /\ MayDecide(RoleOf[u], instance[c].step)
      BY <2>0, <2>3, <2>a, <2>b, WorkflowTables
      DEF advanceSign, At, SInv, ReadStillHolds, ReadHolds, IInv, RequestBacked,
          Instance, WorkflowStep
    <3>2. /\ instance' = [instance EXCEPT ![c] = Moved(req[h], instance[c])]
          /\ Moved(req[h], instance[c]).step = Target(req[h])
          /\ Moved(req[h], instance[c]).exists
          /\ UNCHANGED content
      BY <2>3, <2>a, <3>1 DEF advanceSign, Row, Moved, Instance
    <3>3. actions' = [actions EXCEPT ![c] =
                        Append(@, [actor |-> u, from |-> instance[c].step,
                                   to |-> Target(req[h]), decision |-> req[h].op])]
      BY <2>3, <2>a, <2>b, <3>1 DEF advanceSign, Row
    <3>4. Pipeline!MayDecide(RoleOf[u], instance[c].step)
          /\ instance[c].step \in DOMAIN Pipeline!nextStep
      BY <3>1 DEF Pipeline!nextStep, nextStep, Pipeline!MayDecide, MayDecide,
         Pipeline!RANK, RANK, Pipeline!requiredRoleFor, requiredRoleFor
    <3>5. CASE req[h].op = "approve"
      <4>1. Target(req[h]) = Pipeline!nextStep[instance[c].step]
        BY <3>1, <3>5 DEF Target, Pipeline!nextStep, nextStep
      <4>2. Pipeline!Approve(c, u)
        BY <2>a, <3>1, <3>2, <3>3, <3>4, <3>5, <4>1
        DEF Pipeline!Approve, Pipeline!Decide
      <4>. QED  BY <4>2 DEF Pipeline!Next
    <3>6. CASE req[h].op = "reject"
      <4>1. Target(req[h]) = "submitted"
        BY <3>6 DEF Target
      <4>2. Pipeline!Refuse(c, u)
        BY <2>a, <3>1, <3>2, <3>3, <3>4, <3>6, <4>1
        DEF Pipeline!Refuse, Pipeline!Decide
      <4>. QED  BY <4>2 DEF Pipeline!Next
    <3>. QED  BY <3>1, <3>5, <3>6 DEF Decision
  <2>4. CASE advanceStatus(h)
    <3>1. instance[c].exists
      BY <2>0, <2>4, <2>a DEF advanceStatus, At, SInv, IInv, RequestBacked
    <3>2. UNCHANGED <<instance, actions>>
      BY <2>4 DEF advanceStatus
    <3>3. \A b \in Contents :
            /\ content'[b].edits = content[b].edits
            /\ b # c => content'[b].status = content[b].status
      BY <2>4, <2>a DEF advanceStatus, Row, Content
    <3>. QED  BY <3>1, <3>2, <3>3, Stutter
  <2>5. CASE softDeleteWrite(h)
    <3>1. /\ UNCHANGED <<instance, actions>>
          /\ \A b \in Contents : /\ content'[b].edits = content[b].edits
                                 /\ content'[b].status = content[b].status
      BY <2>5, <2>a DEF softDeleteWrite, Row, Content
    <3>. QED  BY <3>1, Stutter
  <2>6. CASE submitRefused(h) \/ advancePublish(h) \/ auditLog(h)
    <3>1. UNCHANGED <<content, instance, actions>>
      BY <2>6 DEF submitRefused, advancePublish, auditLog, rows
    <3>. QED  BY <3>1, Stutter
  <2>. QED  BY <1>2, <2>1, <2>2, <2>3, <2>4, <2>5, <2>6 DEF Continue
<1>3. CASE Abort(h)
  BY <1>3, Stutter DEF Abort, rows
<1>. QED  BY <1>1, <1>2, <1>3

LEMMA RefinesNext ==
  ASSUME SInv, TInv', [Next]_vars
  PROVE  [Pipeline!Next]_(Pipeline!vars)
<1>1. CASE UNCHANGED vars
  BY <1>1, Stutter DEF vars, rows, SInv, TInv
<1>. QED  BY <1>1, RefinesStep DEF Next

LEMMA ApartInvariance == Spec /\ []Apart => []SInv
<1>1. TInv /\ IInv /\ ReadStillHolds /\ ClosedIsPublished /\ Apart /\ Apart' /\ [Next]_vars
        => ReadStillHolds' /\ ClosedIsPublished'
  BY SInvNext DEF SInv
<1>. QED  BY <1>1, TInvInit, TInvNext, IInvInit, IInvNext, SInvInit, PTL DEF Spec, SInv

\* As long as no two requests are under way on one content, the code
\* implements the editorial chain, whatever runs on the others and dies
\* half-way: decisions one level at a time by entitled callers, text frozen
\* after submission.
THEOREM ApartRefinement == Spec /\ []Apart => PipelineSpec
<1>1. SInv /\ TInv' /\ [Next]_vars => [Pipeline!Next]_(Pipeline!vars)
  BY RefinesNext
<1>2. SInv => TInv
  BY DEF SInv
<1>. QED  BY <1>1, <1>2, ApartInvariance, RefinesInit, PTL DEF Spec, PipelineSpec, Pipeline!Spec

\* One handler is never in its own way.
LEMMA OneIsApart ==
  ASSUME NEW h, Handlers = {h}
  PROVE  Apart
BY DEF Apart

\* In particular one request at a time.
THEOREM SerialRefinement ==
  ASSUME NEW h, Handlers = {h}
  PROVE  Spec => PipelineSpec
<1>1. Apart
  BY OneIsApart
<1>. QED  BY <1>1, ApartRefinement, PTL
-----------------------------------------------------------------------------
(* What requests that stay apart add to the invariant: the rows of a       *)
(* content agree except where its request has not caught up yet.           *)

\* With ClosedIsPublished: an instance is closed exactly at published.
ClosedAtEnd ==
  \A c \in Contents : instance[c].completed => instance[c].step = "published"

PublishedIsClosed ==
  \A c \in Contents : content[c].status = "published" => instance[c].completed

\* Before its second write a decision stands where its instance stands.
StatusIsNext ==
  \A h \in Handlers :
    pc[h] = "status" => instance[Row(h)].step = Target(req[h])

\* Unless a request died, only the decision in flight leaves a status behind.
StatusCatchesUp ==
  aborts = 0 =>
    \A c \in Contents :
      instance[c].exists /\ ~(\E h \in Handlers : pc[h] = "status" /\ Row(h) = c) =>
        content[c].status = IF actions[c] = <<>> THEN "pending_editor"
                            ELSE statusOf[instance[c].step]

\* Unless a request died, a signed action is audited, or about to be.
AuditCatchesUp ==
  aborts = 0 =>
    \A c \in Contents : \A i \in DOMAIN actions[c] :
      \/ \E a \in audit : a.target = c /\ a.sig = i
      \/ \E h \in Handlers :
           /\ pc[h] \in {"status", "publish", "audit"}
           /\ req[h].op \in Decision
           /\ Row(h) = c
           /\ req[h].sig = i

RowsAgree == ClosedAtEnd /\ PublishedIsClosed /\ StatusIsNext
CaughtUp == StatusCatchesUp /\ AuditCatchesUp

FInv == SInv /\ RowsAgree /\ CaughtUp

LEMMA FInvInit == Init => RowsAgree /\ CaughtUp
BY DEF Init, RowsAgree, CaughtUp, ClosedAtEnd, PublishedIsClosed, StatusIsNext,
       StatusCatchesUp, AuditCatchesUp

\* A row nobody has submitted has no history and is not closed.
LEMMA NoInstance ==
  ASSUME SInv, NEW c \in Contents, ~instance[c].exists
  PROVE  actions[c] = <<>> /\ ~instance[c].completed
<1>1. actions[c] = <<>>
  BY DEF SInv, IInv, InstanceBacked
<1>2. ASSUME instance[c].completed  PROVE FALSE
  BY <1>1, <1>2 DEF SInv, IInv, InstanceBacked
<1>. QED  BY <1>1, <1>2

\* Signature i is audited, or handler h is on its way to that.
Audited(c, i) == \E a \in audit : a.target = c /\ a.sig = i
Pending(h, i) == pc[h] \in {"status", "publish", "audit"} /\ req[h].op \in Decision /\ req[h].sig = i

\* What RowsAgree and CaughtUp say of the content c and of the only request
\* that may be about it, h's.
Local(h, c) ==
  /\ instance[c].completed => instance[c].step = "published"
  /\ content[c].status = "published" => instance[c].completed
  /\ pc[h] = "status" => instance[c].step = Target(req[h])
  /\ aborts = 0 =>
       /\ instance[c].exists /\ pc[h] # "status" =>
            content[c].status = IF actions[c] = <<>> THEN "pending_editor"
                                ELSE statusOf[instance[c].step]
       /\ \A i \in DOMAIN actions[c] : Audited(c, i) \/ Pending(h, i)

LEMMA FromAll ==
  ASSUME FInv, NEW h \in Handlers, NEW c \in Contents, Around(h, c)
  PROVE  Local(h, c)
<1>1. instance[c].completed => instance[c].step = "published"
  BY DEF FInv, RowsAgree, ClosedAtEnd
<1>2. content[c].status = "published" => instance[c].completed
  BY DEF FInv, RowsAgree, PublishedIsClosed
<1>3. pc[h] = "status" => instance[c].step = Target(req[h])
  BY DEF FInv, RowsAgree, StatusIsNext, Around
<1>4. \A g \in Handlers \ {h} : pc[g] # "idle" => Row(g) # c
  BY DEF Around
<1>5. ASSUME aborts = 0, instance[c].exists, pc[h] # "status"
      PROVE  content[c].status = IF actions[c] = <<>> THEN "pending_editor"
                                 ELSE statusOf[instance[c].step]
  <2>1. ~(\E g \in Handlers : pc[g] = "status" /\ Row(g) = c)
    BY <1>4, <1>5
  <2>. QED  BY <1>5, <2>1 DEF FInv, CaughtUp, StatusCatchesUp
<1>6. ASSUME aborts = 0, NEW i \in DOMAIN actions[c]
      PROVE  Audited(c, i) \/ Pending(h, i)
  BY <1>4, <1>6 DEF FInv, CaughtUp, AuditCatchesUp, Audited, Pending
<1>. QED  BY <1>1, <1>2, <1>3, <1>5, <1>6 DEF Local

\* The others are still as they were.
LEMMA ToAll ==
  ASSUME FInv, NEW h \in Handlers, NEW c \in Contents, Around(h, c), Local(h, c)',
         audit \subseteq audit', aborts' = 0 => aborts = 0
  PROVE  RowsAgree' /\ CaughtUp'
<1>0. /\ \A b \in Contents \ {c} :
           content'[b] = content[b] /\ instance'[b] = instance[b] /\ actions'[b] = actions[b]
      /\ \A g \in Handlers \ {h} :
           pc'[g] = pc[g] /\ req'[g] = req[g] /\ Row(g)' = Row(g)
           /\ (pc[g] # "idle" => Row(g) # c)
      /\ (pc[h] # "idle" => Row(h) = c) /\ (pc'[h] # "idle" => Row(h)' = c)
  BY DEF Around, Row
<1>1. ClosedAtEnd'
  BY <1>0 DEF Local, FInv, RowsAgree, ClosedAtEnd
<1>2. PublishedIsClosed'
  BY <1>0 DEF Local, FInv, RowsAgree, PublishedIsClosed
<1>3. StatusIsNext'
  <2>1. SUFFICES ASSUME NEW g \in Handlers, pc'[g] = "status"
                 PROVE  instance'[Row(g)'].step = Target(req[g])'
    BY DEF StatusIsNext
  <2>2. CASE g = h
    BY <1>0, <2>1, <2>2 DEF Local
  <2>3. CASE g # h
    <3>1. pc[g] = "status" /\ Row(g)' = Row(g) /\ Row(g) # c /\ Target(req[g])' = Target(req[g])
      BY <1>0, <2>1, <2>3 DEF Target
    <3>2. Row(g) \in Contents
      BY <3>1, BusyRequest DEF FInv, SInv, TInv
    <3>3. instance[Row(g)].step = Target(req[g])
      BY <3>1 DEF FInv, RowsAgree, StatusIsNext
    <3>. QED  BY <1>0, <3>1, <3>2, <3>3
  <2>. QED  BY <2>2, <2>3
<1>4. StatusCatchesUp'
  <2>1. SUFFICES ASSUME aborts' = 0, NEW b \in Contents, instance'[b].exists,
                        ~(\E g \in Handlers : pc'[g] = "status" /\ Row(g)' = b)
                 PROVE  content'[b].status = IF actions'[b] = <<>> THEN "pending_editor"
                                             ELSE statusOf[instance'[b].step]
    BY DEF StatusCatchesUp
  <2>2. CASE b = c
    <3>1. pc'[h] # "status"
      BY <1>0, <2>1, <2>2
    <3>. QED  BY <2>1, <2>2, <3>1 DEF Local
  <2>3. CASE b # c
    <3>1. ASSUME NEW g \in Handlers, pc[g] = "status", Row(g) = b
          PROVE  FALSE
      <4>1. g # h
        BY <1>0, <2>3, <3>1
      <4>. QED  BY <1>0, <2>1, <3>1, <4>1
    <3>2. content[b].status = IF actions[b] = <<>> THEN "pending_editor"
                              ELSE statusOf[instance[b].step]
      BY <1>0, <2>1, <2>3, <3>1 DEF FInv, CaughtUp, StatusCatchesUp
    <3>. QED  BY <1>0, <2>3, <3>2
  <2>. QED  BY <2>2, <2>3
<1>5. AuditCatchesUp'
  <2>1. SUFFICES ASSUME aborts' = 0, NEW b \in Contents, NEW i \in DOMAIN actions'[b]
                 PROVE  \/ \E a \in audit' : a.target = b /\ a.sig = i
                        \/ \E g \in Handlers :
                             /\ pc'[g] \in {"status", "publish", "audit"}
                             /\ req'[g].op \in Decision
                             /\ Row(g)' = b
                             /\ req'[g].sig = i
    BY DEF AuditCatchesUp
  <2>2. CASE b = c
    <3>1. Audited(c, i)' \/ Pending(h, i)'
      BY <2>1, <2>2 DEF Local
    <3>2. Pending(h, i)' => Row(h)' = c
      BY <1>0 DEF Pending
    <3>. QED  BY <2>2, <3>1, <3>2 DEF Audited, Pending
  <2>3. CASE b # c
    <3>1. CASE \E a \in audit : a.target = b /\ a.sig = i
      BY <3>1
    <3>2. CASE \E g \in Handlers : /\ pc[g] \in {"status", "publish", "audit"}
                                  /\ req[g].op \in Decision /\ Row(g) = b /\ req[g].sig = i
      <4>1. PICK g \in Handlers : /\ pc[g] \in {"status", "publish", "audit"}
                                  /\ req[g].op \in Decision /\ Row(g) = b /\ req[g].sig = i
        BY <3>2
      <4>2. g # h
        BY <1>0, <2>3, <4>1
      <4>. QED  BY <1>0, <4>1, <4>2
    <3>. QED  BY <1>0, <2>1, <2>3, <3>1, <3>2 DEF FInv, CaughtUp, AuditCatchesUp
  <2>. QED  BY <2>2, <2>3
<1>. QED  BY <1>1, <1>2, <1>3, <1>4, <1>5 DEF RowsAgree, CaughtUp

\* A step of h that changes no row and is not, before or after, in the middle
\* of a decision.
LEMMA QuietStep ==
  ASSUME NEW h \in Handlers, NEW c \in Contents, Local(h, c), UNCHANGED rows,
         aborts' = 0 => aborts = 0 /\ (pc[h] \in {"idle", "write"} \/ req[h].op \notin Decision)
         /\ pc[h] # "status", pc'[h] # "status"
  PROVE  Local(h, c)'
<1>1. UNCHANGED <<content, instance, actions, audit>>
  BY DEF rows
<1>2. aborts' = 0 => \A i \in DOMAIN actions'[c] : Audited(c, i)'
  BY <1>1 DEF Local, Audited, Pending
<1>. QED  BY <1>1, <1>2 DEF Local

LEMMA LocalSign ==
  ASSUME NEW h \in Handlers, NEW c \in Contents, c = Row(h), SInv, Local(h, c),
         advanceSign(h), UNCHANGED aborts
  PROVE  Local(h, c)'
<1>0. /\ pc[h] = "write" /\ req[h].op \in Decision /\ TypeOK
  BY DEF advanceSign, At, SInv, TInv
<1>a. req[h] \in Request
  BY <1>0, BusyRequest
<1>b. /\ instance \in [Contents -> Instance] /\ content \in [Contents -> Content]
      /\ actions \in [Contents -> Seq(Action)]
      /\ pc \in [Handlers -> PC] /\ req \in [Handlers -> Request \union {NoRequest}]
  BY <1>0 DEF TypeOK
<1>c. /\ req[h].step # "published" /\ instance[c].step = req[h].step
      /\ ~instance[c].completed
  BY <1>0 DEF SInv, ReadStillHolds, ReadHolds, Local
<1>1. PICK i \in Instance : i = Moved(req[h], instance[c])
                            /\ i.step = Target(req[h])
                            /\ i.completed = CompletedAfter(req[h], FALSE)
                            /\ instance' = [instance EXCEPT ![c] = i]
  <2>1. instance' = [instance EXCEPT ![c] = Moved(req[h], instance[c])]
    BY <1>a, <1>b DEF advanceSign, Row
  <2>2. /\ Moved(req[h], instance[c]).step = Target(req[h])
        /\ Moved(req[h], instance[c]).completed = CompletedAfter(req[h], instance[c].completed)
    BY <1>b DEF Moved, Instance
  <2>3. instance[c].completed = FALSE
    BY <1>b, <1>c DEF Instance
  <2>4. Moved(req[h], instance[c]) \in Instance
    BY <1>0, <1>b, TargetType DEF SInv
  <2>. QED  BY <2>1, <2>2, <2>3, <2>4
<1>2. i.completed => i.step = "published"
  BY <1>1 DEF CompletedAfter, Target
<1>3. PICK act \in Action : actions' = [actions EXCEPT ![c] = Append(actions[c], act)]
  <2>. DEFINE a == [actor |-> req[h].user, from |-> req[h].step,
                    to |-> Target(req[h]), decision |-> req[h].op]
  <2>1. a \in Action
    BY <1>0, <1>a, TargetType DEF SInv, Action, Request
  <2>2. actions' = [actions EXCEPT ![c] = Append(actions[c], a)]
    BY <1>b DEF advanceSign, Row
  <2>. QED  BY <2>1, <2>2
<1>4. /\ pc' = [pc EXCEPT ![h] = "status"]
      /\ req' = [req EXCEPT ![h] = [req[h] EXCEPT !.sig = Len(actions[c]) + 1]]
      /\ UNCHANGED <<content, audit, aborts>>
  BY DEF advanceSign, NewSig, Row
<1>5. /\ pc'[h] = "status" /\ req'[h].op = req[h].op
      /\ req'[h].sig = Len(actions[c]) + 1 /\ req'[h].step = req[h].step
  BY <1>4, <1>a, <1>b DEF Request
<1>6. instance'[c] = i /\ content' = content
  BY <1>1, <1>4, <1>b
<1>7. Target(req[h])' = Target(req[h])
  BY <1>5 DEF Target
<1>8. content[c].status # "published"
  BY <1>c DEF Local
<1>9. ASSUME aborts' = 0, NEW k \in DOMAIN actions'[c]
      PROVE  Audited(c, k)' \/ Pending(h, k)'
  <2>1. actions[c] \in Seq(Action) /\ actions'[c] = Append(actions[c], act)
    BY <1>3, <1>b
  <2>2. CASE k \in DOMAIN actions[c]
    BY <1>0, <1>4, <1>9, <2>2 DEF Local, Audited, Pending
  <2>3. CASE k \notin DOMAIN actions[c]
    <3>1. k = Len(actions[c]) + 1
      BY <1>9, <2>1, <2>3
    <3>. QED  BY <1>0, <1>5, <3>1 DEF Pending
  <2>. QED  BY <2>2, <2>3
<1>. QED  BY <1>1, <1>2, <1>5, <1>6, <1>7, <1>8, <1>9 DEF Local

LEMMA LocalStatus ==
  ASSUME NEW h \in Handlers, NEW c \in Contents, c = Row(h), SInv, Local(h, c),
         advanceStatus(h), UNCHANGED aborts
  PROVE  Local(h, c)'
<1>0. /\ pc[h] = "status" /\ req[h].op \in Decision /\ TypeOK
  BY DEF advanceStatus, At, SInv, TInv
<1>b. /\ content \in [Contents -> Content] /\ pc \in [Handlers -> PC]
      /\ instance[c] \in Instance
  BY <1>0 DEF TypeOK
<1>1. /\ content' = [content EXCEPT ![c].status = statusOf[Target(req[h])]]
      /\ UNCHANGED <<instance, actions, audit, aborts, req>>
      /\ pc'[h] \in {"publish", "audit"}
  BY <1>b DEF advanceStatus, Row, Goto, StatusWritten
<1>2. instance[c].step = Target(req[h])
  BY <1>0 DEF Local
<1>3. content'[c].status = statusOf[instance[c].step]
  BY <1>1, <1>2, <1>b DEF Content
<1>4. actions[c] # <<>>
  BY <1>0 DEF SInv, IInv, RequestSigned
<1>5. statusOf[instance[c].step] = "published" => instance[c].completed
  BY <1>b DEF SInv, ClosedIsPublished, statusOf, Instance, WorkflowStep
<1>6. \A i : (Audited(c, i) => Audited(c, i)') /\ (Pending(h, i) => Pending(h, i)')
  BY <1>1 DEF Audited, Pending
<1>. QED  BY <1>1, <1>3, <1>4, <1>5, <1>6 DEF Local

LEMMA LocalPublish ==
  ASSUME NEW h \in Handlers, NEW c \in Contents, SInv, Local(h, c),
         advancePublish(h), UNCHANGED aborts
  PROVE  Local(h, c)'
<1>1. /\ UNCHANGED <<content, instance, actions, audit, aborts, req>>
      /\ pc[h] = "publish" /\ pc'[h] = "audit"
  BY DEF advancePublish, At, Goto, SInv, TInv, TypeOK
<1>2. \A i : (Audited(c, i) => Audited(c, i)') /\ (Pending(h, i) => Pending(h, i)')
  BY <1>1 DEF Audited, Pending
<1>. QED  BY <1>1, <1>2 DEF Local

LEMMA LocalAudit ==
  ASSUME NEW h \in Handlers, NEW c \in Contents, c = Row(h), SInv, Local(h, c),
         auditLog(h), UNCHANGED aborts
  PROVE  Local(h, c)'
<1>1. /\ UNCHANGED <<content, instance, actions, aborts>>
      /\ audit' = audit \union Entries(req[h])
      /\ pc[h] = "audit" /\ pc'[h] = "idle"
  BY DEF auditLog, Respond, SInv, TInv, TypeOK
<1>2. ASSUME NEW i, Audited(c, i) \/ Pending(h, i)
      PROVE  Audited(c, i)'
  <2>1. CASE Audited(c, i)
    BY <1>1, <2>1 DEF Audited
  <2>2. CASE Pending(h, i)
    <3>1. EntryOf(req[h]) \in audit'
      BY <1>1, <2>2 DEF Entries, Pending
    <3>2. EntryOf(req[h]).target = c /\ EntryOf(req[h]).sig = i
      BY <2>2 DEF EntryOf, Row, Pending
    <3>. QED  BY <3>1, <3>2 DEF Audited
  <2>. QED  BY <1>2, <2>1, <2>2
<1>. QED  BY <1>1, <1>2 DEF Local

\* The writes of the other operations: a draft created, edited or submitted,
\* a content deleted.
LEMMA LocalWrite ==
  ASSUME NEW h \in Handlers, NEW c \in Contents, SInv, Local(h, c), UNCHANGED aborts,
         ~instance'[c].completed \/ instance'[c] = instance[c],
         UNCHANGED <<actions, audit>>,
         \/ ~instance'[c].exists /\ content'[c].status # "published"
         \/ /\ ~instance[c].exists /\ content'[c].status = "pending_editor"
         \/ instance'[c] = instance[c] /\ content'[c].status = content[c].status,
         pc[h] # "status", pc'[h] # "status",
         pc[h] \in {"idle", "write"}
  PROVE  Local(h, c)'
<1>1. ~instance[c].exists => actions[c] = <<>> /\ ~instance[c].completed
  BY NoInstance
<1>2. \A i : ~Pending(h, i) /\ (Audited(c, i) => Audited(c, i)')
  BY DEF Audited, Pending
<1>. QED  BY <1>1, <1>2 DEF Local

LEMMA FInvBegin ==
  ASSUME FInv, Apart', NEW h \in Handlers, Begin(h), UNCHANGED aborts
  PROVE  RowsAgree' /\ CaughtUp'
<1>. PICK u \in Users, c \in Contents :
       \/ createDraft(h, u, c)
       \/ updateDraftRead(h, u, c)
       \/ submitRead(h, u, c)
       \/ softDeleteRead(h, u, c)
       \/ \E d \in Decision : advanceRead(h, u, c, d)
  BY DEF Begin
<1>0. SInv /\ TypeOK /\ pc \in [Handlers -> PC] /\ content \in [Contents -> Content]
  BY DEF FInv, SInv, TInv, TypeOK
<1>a. Around(h, c) /\ pc[h] = "idle" /\ UNCHANGED audit
  BY <1>0, AroundBegin
<1>b. Local(h, c)
  BY <1>a, FromAll
<1>1. CASE createDraft(h, u, c)
  <2>1. ~instance[c].exists
    BY <1>0, <1>1 DEF createDraft, SInv, IInv, DraftHasNoInstance
  <2>2. /\ UNCHANGED <<instance, actions, audit>> /\ pc'[h] = "audit"
        /\ content'[c].status = "draft"
    BY <1>0, <1>1 DEF createDraft, Start, Content
  <2>3. Local(h, c)'
    BY <1>0, <1>a, <1>b, <2>1, <2>2, LocalWrite
  <2>. QED  BY <1>a, <2>3, ToAll
<1>2. CASE ~createDraft(h, u, c)
  <2>1. pc'[h] = "write" /\ UNCHANGED rows
    BY <1>0, <1>2 DEF updateDraftRead, submitRead, softDeleteRead, advanceRead, Start
  <2>2. Local(h, c)'
    BY <1>a, <1>b, <2>1, QuietStep
  <2>. QED  BY <1>a, <2>2, ToAll
<1>. QED  BY <1>1, <1>2

LEMMA FInvContinue ==
  ASSUME FInv, Apart, NEW h \in Handlers, Continue(h), UNCHANGED aborts
  PROVE  RowsAgree' /\ CaughtUp'
<1>0. /\ SInv /\ TypeOK /\ pc \in [Handlers -> PC] /\ content \in [Contents -> Content]
      /\ instance \in [Contents -> Instance]
  BY DEF FInv, SInv, TInv, TypeOK
<1>a. PICK c \in Contents : c = Row(h) /\ Around(h, c) /\ pc[h] # "idle"
  BY <1>0, AroundContinue
<1>b. Local(h, c)
  BY <1>a, FromAll
<1>c. audit \subseteq audit'
  BY DEF Continue, updateDraftWrite, submitWrite, submitRefused, softDeleteWrite,
     advanceSign, advanceStatus, advancePublish, auditLog, rows
<1>1. CASE updateDraftWrite(h)
  <2>1. /\ content' = [content EXCEPT ![c].edits = @ + 1]
        /\ UNCHANGED <<instance, actions, audit>>
        /\ pc[h] = "write" /\ pc'[h] = "idle"
    BY <1>0, <1>1, <1>a DEF updateDraftWrite, Respond, Row, At
  <2>2. content'[c].status = content[c].status
    BY <2>1, <1>0 DEF Content
  <2>. QED  BY <1>0, <1>b, <2>1, <2>2, LocalWrite, <1>a, <1>c, ToAll
<1>2. CASE softDeleteWrite(h)
  <2>1. /\ content' = [content EXCEPT ![c].deleted = TRUE]
        /\ UNCHANGED <<instance, actions, audit>>
        /\ pc[h] = "write" /\ pc'[h] = "audit"
    BY <1>0, <1>2, <1>a DEF softDeleteWrite, Goto, Row, At
  <2>2. content'[c].status = content[c].status
    BY <2>1, <1>0 DEF Content
  <2>. QED  BY <1>0, <1>b, <2>1, <2>2, LocalWrite, <1>a, <1>c, ToAll
<1>3. CASE submitWrite(h)
  <2>1. /\ ~instance[c].exists
        /\ instance' = [instance EXCEPT ![c] = [exists |-> TRUE, step |-> "submitted",
                                                completed |-> FALSE]]
        /\ content' = [content EXCEPT ![c].status = "pending_editor"]
        /\ UNCHANGED <<actions, audit>>
        /\ pc[h] = "write" /\ pc'[h] = "audit"
    BY <1>0, <1>3, <1>a DEF submitWrite, Goto, Row, At
  <2>2. content'[c].status = "pending_editor" /\ ~instance'[c].completed
    BY <2>1, <1>0 DEF Content
  <2>. QED  BY <1>0, <1>b, <2>1, <2>2, LocalWrite, <1>a, <1>c, ToAll
<1>4. CASE submitRefused(h)
  <2>1. UNCHANGED rows /\ pc[h] = "write" /\ pc'[h] = "idle"
    BY <1>0, <1>4 DEF submitRefused, At, Respond
  <2>2. Local(h, c)'
    BY <1>b, <2>1, QuietStep
  <2>. QED  BY <1>a, <1>c, <2>2, ToAll
<1>5. CASE advanceSign(h) \/ advanceStatus(h) \/ advancePublish(h) \/ auditLog(h)
  <2>1. Local(h, c)'
    BY <1>0, <1>a, <1>b, <1>5, LocalSign, LocalStatus, LocalPublish, LocalAudit
  <2>. QED  BY <1>a, <1>c, <2>1, ToAll
<1>. QED  BY <1>1, <1>2, <1>3, <1>4, <1>5 DEF Continue

LEMMA FInvNext ==
  ASSUME FInv, Apart, Apart', [Next]_vars
  PROVE  RowsAgree' /\ CaughtUp'
<1>1. ASSUME NEW h \in Handlers, Abort(h)
      PROVE  RowsAgree' /\ CaughtUp'
  <2>1. aborts' # 0 /\ UNCHANGED rows /\ pc'[h] # "status" /\ TypeOK
    BY <1>1 DEF Abort, Respond, FInv, SInv, TInv, TypeOK
  <2>2. PICK c \in Contents : Around(h, c)
    BY <1>1, <2>1, AroundContinue
  <2>3. Local(h, c)'
    BY <2>1, <2>2, FromAll, QuietStep
  <2>. QED  BY <2>1, <2>2, <2>3, ToAll DEF rows
<1>2. CASE UNCHANGED vars
  BY <1>2 DEF vars, rows, FInv, RowsAgree, CaughtUp, ClosedAtEnd, PublishedIsClosed,
              StatusIsNext, StatusCatchesUp, AuditCatchesUp, Row, Target
<1>. QED  BY <1>1, <1>2, FInvBegin, FInvContinue DEF Next

LEMMA RowsInvariance == Spec /\ []Apart => []FInv
<1>1. FInv /\ Apart /\ Apart' /\ [Next]_vars => RowsAgree' /\ CaughtUp'
  BY FInvNext
<1>2. FInv <=> SInv /\ RowsAgree /\ CaughtUp
  BY DEF FInv
<1>. QED  BY <1>1, <1>2, ApartInvariance, FInvInit, PTL DEF Spec

\* As long as no two requests are under way on one content and none was lost,
\* the status a reader sees between its requests is the one the workflow
\* stands for, although the code writes it in a transaction of its own.
THEOREM SettledStatusAlways == Spec /\ []Apart => []SettledStatus
<1>1. FInv => SettledStatus
  BY DEF FInv, CaughtUp, StatusCatchesUp, SettledStatus, Busy, Row
<1>. QED  BY <1>1, RowsInvariance, PTL

\* As long as no two requests are under way on one content and none was lost,
\* no signed decision is missing from the audit trail between its requests,
\* although its entry is the last thing written.
THEOREM AuditIsCompleteAlways == Spec /\ []Apart => []AuditIsComplete
<1>1. FInv => AuditIsComplete
  BY DEF FInv, CaughtUp, AuditCatchesUp, AuditIsComplete, Busy, Row
<1>. QED  BY <1>1, RowsInvariance, PTL

\* As long as no two requests are under way on one content, even if requests
\* die half-way, a publication is never taken back: neither the published
\* status nor the closed instance.
THEOREM PublicationIsFinalAlways == Spec /\ []Apart => PublicationIsFinal
<1>1. ASSUME FInv, FInv', [Next]_vars, NEW c \in Contents
      PROVE  instance[c].completed => instance'[c] = instance[c]
  <2>. SUFFICES ASSUME instance[c].completed  PROVE instance'[c] = instance[c]
    OBVIOUS
  <2>0. /\ instance \in [Contents -> Instance] /\ instance[c].exists
        /\ instance[c].step = "published" /\ TypeOK
    BY <1>1, NoInstance DEF FInv, SInv, TInv, TypeOK, RowsAgree, ClosedAtEnd
  <2>1. ASSUME NEW h \in Handlers, advanceSign(h)
        PROVE  instance'[c] = instance[c]
    <3>1. pc[h] = "write" /\ req[h].op \in Decision /\ h \in Handlers
      BY <2>1 DEF advanceSign, At
    <3>2. Row(h) # c
      BY <1>1, <2>0, <3>1 DEF FInv, SInv, ReadStillHolds, ReadHolds
    <3>. QED  BY <2>0, <2>1, <3>2 DEF advanceSign, Row
  <2>2. ASSUME NEW h \in Handlers, submitWrite(h)
        PROVE  instance'[c] = instance[c]
    BY <2>0, <2>2 DEF submitWrite
  <2>3. CASE \A h \in Handlers : ~advanceSign(h) /\ ~submitWrite(h)
    <3>1. ASSUME NEW h \in Handlers, Begin(h) \/ Continue(h) \/ Abort(h)
          PROVE  UNCHANGED instance
      <4>1. CASE Begin(h)
        BY <4>1 DEF Begin, rows, createDraft, updateDraftRead, submitRead,
           softDeleteRead, advanceRead
      <4>2. CASE Continue(h)
        BY <2>3, <4>2 DEF Continue, rows, updateDraftWrite, submitRefused,
           softDeleteWrite, advanceStatus, advancePublish, auditLog
      <4>3. CASE Abort(h)
        BY <4>3 DEF Abort, rows
      <4>. QED  BY <3>1, <4>1, <4>2, <4>3
    <3>2. CASE Next
      BY <3>1, <3>2 DEF Next
    <3>3. CASE UNCHANGED vars
      BY <3>3 DEF vars, rows
    <3>. QED  BY <1>1, <3>2, <3>3
  <2>. QED  BY <2>1, <2>2, <2>3
<1>2. ASSUME FInv, FInv', [Next]_vars, NEW c \in Contents, content[c].status = "published"
      PROVE  content'[c].status = "published"
  <2>0. /\ content \in [Contents -> Content] /\ TypeOK
        /\ instance[c].completed /\ instance[c].step = "published"
    BY <1>2 DEF FInv, SInv, TInv, TypeOK, RowsAgree, PublishedIsClosed, ClosedAtEnd
  <2>1. ASSUME NEW h \in Handlers, advanceStatus(h)
        PROVE  content'[c].status = "published"
    <3>1. pc[h] = "status" /\ h \in Handlers
      BY <2>1 DEF advanceStatus, At
    <3>2. Row(h) = c => statusOf[Target(req[h])] = "published"
      BY <1>2, <2>0, <3>1 DEF FInv, RowsAgree, StatusIsNext, statusOf
    <3>. QED  BY <1>2, <2>0, <2>1, <3>2 DEF advanceStatus, StatusWritten, Content, Row
  <2>2. ASSUME NEW h \in Handlers, submitWrite(h)
        PROVE  content'[c].status = "published"
    <3>1. pc[h] = "write" /\ h \in Handlers /\ req[h].op = "submit"
      BY <2>2 DEF submitWrite, At
    <3>2. Row(h) # c
      BY <1>2, <3>1 DEF FInv, SInv, ReadStillHolds, ReadHolds
    <3>. QED  BY <1>2, <2>0, <2>2, <3>2 DEF submitWrite, Row
  <2>3. CASE \A h \in Handlers : ~advanceStatus(h) /\ ~submitWrite(h)
    <3>1. ASSUME NEW h \in Handlers, Begin(h) \/ Continue(h) \/ Abort(h)
          PROVE  content'[c].status = "published"
      <4>1. ASSUME NEW u \in Users, NEW b \in Contents, createDraft(h, u, b)
            PROVE  content'[c].status = "published"
        BY <1>2, <2>0, <4>1 DEF createDraft
      <4>2. CASE updateDraftWrite(h) \/ softDeleteWrite(h)
        BY <1>2, <2>0, <4>2 DEF updateDraftWrite, softDeleteWrite, Content
      <4>3. CASE UNCHANGED content
        BY <1>2, <4>3
      <4>4. ASSUME NEW u \in Users, NEW b \in Contents,
                   \/ updateDraftRead(h, u, b) \/ submitRead(h, u, b)
                   \/ softDeleteRead(h, u, b)
                   \/ \E d \in Decision : advanceRead(h, u, b, d)
            PROVE  UNCHANGED content
        BY <4>4 DEF rows, updateDraftRead, submitRead, softDeleteRead, advanceRead
      <4>5. CASE submitRefused(h) \/ advanceSign(h) \/ advancePublish(h) \/ auditLog(h)
        BY <4>3, <4>5 DEF rows, submitRefused, advanceSign, advancePublish, auditLog
      <4>6. CASE Abort(h)
        BY <4>3, <4>6 DEF Abort, rows
      <4>7. CASE Begin(h)
        BY <4>1, <4>3, <4>4, <4>7 DEF Begin
      <4>8. CASE Continue(h)
        BY <2>3, <4>2, <4>5, <4>8 DEF Continue
      <4>. QED  BY <3>1, <4>6, <4>7, <4>8
    <3>2. CASE Next
      BY <3>1, <3>2 DEF Next
    <3>3. CASE UNCHANGED vars
      BY <1>2, <3>3 DEF vars, rows
    <3>. QED  BY <1>2, <3>2, <3>3
  <2>. QED  BY <2>1, <2>2, <2>3
<1>3. FInv /\ FInv' /\ [Next]_vars =>
        [\A c \in Contents :
           /\ content[c].status = "published" => content'[c].status = "published"
           /\ instance[c].completed => instance'[c] = instance[c]]_vars
  BY <1>1, <1>2
<1>. QED  BY <1>3, RowsInvariance, PTL DEF Spec, PublicationIsFinal
=============================================================================
