---------------------- MODULE EditorialWorkflowProofs ----------------------
(***************************************************************************)
(* Proofs about EditorialWorkflow for any contents, callers, roles, number *)
(* of overlapping requests and number of requests that die.                *)
(***************************************************************************)
EXTENDS EditorialWorkflow, TLAPS

\* The row a handler works on.
Row(h) == req[h].content

LEMMA WorkflowTables ==
  /\ nextStep \in [{"submitted", "editor", "chief", "direction"} -> WorkflowStep]
  /\ statusOf \in [WorkflowStep -> Status \ {"none", "draft"}]
  /\ DOMAIN nextStep = {"submitted", "editor", "chief", "direction"}
BY DEF nextStep, statusOf, WorkflowStep, Status

-----------------------------------------------------------------------------
(* Type correctness. *)

\* A request that has just started, and one that goes on or ends, keep the
\* handlers' part of the type invariant.
LEMMA StartType ==
  ASSUME TypeOK, NEW h \in Handlers, NEW o \in Op, NEW u \in Users,
         NEW c \in Contents, NEW s \in WorkflowStep, NEW w \in PC,
         Start(h, o, u, c, s, w)
  PROVE  /\ pc' \in [Handlers -> PC]
         /\ req' \in [Handlers -> Request \union {NoRequest}]
         /\ \A g \in Handlers : pc'[g] # "idle" => req'[g] \in Request
<1>1. [op |-> o, user |-> u, content |-> c, step |-> s, sig |-> 0] \in Request
  BY DEF Request
<1>. QED  BY <1>1 DEF TypeOK, Start

LEMMA GotoType ==
  ASSUME TypeOK, NEW h \in Handlers, NEW w \in PC, pc[h] # "idle", Goto(h, w)
  PROVE  /\ pc' \in [Handlers -> PC]
         /\ req' \in [Handlers -> Request \union {NoRequest}]
         /\ \A g \in Handlers : pc'[g] # "idle" => req'[g] \in Request
BY DEF TypeOK, Goto

LEMMA RespondType ==
  ASSUME TypeOK, NEW h \in Handlers, Respond(h)
  PROVE  /\ pc' \in [Handlers -> PC]
         /\ req' \in [Handlers -> Request \union {NoRequest}]
         /\ \A g \in Handlers : pc'[g] # "idle" => req'[g] \in Request
BY DEF TypeOK, Respond, PC

LEMMA BusyRequest ==
  ASSUME TypeOK, NEW h \in Handlers, pc[h] # "idle"
  PROVE  /\ req[h] \in Request
         /\ Row(h) \in Contents
         /\ req[h].step \in WorkflowStep
         /\ req[h].user \in Users
BY DEF TypeOK, Request, Row

\* Where an approval leads is a step: an approval is only read at a step
\* that has a successor (ApprovalHasNext below), so this is part of the type
\* invariant's induction.
ApprovalHasNext ==
  \A h \in Handlers :
    pc[h] # "idle" /\ req[h].op = "approve" => req[h].step \in DOMAIN nextStep

TInv == TypeOK /\ ApprovalHasNext

LEMMA TInvInit == Init => TInv
<1> SUFFICES ASSUME Init PROVE TInv
  OBVIOUS
<1>1. TypeOK
  BY DEF Init, TypeOK, Content, Instance, Status, WorkflowStep, PC
<1>2. ApprovalHasNext
  BY DEF Init, ApprovalHasNext
<1>. QED  BY <1>1, <1>2 DEF TInv

\* What a request that starts, goes on or ends does to ApprovalHasNext.
LEMMA TInvStart ==
  ASSUME TInv, NEW h \in Handlers, NEW o \in Op, NEW u \in Users,
         NEW c \in Contents, NEW s \in WorkflowStep, NEW w \in PC,
         Start(h, o, u, c, s, w), o = "approve" => s \in DOMAIN nextStep,
         content' \in [Contents -> Content],
         UNCHANGED <<instance, actions, audit, events, aborts>>
  PROVE  TInv'
<1>1. TypeOK'
  BY StartType DEF TInv, TypeOK
<1>2. ApprovalHasNext'
  BY DEF TInv, TypeOK, ApprovalHasNext, Start
<1>. QED  BY <1>1, <1>2 DEF TInv

LEMMA TInvGoto ==
  ASSUME TInv, NEW h \in Handlers, NEW w \in PC, pc[h] # "idle", Goto(h, w),
         content' \in [Contents -> Content],
         instance' \in [Contents -> Instance],
         events' \subseteq PublishEvent,
         UNCHANGED <<actions, audit, aborts>>
  PROVE  TInv'
<1>1. TypeOK'
  BY GotoType DEF TInv, TypeOK
<1>2. ApprovalHasNext'
  BY DEF TInv, TypeOK, ApprovalHasNext, Goto
<1>. QED  BY <1>1, <1>2 DEF TInv

LEMMA TInvRespond ==
  ASSUME TInv, NEW h \in Handlers, Respond(h),
         content' \in [Contents -> Content],
         audit' \subseteq AuditEvent,
         aborts' \in Nat,
         UNCHANGED <<instance, actions, events>>
  PROVE  TInv'
<1>1. TypeOK'
  BY RespondType DEF TInv, TypeOK
<1>2. ApprovalHasNext'
  BY DEF TInv, TypeOK, ApprovalHasNext, Respond
<1>. QED  BY <1>1, <1>2 DEF TInv

LEMMA TInvBegin ==
  ASSUME TInv, NEW h \in Handlers, Begin(h), UNCHANGED aborts
  PROVE  TInv'
<1>. PICK u \in Users, c \in Contents :
       \/ createDraft(h, u, c)
       \/ updateDraftRead(h, u, c)
       \/ submitRead(h, u, c)
       \/ softDeleteRead(h, u, c)
       \/ \E d \in Decision : advanceRead(h, u, c, d)
  BY DEF Begin
<1>. /\ {"create", "update", "submit", "delete", "approve", "reject"} = Op
     /\ {"write", "audit"} \subseteq PC
     /\ "submitted" \in WorkflowStep
     /\ content \in [Contents -> Content]
     /\ instance \in [Contents -> Instance]
  BY DEF Op, Decision, PC, WorkflowStep, TInv, TypeOK
<1>1. CASE createDraft(h, u, c)
  <2>1. content' \in [Contents -> Content]
    BY <1>1 DEF createDraft, Content, Status
  <2>. QED  BY <1>1, <2>1, TInvStart DEF createDraft
<1>2. CASE updateDraftRead(h, u, c)
  BY <1>2, TInvStart DEF updateDraftRead, rows
<1>3. CASE submitRead(h, u, c)
  BY <1>3, TInvStart DEF submitRead, rows
<1>4. CASE softDeleteRead(h, u, c)
  BY <1>4, TInvStart DEF softDeleteRead, rows
<1>5. CASE \E d \in Decision : advanceRead(h, u, c, d)
  <2>. PICK d \in Decision : advanceRead(h, u, c, d)
    BY <1>5
  <2>1. d \in Op /\ instance[c].step \in WorkflowStep
    BY DEF Decision, Instance
  <2>. QED  BY <2>1, TInvStart DEF advanceRead, rows
<1>. QED  BY <1>1, <1>2, <1>3, <1>4, <1>5

\* The target of a decision in flight is a step.
LEMMA TargetType ==
  ASSUME TInv, NEW h \in Handlers, pc[h] # "idle", req[h].op \in Decision
  PROVE  /\ Target(req[h]) \in WorkflowStep
         /\ \A i \in Instance : Moved(req[h], i) \in Instance
<1>1. Target(req[h]) \in WorkflowStep
  BY WorkflowTables DEF TInv, ApprovalHasNext, Target, WorkflowStep
<1>2. ASSUME NEW i \in Instance
      PROVE  Moved(req[h], i) \in Instance
  <2>1. CompletedAfter(req[h], i.completed) \in BOOLEAN
    BY DEF CompletedAfter, Instance
  <2>. QED  BY <1>1, <2>1 DEF Moved, Instance
<1>. QED  BY <1>1, <1>2

LEMMA TInvContinue ==
  ASSUME TInv, NEW h \in Handlers, Continue(h), UNCHANGED aborts
  PROVE  TInv'
<1>. /\ content \in [Contents -> Content]
     /\ instance \in [Contents -> Instance]
     /\ audit \subseteq AuditEvent /\ events \subseteq PublishEvent
     /\ {"status", "publish", "audit"} \subseteq PC
     /\ aborts \in Nat
  BY DEF TInv, TypeOK, PC
<1>. /\ pc[h] # "idle"
     /\ req[h] \in Request
     /\ Row(h) \in Contents
  <2>1. pc[h] # "idle"
    BY DEF Continue, At, updateDraftWrite, submitWrite, submitRefused,
           softDeleteWrite, advanceSign, advanceStatus, advancePublish, auditLog
  <2>. QED  BY <2>1, BusyRequest DEF TInv
<1>1. CASE updateDraftWrite(h)
  <2>1. content' \in [Contents -> Content]
    BY <1>1 DEF updateDraftWrite, Content, Row
  <2>. QED  BY <1>1, <2>1, TInvRespond DEF updateDraftWrite
<1>2. CASE submitWrite(h)
  <2>1. content' \in [Contents -> Content] /\ instance' \in [Contents -> Instance]
    BY <1>2 DEF submitWrite, Content, Instance, Status, WorkflowStep, Row
  <2>. QED  BY <1>2, <2>1, TInvGoto DEF submitWrite
<1>3. CASE submitRefused(h)
  BY <1>3, TInvRespond DEF submitRefused, rows
<1>4. CASE softDeleteWrite(h)
  <2>1. content' \in [Contents -> Content]
    BY <1>4 DEF softDeleteWrite, Content, Row
  <2>. QED  BY <1>4, <2>1, TInvGoto DEF softDeleteWrite
<1>5. CASE advanceSign(h)
  <2>1. Target(req[h]) \in WorkflowStep /\ instance' \in [Contents -> Instance]
    BY <1>5, TargetType DEF advanceSign, At, Row
  <2>2. actions' \in [Contents -> Seq(Action)]
    <3>1. [actor |-> req[h].user, from |-> req[h].step, to |-> Target(req[h]),
           decision |-> req[h].op] \in Action
      BY <1>5, <2>1 DEF Action, Request, advanceSign, At
    <3>2. actions \in [Contents -> Seq(Action)]
      BY DEF TInv, TypeOK
    <3>. QED  BY <1>5, <3>1, <3>2 DEF advanceSign, Row
  <2>3. /\ pc' \in [Handlers -> PC]
        /\ req' \in [Handlers -> Request \union {NoRequest}]
        /\ \A g \in Handlers : pc'[g] # "idle" => req'[g] \in Request
    <3>1. NewSig(Row(h)) \in Nat
      BY DEF NewSig, TInv, TypeOK
    <3>2. [req[h] EXCEPT !.sig = NewSig(Row(h))] \in Request
      BY <3>1 DEF Request
    <3>. QED  BY <1>5, <3>2 DEF advanceSign, TInv, TypeOK, Row
  <2>4. ApprovalHasNext'
    BY <1>5 DEF advanceSign, TInv, TypeOK, ApprovalHasNext, Request
  <2>. QED  BY <1>5, <2>1, <2>2, <2>3, <2>4 DEF advanceSign, TInv, TypeOK
<1>6. CASE advanceStatus(h)
  <2>1. content' \in [Contents -> Content]
    BY <1>6, TargetType, WorkflowTables
    DEF advanceStatus, StatusWritten, At, Content, Row
  <2>. QED  BY <1>6, <2>1, TInvGoto DEF advanceStatus
<1>7. CASE advancePublish(h)
  <2>1. events' \subseteq PublishEvent
    BY <1>7 DEF advancePublish, PublishEvent, Request
  <2>. QED  BY <1>7, <2>1, TInvGoto DEF advancePublish
<1>8. CASE auditLog(h)
  <2>1. audit' \subseteq AuditEvent
    BY <1>8 DEF auditLog, Entries, EntryOf, auditAction, AuditEvent, Decision, Request
  <2>. QED  BY <1>8, <2>1, TInvRespond DEF auditLog
<1>. QED
  BY <1>1, <1>2, <1>3, <1>4, <1>5, <1>6, <1>7, <1>8 DEF Continue

LEMMA TInvNext == TInv /\ [Next]_vars => TInv'
<1> SUFFICES ASSUME TInv, [Next]_vars PROVE TInv'
  OBVIOUS
<1>1. ASSUME NEW h \in Handlers, Begin(h), UNCHANGED aborts PROVE TInv'
  BY <1>1, TInvBegin
<1>2. ASSUME NEW h \in Handlers, Continue(h), UNCHANGED aborts PROVE TInv'
  BY <1>2, TInvContinue
<1>3. ASSUME NEW h \in Handlers, Abort(h) PROVE TInv'
  BY <1>3, TInvRespond DEF Abort, rows, TInv, TypeOK
<1>4. CASE UNCHANGED vars
  BY <1>4 DEF vars, rows, TInv, TypeOK, ApprovalHasNext
<1>. QED  BY <1>1, <1>2, <1>3, <1>4 DEF Next

\* Rows and requests keep their types, for every constant (schema.prisma and
\* the handlers' control).
THEOREM TypeCorrect == Spec => []TypeOK
<1>1. Spec => []TInv
  BY TInvInit, TInvNext, PTL DEF Spec
<1>. QED  BY <1>1, PTL DEF TInv

-----------------------------------------------------------------------------
(* The inductive invariant.  The safety properties are not inductive: they *)
(* need to know what a request in flight has read and signed.              *)

\* An action goes where its decision leads.
ShapeOK ==
  \A c \in Contents : \A i \in DOMAIN actions[c] :
    \/ /\ actions[c][i].decision = "approve"
       /\ actions[c][i].from \in DOMAIN nextStep
       /\ actions[c][i].to = nextStep[actions[c][i].from]
    \/ /\ actions[c][i].decision = "reject"
       /\ actions[c][i].to = "submitted"

\* Step s of content c is the first one or was reached by an action before n.
Reached(c, s, n) ==
  s = "submitted" \/ \E k \in DOMAIN actions[c] : k < n /\ actions[c][k].to = s

\* Every action leaves a step that an earlier one reached.
HistoryBacked ==
  \A c \in Contents : \A i \in DOMAIN actions[c] : Reached(c, actions[c][i].from, i)

\* A closed instance has been published, and only an instance has a history.
InstanceBacked ==
  \A c \in Contents :
    /\ instance[c].completed =>
         \E k \in DOMAIN actions[c] : actions[c][k].to = "published"
    /\ ~instance[c].exists => actions[c] = <<>>

\* A decision about to be signed was read from a step that the history had
\* reached, by somebody entitled to it.
RequestBacked ==
  \A h \in Handlers :
    pc[h] # "idle" /\ req[h].op \in Decision =>
      /\ instance[Row(h)].exists
      /\ RANK[RoleOf[req[h].user]] >= LevelRank[req[h].step]
      /\ Reached(Row(h), req[h].step, Len(actions[Row(h)]) + 1)

\* A decision past its transaction holds the number of the action it signed.
RequestSigned ==
  \A h \in Handlers :
    /\ pc[h] \in {"status", "publish", "audit"} /\ req[h].op \in Decision =>
         /\ req[h].sig \in DOMAIN actions[Row(h)]
         /\ actions[Row(h)][req[h].sig].to = Target(req[h])
         /\ actions[Row(h)][req[h].sig].decision = req[h].op
    /\ pc[h] = "publish" => Target(req[h]) = "published"

IInv ==
  /\ SignedByRank /\ ShapeOK /\ HistoryBacked /\ InstanceBacked
  /\ StepIsLastSigned
  /\ RequestBacked /\ RequestSigned
  /\ StatusHasEvidence /\ TraceIsSigned /\ DraftHasNoInstance

\* With the shapes of the actions, a history in which every action leaves a
\* step reached before holds the four levels in order as soon as it reaches
\* publication.
LEMMA PublishedHasFourLevels ==
  ASSUME TInv, ShapeOK, HistoryBacked, NEW c \in Contents,
         \E k \in DOMAIN actions[c] : actions[c][k].to = "published"
  PROVE  \E i1, i2, i3, i4 \in DOMAIN actions[c] :
           /\ i1 < i2 /\ i2 < i3 /\ i3 < i4
           /\ ApprovedFrom(c, "submitted", i1)
           /\ ApprovedFrom(c, "editor", i2)
           /\ ApprovedFrom(c, "chief", i3)
           /\ ApprovedFrom(c, "direction", i4)
<1>1. ASSUME NEW k \in DOMAIN actions[c], NEW s \in DOMAIN nextStep,
             actions[c][k].to = nextStep[s]
      PROVE  ApprovedFrom(c, s, k) /\ Reached(c, s, k)
  BY <1>1 DEF ShapeOK, HistoryBacked, ApprovedFrom, nextStep
<1>2. PICK i4 \in DOMAIN actions[c] : actions[c][i4].to = "published"
  OBVIOUS
<1>3. ApprovedFrom(c, "direction", i4) /\ Reached(c, "direction", i4)
  BY <1>1, <1>2 DEF nextStep
<1>4. PICK i3 \in DOMAIN actions[c] : i3 < i4 /\ actions[c][i3].to = "direction"
  BY <1>3 DEF Reached
<1>5. ApprovedFrom(c, "chief", i3) /\ Reached(c, "chief", i3)
  BY <1>1, <1>4 DEF nextStep
<1>6. PICK i2 \in DOMAIN actions[c] : i2 < i3 /\ actions[c][i2].to = "chief"
  BY <1>5 DEF Reached
<1>7. ApprovedFrom(c, "editor", i2) /\ Reached(c, "editor", i2)
  BY <1>1, <1>6 DEF nextStep
<1>8. PICK i1 \in DOMAIN actions[c] : i1 < i2 /\ actions[c][i1].to = "editor"
  BY <1>7 DEF Reached
<1>9. ApprovedFrom(c, "submitted", i1)
  BY <1>1, <1>8 DEF nextStep
<1>. QED  BY <1>3, <1>4, <1>5, <1>6, <1>7, <1>8, <1>9

LEMMA ActionType ==
  ASSUME TypeOK, NEW c \in Contents, NEW i \in DOMAIN actions[c]
  PROVE  actions[c][i] \in Action
<1>1. actions[c] \in Seq(Action)
  BY DEF TypeOK
<1>. QED  BY <1>1

LEMMA FourLevelsFromIInv == TInv /\ IInv => FourLevels
<1> SUFFICES ASSUME TInv, IInv, NEW c \in Contents,
                    content[c].status = "published" \/ instance[c].completed
             PROVE  \E k \in DOMAIN actions[c] : actions[c][k].to = "published"
  BY PublishedHasFourLevels DEF FourLevels, IInv
<1>1. CASE instance[c].completed
  BY <1>1 DEF IInv, InstanceBacked
<1>2. CASE content[c].status = "published"
  <2>1. PICK i \in DOMAIN actions[c] : statusOf[actions[c][i].to] = "published"
    BY <1>2 DEF IInv, StatusHasEvidence
  <2>2. actions[c][i].to \in WorkflowStep
    BY ActionType DEF TInv, Action
  <2>. QED  BY <2>1, <2>2 DEF statusOf, WorkflowStep
<1>. QED  BY <1>1, <1>2

LEMMA IInvInit == Init => IInv
BY DEF Init, IInv, SignedByRank, ShapeOK, HistoryBacked, InstanceBacked,
       StepIsLastSigned, RequestBacked, RequestSigned, StatusHasEvidence,
       TraceIsSigned, DraftHasNoInstance

\* Signed actions are never rewritten.
Grows ==
  \A c \in Contents :
    /\ Len(actions'[c]) >= Len(actions[c])
    /\ \A i \in DOMAIN actions[c] :
         i \in DOMAIN actions'[c] /\ actions'[c][i] = actions[c][i]

\* What a signature does to its content's history, and only to it.
LEMMA SignGrows ==
  ASSUME TInv, NEW h \in Handlers, advanceSign(h), UNCHANGED aborts
  PROVE  /\ Row(h) \in Contents
         /\ Len(actions[Row(h)]) \in Nat
         /\ DOMAIN actions[Row(h)] = 1..Len(actions[Row(h)])
         /\ DOMAIN actions'[Row(h)] = 1..(Len(actions[Row(h)]) + 1)
         /\ Len(actions'[Row(h)]) = Len(actions[Row(h)]) + 1
         /\ \A i \in DOMAIN actions[Row(h)] : actions'[Row(h)][i] = actions[Row(h)][i]
         /\ actions'[Row(h)][Len(actions[Row(h)]) + 1] =
              [actor |-> req[h].user, from |-> req[h].step,
               to |-> Target(req[h]), decision |-> req[h].op]
         /\ \A c \in Contents : c # Row(h) => actions'[c] = actions[c]
         /\ Grows
<1>1. Row(h) \in Contents
  BY BusyRequest DEF TInv, advanceSign, At
<1>2. actions \in [Contents -> Seq(Action)] /\ actions' \in [Contents -> Seq(Action)]
  BY TInvContinue DEF Continue, advanceSign, TInv, TypeOK
<1>3. /\ actions[Row(h)] \in Seq(Action)
      /\ actions'[Row(h)] \in Seq(Action)
      /\ actions'[Row(h)] = Append(actions[Row(h)],
              [actor |-> req[h].user, from |-> req[h].step,
               to |-> Target(req[h]), decision |-> req[h].op])
      /\ \A c \in Contents : c # Row(h) => actions'[c] = actions[c]
  BY <1>1, <1>2 DEF advanceSign, Row
<1>4. \A c \in Contents : Len(actions[c]) \in Nat
  BY <1>2
<1>. QED  BY <1>1, <1>3, <1>4 DEF Grows

\* No other step touches a history.
LEMMA StepGrows == TInv /\ [Next]_vars => Grows
<1> SUFFICES ASSUME TInv, [Next]_vars PROVE Grows
  OBVIOUS
<1>0. ASSUME UNCHANGED actions PROVE Grows
  <2>1. \A c \in Contents : Len(actions[c]) \in Nat
    BY DEF TInv, TypeOK
  <2>. QED  BY <1>0, <2>1 DEF Grows
<1>1. ASSUME NEW h \in Handlers, Begin(h) PROVE UNCHANGED actions
  BY <1>1 DEF Begin, createDraft, updateDraftRead, submitRead, softDeleteRead,
              advanceRead, rows
<1>2. ASSUME NEW h \in Handlers, Continue(h), ~advanceSign(h) PROVE UNCHANGED actions
  BY <1>2 DEF Continue, updateDraftWrite, submitWrite, submitRefused,
              softDeleteWrite, advanceStatus, advancePublish, auditLog, rows
<1>3. ASSUME NEW h \in Handlers, Abort(h) PROVE UNCHANGED actions
  BY <1>3 DEF Abort, rows
<1>. QED  BY <1>0, <1>1, <1>2, <1>3, SignGrows DEF Next, vars, rows

-----------------------------------------------------------------------------
(* The inductive step, one lemma for each kind of step. *)

\* What the steps that write neither an instance nor an action preserve.
LEMMA HistoryKept ==
  ASSUME IInv, UNCHANGED <<instance, actions>>
  PROVE  SignedByRank' /\ ShapeOK' /\ HistoryBacked' /\ InstanceBacked'
         /\ StepIsLastSigned'
BY DEF IInv, SignedByRank, ShapeOK, HistoryBacked, Reached, InstanceBacked,
       StepIsLastSigned

\* A request that starts: only a decision owes RequestBacked something, and
\* what it read is what StepIsLastSigned says of the instance.
LEMMA IInvStart ==
  ASSUME TInv, IInv, NEW h \in Handlers, NEW o \in Op, NEW u \in Users,
         NEW c \in Contents, NEW s \in WorkflowStep, NEW w \in {"write", "audit"},
         Start(h, o, u, c, s, w), w = "audit" => o \notin Decision,
         o \in Decision =>
           /\ instance[c].exists
           /\ s = instance[c].step
           /\ RANK[RoleOf[u]] >= LevelRank[s],
         UNCHANGED <<instance, actions, audit, events>>
  PROVE  RequestBacked' /\ RequestSigned' /\ TraceIsSigned'
<1>1. TraceIsSigned'
  BY DEF IInv, TraceIsSigned
<1>2. o \in Decision => Reached(c, s, Len(actions[c]) + 1)
  <2> SUFFICES ASSUME o \in Decision, s # "submitted"
               PROVE  \E k \in DOMAIN actions[c] :
                        k < Len(actions[c]) + 1 /\ actions[c][k].to = s
    BY DEF Reached
  <2>1. actions[c] # <<>> /\ s = actions[c][Len(actions[c])].to
    BY DEF IInv, StepIsLastSigned
  <2>2. actions[c] \in Seq(Action)
    BY DEF TInv, TypeOK
  <2>3. /\ Len(actions[c]) \in DOMAIN actions[c]
        /\ Len(actions[c]) < Len(actions[c]) + 1
    BY <2>1, <2>2
  <2>. QED  BY <2>1, <2>3
<1>3. /\ pc'[h] = w
      /\ req'[h] = [op |-> o, user |-> u, content |-> c, step |-> s, sig |-> 0]
      /\ \A g \in Handlers : g # h => pc'[g] = pc[g] /\ req'[g] = req[g]
  BY DEF Start, TInv, TypeOK
<1>4. RequestBacked'
  <2> SUFFICES ASSUME NEW g \in Handlers, pc'[g] # "idle", req'[g].op \in Decision
               PROVE  /\ instance[Row(g)'].exists
                      /\ RANK[RoleOf[req'[g].user]] >= LevelRank[req'[g].step]
                      /\ Reached(Row(g)', req'[g].step, Len(actions[Row(g)']) + 1)
    BY DEF RequestBacked, Reached
  <2>1. CASE g = h
    BY <1>2, <1>3, <2>1 DEF Row
  <2>2. CASE g # h
    BY <1>3, <2>2 DEF IInv, RequestBacked, Row
  <2>. QED  BY <2>1, <2>2
<1>5. RequestSigned'
  BY <1>3 DEF IInv, RequestSigned, Row, Target
<1>. QED  BY <1>1, <1>4, <1>5

LEMMA IInvBegin ==
  ASSUME TInv, IInv, NEW h \in Handlers, Begin(h), UNCHANGED aborts
  PROVE  IInv'
<1>. PICK u \in Users, c \in Contents :
       \/ createDraft(h, u, c)
       \/ updateDraftRead(h, u, c)
       \/ submitRead(h, u, c)
       \/ softDeleteRead(h, u, c)
       \/ \E d \in Decision : advanceRead(h, u, c, d)
  BY DEF Begin
<1>. /\ {"create", "update", "submit", "delete", "approve", "reject"} = Op
     /\ Decision = {"approve", "reject"}
     /\ "submitted" \in WorkflowStep
  BY DEF Op, Decision, WorkflowStep
<1>0. ASSUME UNCHANGED content
      PROVE  UNCHANGED <<instance, actions>> =>
               StatusHasEvidence' /\ DraftHasNoInstance'
  BY <1>0 DEF IInv, StatusHasEvidence, DraftHasNoInstance
<1>1. CASE createDraft(h, u, c)
  <2>1. RequestBacked' /\ RequestSigned' /\ TraceIsSigned'
    BY <1>1, IInvStart DEF createDraft
  <2>2. StatusHasEvidence' /\ DraftHasNoInstance'
    BY <1>1 DEF createDraft, IInv, StatusHasEvidence, DraftHasNoInstance,
                TInv, TypeOK, Content
  <2>. QED  BY <1>1, <2>1, <2>2, HistoryKept DEF createDraft, IInv
<1>2. CASE updateDraftRead(h, u, c)
  BY <1>0, <1>2, IInvStart, HistoryKept DEF updateDraftRead, rows, IInv
<1>3. CASE submitRead(h, u, c)
  BY <1>0, <1>3, IInvStart, HistoryKept DEF submitRead, rows, IInv
<1>4. CASE softDeleteRead(h, u, c)
  BY <1>0, <1>4, IInvStart, HistoryKept DEF softDeleteRead, rows, IInv
<1>5. CASE \E d \in Decision : advanceRead(h, u, c, d)
  <2>. PICK d \in Decision : advanceRead(h, u, c, d)
    BY <1>5
  <2>1. /\ d \in Op
        /\ instance[c].step \in WorkflowStep
        /\ RoleOf[u] \in Role
    BY RoleAssumption DEF TInv, TypeOK, Instance
  <2>2. RANK[RoleOf[u]] >= LevelRank[instance[c].step]
    BY <2>1 DEF advanceRead, MayDecide, RANK, requiredRoleFor, LevelRank,
                WorkflowStep, Role
  <2>3. RequestBacked' /\ RequestSigned' /\ TraceIsSigned'
    BY <2>1, <2>2, IInvStart DEF advanceRead, Open, rows
  <2>. QED  BY <1>0, <2>3, HistoryKept DEF advanceRead, rows, IInv
<1>. QED  BY <1>1, <1>2, <1>3, <1>4, <1>5

\* A request that ends owes nothing more.
LEMMA IInvRespond ==
  ASSUME TInv, IInv, NEW h \in Handlers, Respond(h), UNCHANGED <<instance, actions>>
  PROVE  RequestBacked' /\ RequestSigned'
<1>1. /\ pc'[h] = "idle"
      /\ \A g \in Handlers : g # h => pc'[g] = pc[g] /\ req'[g] = req[g]
  BY DEF Respond, TInv, TypeOK
<1>. QED  BY <1>1 DEF IInv, RequestBacked, RequestSigned, Row, Target, Reached

\* A request that goes on with its rows as they are.
LEMMA IInvGoto ==
  ASSUME TInv, IInv, NEW h \in Handlers, NEW w \in {"publish", "audit"}, Goto(h, w),
         pc[h] # "idle", UNCHANGED actions,
         \A c \in Contents : instance[c].exists => instance'[c].exists,
         req[h].op \in Decision => pc[h] \in {"status", "publish", "audit"},
         w = "publish" => Target(req[h]) = "published"
  PROVE  RequestBacked' /\ RequestSigned'
<1>1. /\ pc'[h] = w
      /\ \A g \in Handlers : g # h => pc'[g] = pc[g]
      /\ req' = req
  BY DEF Goto, TInv, TypeOK
<1>2. \A g \in Handlers : pc[g] # "idle" => Row(g) \in Contents
  BY BusyRequest DEF TInv
<1>3. RequestBacked'
  BY <1>1, <1>2 DEF IInv, RequestBacked, Row, Reached
<1>4. RequestSigned'
  BY <1>1 DEF IInv, RequestSigned, Row, Target
<1>. QED  BY <1>3, <1>4

\* The transaction of a decision: the history grows by an action that leaves
\* a reached step, and the instance goes where it leads.
LEMMA IInvSign ==
  ASSUME TInv, IInv, NEW h \in Handlers, advanceSign(h), UNCHANGED aborts
  PROVE  IInv'
<1> DEFINE c == Row(h)
           n == Len(actions[c]) + 1
<1>0. /\ req[h].op \in Decision /\ pc[h] = "write"
      /\ req[h].step \in WorkflowStep /\ Target(req[h]) \in WorkflowStep
      /\ req[h].op = "approve" => req[h].step \in DOMAIN nextStep
      /\ instance[c].exists
      /\ RANK[RoleOf[req[h].user]] >= LevelRank[req[h].step]
      /\ Reached(c, req[h].step, n)
  BY BusyRequest, TargetType
  DEF advanceSign, At, TInv, ApprovalHasNext, IInv, RequestBacked
<1>1. /\ c \in Contents /\ Len(actions[c]) \in Nat
      /\ DOMAIN actions[c] = 1..Len(actions[c])
      /\ DOMAIN actions'[c] = 1..n /\ Len(actions'[c]) = n
      /\ \A i \in DOMAIN actions[c] : actions'[c][i] = actions[c][i]
      /\ actions'[c][n] = [actor |-> req[h].user, from |-> req[h].step,
                           to |-> Target(req[h]), decision |-> req[h].op]
      /\ \A b \in Contents : b # c => actions'[b] = actions[b]
      /\ Grows
  BY SignGrows
<1>2. /\ instance'[c] = Moved(req[h], instance[c])
      /\ instance'[c].step = Target(req[h])
      /\ instance'[c].exists = instance[c].exists
      /\ instance'[c].completed = CompletedAfter(req[h], instance[c].completed)
      /\ \A b \in Contents : b # c => instance'[b] = instance[b]
  <2>1. /\ instance' = [instance EXCEPT ![c] = Moved(req[h], instance[c])]
        /\ instance \in [Contents -> Instance]
    BY DEF advanceSign, Row, TInv, TypeOK
  <2>2. /\ instance'[c] = Moved(req[h], instance[c])
        /\ instance[c] \in Instance
        /\ \A b \in Contents : b # c => instance'[b] = instance[b]
    BY <1>1, <2>1
  <2>3. ASSUME NEW i \in Instance
        PROVE  /\ Moved(req[h], i).step = Target(req[h])
               /\ Moved(req[h], i).exists = i.exists
               /\ Moved(req[h], i).completed = CompletedAfter(req[h], i.completed)
    BY DEF Moved, Instance
  <2>. QED  BY <2>2, <2>3
<1>3. /\ pc'[h] = "status"
      /\ req'[h] = [req[h] EXCEPT !.sig = n]
      /\ \A g \in Handlers : g # h => pc'[g] = pc[g] /\ req'[g] = req[g]
  BY DEF advanceSign, NewSig, Row, TInv, TypeOK
<1>. HIDE DEF c, n
<1>4. SignedByRank'
  <2> SUFFICES ASSUME NEW b \in Contents, NEW i \in DOMAIN actions'[b]
               PROVE  RANK[RoleOf[actions'[b][i].actor]] >= LevelRank[actions'[b][i].from]
    BY DEF SignedByRank
  <2>1. CASE b = c /\ i = n
    BY <1>0, <1>1, <2>1
  <2>2. CASE b # c \/ i # n
    BY <1>1, <2>2 DEF IInv, SignedByRank, n
  <2>. QED  BY <2>1, <2>2
<1>5. ShapeOK'
  <2> SUFFICES ASSUME NEW b \in Contents, NEW i \in DOMAIN actions'[b]
               PROVE  \/ /\ actions'[b][i].decision = "approve"
                         /\ actions'[b][i].from \in DOMAIN nextStep
                         /\ actions'[b][i].to = nextStep[actions'[b][i].from]
                      \/ /\ actions'[b][i].decision = "reject"
                         /\ actions'[b][i].to = "submitted"
    BY DEF ShapeOK
  <2>1. CASE b = c /\ i = n
    BY <1>0, <1>1, <2>1 DEF Target, Decision
  <2>2. CASE b # c \/ i # n
    BY <1>1, <2>2 DEF IInv, ShapeOK, n
  <2>. QED  BY <2>1, <2>2
<1>6. HistoryBacked'
  <2> SUFFICES ASSUME NEW b \in Contents, NEW i \in DOMAIN actions'[b],
                      actions'[b][i].from # "submitted"
               PROVE  \E k \in DOMAIN actions'[b] :
                        k < i /\ actions'[b][k].to = actions'[b][i].from
    BY DEF HistoryBacked, Reached
  <2>1. CASE b = c /\ i = n
    <3>1. PICK k \in DOMAIN actions[c] : k < n /\ actions[c][k].to = req[h].step
      BY <1>0, <1>1, <2>1 DEF Reached
    <3>. QED  BY <1>1, <2>1, <3>1 DEF Grows
  <2>2. CASE b # c \/ i # n
    <3>1. i \in DOMAIN actions[b] /\ actions'[b][i] = actions[b][i]
      BY <1>1, <2>2 DEF n
    <3>2. PICK k \in DOMAIN actions[b] : k < i /\ actions[b][k].to = actions[b][i].from
      BY <3>1 DEF IInv, HistoryBacked, Reached
    <3>. QED  BY <1>1, <3>1, <3>2 DEF Grows
  <2>. QED  BY <2>1, <2>2
<1>7. InstanceBacked'
  <2> SUFFICES ASSUME NEW b \in Contents
               PROVE  /\ instance'[b].completed =>
                           \E k \in DOMAIN actions'[b] : actions'[b][k].to = "published"
                      /\ ~instance'[b].exists => actions'[b] = <<>>
    BY DEF InstanceBacked
  <2>1. CASE b # c
    BY <1>1, <1>2, <2>1 DEF IInv, InstanceBacked
  <2>2. CASE b = c /\ req[h].op = "approve"
    <3>1. n \in DOMAIN actions'[c] /\ actions'[c][n].to = Target(req[h])
      BY <1>1 DEF n
    <3>2. instance'[c].completed => Target(req[h]) = "published"
      BY <1>2, <2>2 DEF CompletedAfter, Target
    <3>. QED  BY <1>0, <1>2, <2>2, <3>1, <3>2
  <2>3. CASE b = c /\ req[h].op # "approve"
    <3>1. instance'[c].completed => instance[c].completed
      BY <1>2, <2>3 DEF CompletedAfter
    <3>2. instance[c].completed =>
            \E k \in DOMAIN actions[c] : actions[c][k].to = "published"
      BY <1>1 DEF IInv, InstanceBacked
    <3>3. instance[c].completed =>
            \E k \in DOMAIN actions'[c] : actions'[c][k].to = "published"
      BY <1>1, <3>2 DEF Grows
    <3>. QED  BY <1>0, <1>2, <2>3, <3>1, <3>3
  <2>. QED  BY <2>1, <2>2, <2>3
<1>8. StepIsLastSigned'
  <2> SUFFICES ASSUME NEW b \in Contents
               PROVE  instance'[b].step = IF actions'[b] = <<>> THEN "submitted"
                                          ELSE actions'[b][Len(actions'[b])].to
    BY DEF StepIsLastSigned
  <2>1. CASE b # c
    BY <1>1, <1>2, <2>1 DEF IInv, StepIsLastSigned
  <2>2. CASE b = c
    <3>1. actions'[c] # <<>>
      BY <1>1 DEF n
    <3>. QED  BY <1>1, <1>2, <2>2, <3>1
  <2>. QED  BY <2>1, <2>2
<1>9. RequestBacked'
  <2> SUFFICES ASSUME NEW g \in Handlers, pc'[g] # "idle", req'[g].op \in Decision
               PROVE  /\ instance'[Row(g)'].exists
                      /\ RANK[RoleOf[req'[g].user]] >= LevelRank[req'[g].step]
                      /\ \/ req'[g].step = "submitted"
                         \/ \E k \in DOMAIN actions'[Row(g)'] :
                              /\ k < Len(actions'[Row(g)']) + 1
                              /\ actions'[Row(g)'][k].to = req'[g].step
    BY DEF RequestBacked, Reached
  <2>1. /\ pc[g] # "idle" /\ req[g] \in Request
        /\ req'[g].op = req[g].op /\ req'[g].user = req[g].user
        /\ req'[g].step = req[g].step /\ Row(g)' = Row(g)
        /\ Row(g) \in Contents
    BY <1>0, <1>3, BusyRequest DEF TInv, Row, Request
  <2>2. /\ instance[Row(g)].exists
        /\ RANK[RoleOf[req[g].user]] >= LevelRank[req[g].step]
        /\ Reached(Row(g), req[g].step, Len(actions[Row(g)]) + 1)
    BY <2>1 DEF IInv, RequestBacked
  <2>3. instance'[Row(g)].exists
    BY <1>2, <2>1, <2>2
  <2>4. ASSUME req[g].step # "submitted"
        PROVE  \E k \in DOMAIN actions'[Row(g)] :
                 /\ k < Len(actions'[Row(g)]) + 1
                 /\ actions'[Row(g)][k].to = req[g].step
    <3>1. PICK k \in DOMAIN actions[Row(g)] :
            k < Len(actions[Row(g)]) + 1 /\ actions[Row(g)][k].to = req[g].step
      BY <2>2, <2>4 DEF Reached
    <3>2. /\ actions[Row(g)] \in Seq(Action)
          /\ Len(actions'[Row(g)]) \in Nat
      BY <1>1, <2>1 DEF TInv, TypeOK, n
    <3>. QED  BY <1>1, <2>1, <3>1, <3>2 DEF Grows
  <2>. QED  BY <2>1, <2>2, <2>3, <2>4
<1>10. RequestSigned'
  <2> SUFFICES ASSUME NEW g \in Handlers
               PROVE  /\ pc'[g] \in {"status", "publish", "audit"}
                           /\ req'[g].op \in Decision =>
                           /\ req'[g].sig \in DOMAIN actions'[Row(g)']
                           /\ actions'[Row(g)'][req'[g].sig].to = Target(req'[g])
                           /\ actions'[Row(g)'][req'[g].sig].decision = req'[g].op
                      /\ pc'[g] = "publish" => Target(req'[g]) = "published"
    BY DEF RequestSigned, Target
  <2>1. CASE g = h
    <3>1. req[h] \in Request
      BY <1>0, BusyRequest DEF TInv
    <3>2. /\ req'[h].sig = n /\ req'[h].op = req[h].op
          /\ req'[h].step = req[h].step /\ Row(h)' = c
      BY <1>3, <3>1 DEF Request, Row, c
    <3>3. n \in DOMAIN actions'[c]
      BY <1>1 DEF n
    <3>4. pc'[h] # "publish" /\ Row(h)' = c
      BY <1>3, <3>2
    <3>5. Target(req'[h]) = Target(req[h])
      BY <3>2 DEF Target
    <3>6. /\ actions'[c][n].to = Target(req[h])
          /\ actions'[c][n].decision = req[h].op
      BY <1>1
    <3>. QED  BY <2>1, <3>2, <3>3, <3>4, <3>5, <3>6
  <2>2. CASE g # h
    <3>1. pc'[g] = pc[g] /\ req'[g] = req[g] /\ Row(g)' = Row(g)
      BY <1>3, <2>2 DEF Row
    <3>2. pc[g] # "idle" => Row(g) \in Contents
      BY BusyRequest DEF TInv
    <3>3. pc[g] = "publish" => Target(req[g]) = "published"
      BY DEF IInv, RequestSigned
    <3>4. ASSUME pc[g] \in {"status", "publish", "audit"}, req[g].op \in Decision
          PROVE  /\ req[g].sig \in DOMAIN actions'[Row(g)]
                 /\ actions'[Row(g)][req[g].sig].to = Target(req[g])
                 /\ actions'[Row(g)][req[g].sig].decision = req[g].op
      <4>1. /\ req[g].sig \in DOMAIN actions[Row(g)]
            /\ actions[Row(g)][req[g].sig].to = Target(req[g])
            /\ actions[Row(g)][req[g].sig].decision = req[g].op
        BY <3>4 DEF IInv, RequestSigned
      <4>. QED  BY <1>1, <3>2, <3>4, <4>1 DEF Grows
    <3>. QED  BY <3>1, <3>3, <3>4
  <2>. QED  BY <2>1, <2>2
<1>11. StatusHasEvidence' /\ DraftHasNoInstance'
  <2>1. UNCHANGED <<content, audit, events>>
    BY DEF advanceSign
  <2>2. \A b \in Contents : instance'[b].exists = instance[b].exists
    BY <1>2
  <2>. QED
    BY <1>1, <2>1, <2>2 DEF IInv, StatusHasEvidence, DraftHasNoInstance, Grows
<1>12. TraceIsSigned'
  <2>1. /\ UNCHANGED <<audit, events>>
        /\ \A a \in audit : a.target \in Contents
        /\ \A ev \in events : ev.content \in Contents
    BY DEF advanceSign, TInv, TypeOK, AuditEvent, PublishEvent
  <2>. QED  BY <1>1, <2>1 DEF IInv, TraceIsSigned, Grows
<1>. QED
  BY <1>4, <1>5, <1>6, <1>7, <1>8, <1>9, <1>10, <1>11, <1>12 DEF IInv

LEMMA IInvContinue ==
  ASSUME TInv, IInv, NEW h \in Handlers, Continue(h), UNCHANGED aborts
  PROVE  IInv'
<1>. Decision = {"approve", "reject"}
  BY DEF Decision
<1>0. ASSUME pc[h] # "idle"
      PROVE  /\ Row(h) \in Contents /\ req[h] \in Request
             /\ content[Row(h)] \in Content /\ instance[Row(h)] \in Instance
             /\ content \in [Contents -> Content] /\ instance \in [Contents -> Instance]
  BY <1>0, BusyRequest DEF TInv, TypeOK
<1>1. CASE updateDraftWrite(h)
  <2>1. \A c \in Contents : content'[c].status = content[c].status
    BY <1>0, <1>1 DEF updateDraftWrite, At, Content, Row
  <2>. QED
    BY <1>1, <2>1, IInvRespond, HistoryKept
    DEF updateDraftWrite, IInv, StatusHasEvidence, DraftHasNoInstance, TraceIsSigned
<1>2. CASE submitWrite(h)
  <2>1. /\ pc[h] = "write" /\ req[h].op = "submit"
        /\ ~instance[Row(h)].exists /\ actions[Row(h)] = <<>>
        /\ UNCHANGED <<actions, audit, events>>
        /\ \A c \in Contents : c # Row(h) =>
             instance'[c] = instance[c] /\ content'[c] = content[c]
        /\ instance'[Row(h)] = [exists |-> TRUE, step |-> "submitted",
                                completed |-> FALSE]
        /\ content'[Row(h)].status = "pending_editor"
    BY <1>0, <1>2 DEF submitWrite, At, Row, IInv, InstanceBacked, Content
  <2>2. RequestBacked' /\ RequestSigned'
    BY <1>2, <2>1, IInvGoto DEF submitWrite
  <2>3. SignedByRank' /\ ShapeOK' /\ HistoryBacked' /\ TraceIsSigned'
    BY <2>1 DEF IInv, SignedByRank, ShapeOK, HistoryBacked, Reached, TraceIsSigned
  <2>4. InstanceBacked' /\ StepIsLastSigned'
    BY <2>1 DEF IInv, InstanceBacked, StepIsLastSigned
  <2>5. StatusHasEvidence' /\ DraftHasNoInstance'
    BY <2>1 DEF IInv, StatusHasEvidence, DraftHasNoInstance
  <2>. QED  BY <2>2, <2>3, <2>4, <2>5 DEF IInv
<1>3. CASE submitRefused(h)
  BY <1>3, IInvRespond, HistoryKept
  DEF submitRefused, rows, IInv, StatusHasEvidence, DraftHasNoInstance, TraceIsSigned
<1>4. CASE softDeleteWrite(h)
  <2>1. \A c \in Contents : content'[c].status = content[c].status
    BY <1>0, <1>4 DEF softDeleteWrite, At, Content, Row
  <2>2. RequestBacked' /\ RequestSigned'
    BY <1>4, IInvGoto DEF softDeleteWrite, At
  <2>. QED
    BY <1>4, <2>1, <2>2, HistoryKept
    DEF softDeleteWrite, IInv, StatusHasEvidence, DraftHasNoInstance, TraceIsSigned
<1>5. CASE advanceSign(h)
  BY <1>5, IInvSign
<1>6. CASE advanceStatus(h)
  <2>1. /\ pc[h] = "status" /\ req[h].op \in Decision
        /\ Target(req[h]) \in WorkflowStep
        /\ UNCHANGED <<instance, actions, audit, events>>
        /\ content'[Row(h)].status = statusOf[Target(req[h])]
        /\ \A c \in Contents : c # Row(h) => content'[c] = content[c]
    BY <1>0, <1>6, TargetType DEF advanceStatus, At, Row, Content, StatusWritten
  <2>2. RequestBacked' /\ RequestSigned'
    BY <1>6, <2>1, IInvGoto DEF advanceStatus
  <2>3. /\ req[h].sig \in DOMAIN actions[Row(h)]
        /\ actions[Row(h)][req[h].sig].to = Target(req[h])
        /\ instance[Row(h)].exists
    BY <2>1 DEF IInv, RequestSigned, RequestBacked
  <2>4. StatusHasEvidence'
    BY <1>0, <2>1, <2>3 DEF IInv, StatusHasEvidence
  <2>5. DraftHasNoInstance'
    BY <1>0, <2>1, <2>3, WorkflowTables DEF IInv, DraftHasNoInstance
  <2>6. TraceIsSigned'
    BY <2>1 DEF IInv, TraceIsSigned
  <2>. QED  BY <2>1, <2>2, <2>4, <2>5, <2>6, HistoryKept DEF IInv
<1>7. CASE advancePublish(h)
  <2>1. /\ pc[h] = "publish" /\ req[h].op \in Decision
        /\ UNCHANGED <<content, instance, actions, audit>>
        /\ events' = events \union {[content |-> Row(h), sig |-> req[h].sig]}
    BY <1>7 DEF advancePublish, At, Row
  <2>2. RequestBacked' /\ RequestSigned'
    BY <1>7, <2>1, IInvGoto DEF advancePublish
  <2>3. /\ req[h].sig \in DOMAIN actions[Row(h)]
        /\ actions[Row(h)][req[h].sig].to = "published"
        /\ actions[Row(h)][req[h].sig].decision = req[h].op
    BY <2>1 DEF IInv, RequestSigned
  <2>4. req[h].op = "approve"
    BY <2>1, <2>3 DEF IInv, RequestSigned, Target
  <2>5. TraceIsSigned'
    BY <2>1, <2>3, <2>4 DEF IInv, TraceIsSigned
  <2>. QED
    BY <2>1, <2>2, <2>5, HistoryKept DEF IInv, StatusHasEvidence, DraftHasNoInstance
<1>8. CASE auditLog(h)
  <2>1. /\ pc[h] = "audit"
        /\ UNCHANGED <<content, instance, actions, events>>
        /\ audit' = audit \union Entries(req[h])
    BY <1>8 DEF auditLog
  <2>2. RequestBacked' /\ RequestSigned'
    BY <1>8, <2>1, IInvRespond DEF auditLog
  <2>3. TraceIsSigned'
    <3>1. ASSUME req[h].op \in Decision
          PROVE  /\ req[h].sig \in DOMAIN actions[Row(h)]
                 /\ actions[Row(h)][req[h].sig].decision = req[h].op
      BY <2>1, <3>1 DEF IInv, RequestSigned
    <3>. QED
      BY <2>1, <3>1 DEF IInv, TraceIsSigned, Entries, EntryOf, Row
  <2>. QED
    BY <2>1, <2>2, <2>3, HistoryKept DEF IInv, StatusHasEvidence, DraftHasNoInstance
<1>. QED
  BY <1>1, <1>2, <1>3, <1>4, <1>5, <1>6, <1>7, <1>8 DEF Continue

LEMMA IInvNext == TInv /\ IInv /\ [Next]_vars => IInv'
<1> SUFFICES ASSUME TInv, IInv, [Next]_vars PROVE IInv'
  OBVIOUS
<1>1. ASSUME NEW h \in Handlers, Begin(h), UNCHANGED aborts PROVE IInv'
  BY <1>1, IInvBegin
<1>2. ASSUME NEW h \in Handlers, Continue(h), UNCHANGED aborts PROVE IInv'
  BY <1>2, IInvContinue
<1>3. ASSUME NEW h \in Handlers, Abort(h) PROVE IInv'
  BY <1>3, IInvRespond, HistoryKept
  DEF Abort, rows, IInv, StatusHasEvidence, DraftHasNoInstance, TraceIsSigned
<1>4. CASE UNCHANGED vars
  <2>1. RequestBacked' /\ RequestSigned'
    BY <1>4 DEF vars, rows, IInv, RequestBacked, RequestSigned, Row, Reached, Target
  <2>. QED
    BY <1>4, <2>1, HistoryKept
    DEF vars, rows, IInv, StatusHasEvidence, DraftHasNoInstance, TraceIsSigned
<1>. QED  BY <1>1, <1>2, <1>3, <1>4 DEF Next

-----------------------------------------------------------------------------
(* The theorems. *)

LEMMA Invariance == Spec => [](TInv /\ IInv)
BY TInvInit, TInvNext, IInvInit, IInvNext, PTL DEF Spec

\* No interleaving publishes or closes a content without the four approvals
\* in order (workflows.service.ts advance).
THEOREM FourLevelsAlways == Spec => []FourLevels
BY Invariance, FourLevelsFromIInv, PTL

\* No interleaving signs a decision in the name of somebody not entitled to
\* it at the step it leaves.
THEOREM SignedByRankAlways == Spec => []SignedByRank
<1>1. IInv => SignedByRank
  BY DEF IInv
<1>. QED  BY <1>1, Invariance, PTL

\* The instance always stands where its last signed action put it.
THEOREM StepIsLastSignedAlways == Spec => []StepIsLastSigned
<1>1. IInv => StepIsLastSigned
  BY DEF IInv
<1>. QED  BY <1>1, Invariance, PTL

\* Every status past pending_editor is the outcome of a signed action.
THEOREM StatusHasEvidenceAlways == Spec => []StatusHasEvidence
<1>1. IInv => StatusHasEvidence
  BY DEF IInv
<1>. QED  BY <1>1, Invariance, PTL

\* Nothing is audited or announced that was not signed.
THEOREM TraceIsSignedAlways == Spec => []TraceIsSigned
<1>1. IInv => TraceIsSigned
  BY DEF IInv
<1>. QED  BY <1>1, Invariance, PTL

\* Instances and drafts exclude each other, whatever submissions race.
THEOREM DraftHasNoInstanceAlways == Spec => []DraftHasNoInstance
<1>1. IInv => DraftHasNoInstance
  BY DEF IInv
<1>. QED  BY <1>1, Invariance, PTL

\* The signed history is append-only (ValidationAction rows are only created).
THEOREM HistoryIsAppendOnly == Spec => [][Grows]_vars
<1>1. Spec => []TInv
  BY TInvInit, TInvNext, PTL DEF Spec
<1>. QED  BY <1>1, StepGrows, PTL DEF Spec
=============================================================================
