---------------------------- MODULE AccountsProofs ----------------------------
(***************************************************************************)
(* Proofs about Accounts for any users, administrators, handlers, tokens   *)
(* and deletion requests.                                                  *)
(***************************************************************************)
EXTENDS Accounts, TLAPS

-----------------------------------------------------------------------------
(* The inductive invariant.  A handler acts on what it read earlier; RowOK  *)
(* says what of that still holds when it acts.                              *)

OfUser ==
  {"token", "password", "mfa", "burn", "complete", "issued", "validated", "hashing"}

RowOK(row) ==
  /\ row.at \in OfUser => row.of \in Users
  /\ row.at \in {"purging", "cancelling"} =>
       row.of \in DeletionRequests /\ request[row.of] # None
  /\ row.at = "purging" => row.by \in Admins /\ row.by # request[row.of].requestedBy
  /\ row.at = "cancelling" => row.status # "executed"
  /\ row.at = "burn" =>
       /\ row.code \in row.seen.codes
       /\ \A c \in row.seen.codes : c[1] <= activations[row.of]
  /\ row.at = "hashing" => row.seen.secret \in proven[row.of]
  /\ ~row.late

CallsOK == \A h \in Handlers : RowOK(call[h])

\* Codes are those of activations that have taken place.
CodesAreOld ==
  \A u \in Users :
    /\ \A c \in user[u].codes : c[1] <= activations[u]
    /\ \A c \in Codes : accepted[u][c] > 0 => c[1] <= activations[u]

IInv == TypeOK /\ CallsOK /\ CodesAreOld /\ MfaHolds /\ PurgeIsAccounted

\* What no step takes back: activations, proven secrets, who asked for what.
Grows ==
  /\ \A u \in Users : activations[u] <= activations'[u] /\ proven[u] \subseteq proven'[u]
  /\ \A q \in DeletionRequests : request[q] # None =>
       /\ request'[q] # None
       /\ request'[q].target = request[q].target
       /\ request'[q].requestedBy = request[q].requestedBy

\* What handler h has read becomes row, which is right in the new state.
Becomes(h, row) ==
  /\ row \in Call
  /\ call' = [call EXCEPT ![h] = row]
  /\ RowOK(row)'

LEMMA RowStays ==
  ASSUME TypeOK, CallsOK, Grows, TypeOK', NEW g \in Handlers, call'[g] = call[g]
  PROVE  RowOK(call[g])'
<1>1. RowOK(call[g]) /\ call[g] \in Call
  BY DEF CallsOK, TypeOK
<1>2. ASSUME call[g].at = "burn"
      PROVE  \A c \in call[g].seen.codes : c[1] <= activations'[call[g].of]
  <2>1. call[g].of \in Users
    BY <1>1, <1>2 DEF RowOK, OfUser
  <2>2. activations[call[g].of] <= activations'[call[g].of]
        /\ activations[call[g].of] \in Nat /\ activations'[call[g].of] \in Nat
    BY <2>1, AccountAssumption DEF Grows, TypeOK
  <2>3. \A c \in call[g].seen.codes : c \in Codes /\ c[1] \in Nat
    BY <1>1, AccountAssumption DEF Call, MfaRow, Codes
  <2>. QED  BY <1>1, <1>2, <2>2, <2>3 DEF RowOK
<1>3. call[g].at = "hashing" => call[g].seen.secret \in proven'[call[g].of]
  BY <1>1 DEF RowOK, OfUser, Grows
<1>4. call[g].at \in {"purging", "cancelling"} =>
        /\ call[g].of \in DeletionRequests /\ request'[call[g].of] # None
        /\ request'[call[g].of].requestedBy = request[call[g].of].requestedBy
  BY <1>1 DEF RowOK, Grows
<1>. QED  BY <1>1, <1>2, <1>3, <1>4 DEF RowOK

LEMMA CallsStay ==
  ASSUME TypeOK, CallsOK, Grows, TypeOK', NEW h \in Handlers, NEW row, Becomes(h, row)
  PROVE  CallsOK'
<1>. SUFFICES ASSUME NEW g \in Handlers
              PROVE  RowOK(call[g])'
  BY DEF CallsOK
<1>1. CASE g = h
  BY <1>1 DEF Becomes, TypeOK
<1>2. CASE g # h
  BY <1>2, RowStays DEF Becomes, TypeOK
<1>. QED  BY <1>1, <1>2

LEMMA CallsSame ==
  ASSUME TypeOK, CallsOK, Grows, TypeOK', UNCHANGED call
  PROVE  CallsOK'
BY RowStays DEF CallsOK

-----------------------------------------------------------------------------
(* The steps that change no MFA row and no request.                        *)

Quiet ==
  /\ UNCHANGED <<user, purged, request, bounds, accepted, executor, staleMfa, staleRequests>>
  /\ session' \in [Tokens -> [of : Users, revoked : BOOLEAN] \cup {None}]
  /\ signedIn' \subseteq Users /\ challenged' \subseteq Users
  /\ proven' \in [Users -> SUBSET Secrets]
  /\ \A u \in Users : proven[u] \subseteq proven'[u]

LEMMA QuietStep ==
  ASSUME IInv, Quiet,
         \/ UNCHANGED call
         \/ \E h \in Handlers, row \in Call : Becomes(h, row)
  PROVE  IInv'
<1>1. Grows
  BY AccountAssumption DEF Quiet, Grows, bounds, IInv, TypeOK
<1>2. call' \in [Handlers -> Call]
  BY DEF IInv, TypeOK, Becomes
<1>3. TypeOK'
  BY <1>2 DEF IInv, TypeOK, Quiet, bounds
<1>4. CallsOK'
  BY <1>1, <1>3, CallsSame, CallsStay DEF IInv
<1>5. CodesAreOld'
  BY DEF IInv, CodesAreOld, Quiet, bounds
<1>6. MfaHolds'
  BY DEF IInv, MfaHolds, Quiet
<1>7. PurgeIsAccounted'
  BY DEF IInv, PurgeIsAccounted, Quiet
<1>. QED  BY <1>3, <1>4, <1>5, <1>6, <1>7 DEF IInv

LEMMA IdleRow ==
  /\ Idle \in Call /\ NoMfa \in MfaRow
  /\ Idle.at = "idle" /\ ~Idle.late /\ Idle.of = None /\ Idle.seen = NoMfa
  /\ NoMfa.codes = {} /\ ~NoMfa.enabled
BY DEF Idle, NoMfa, Call, MfaRow

\* A handler goes on with what it has, to a point where only its user counts.
Onward == {"token", "password", "mfa", "complete", "issued", "validated"}

LEMMA GotoOnward ==
  ASSUME IInv, NEW h \in Handlers, call[h].at \in OfUser,
         NEW where \in Onward, Goto(h, where)
  PROVE  \E row \in Call : Becomes(h, row)
<1>1. call[h] \in Call /\ RowOK(call[h])
  BY DEF IInv, TypeOK, CallsOK
<1>2. PICK row : row = [call[h] EXCEPT !.at = where]
  OBVIOUS
<1>3. row \in Call /\ row.at = where /\ row.of = call[h].of /\ row.late = call[h].late
  BY <1>1, <1>2 DEF Call, Onward
<1>4. RowOK(row)'
  BY <1>1, <1>3 DEF RowOK, OfUser, Onward
<1>5. call' = [call EXCEPT ![h] = row]
  BY <1>2 DEF Goto
<1>. QED  BY <1>3, <1>4, <1>5 DEF Becomes

LEMMA BeginOnward ==
  ASSUME IInv, NEW h \in Handlers, NEW where \in Onward, NEW u \in Users \ purged,
         Begin(h, where, u, u)
  PROVE  \E row \in Call : Becomes(h, row)
<1>1. PICK row : row = [Idle EXCEPT !.at = where, !.of = u, !.late = FALSE]
  OBVIOUS
<1>2. row \in Call /\ row.at = where /\ row.of = u /\ ~row.late
  BY <1>1, IdleRow DEF Call, Onward
<1>3. RowOK(row)'
  BY <1>2 DEF RowOK, OfUser, Onward
<1>4. (u \in purged) = FALSE
  OBVIOUS
<1>5. call' = [call EXCEPT ![h] = row]
  BY <1>1, <1>4 DEF Begin
<1>. QED  BY <1>2, <1>3, <1>5 DEF Becomes

LEMMA ReturnIdle ==
  ASSUME NEW h \in Handlers, Return(h)
  PROVE  \E row \in Call : Becomes(h, row)
<1>1. RowOK(Idle)'
  BY IdleRow DEF RowOK, OfUser
<1>. QED  BY <1>1, IdleRow DEF Becomes, Return

LEMMA QuietSteps ==
  ASSUME IInv, NEW h \in Handlers,
         \/ \E u \in Users : login(h, u) \/ mfaVerify(h, u) \/ activate(h, u)
         \/ passwordOk(h) \/ verifyTotp(h) \/ completeLogin(h) \/ refresh(h) \/ fails(h)
         \/ \E c \in Codes : verifyBackupCode(h, c)
         \/ \E t \in Tokens : issue(h, t) \/ validate(h, t)
         \/ \E q \in DeletionRequests :
              cancel(h, q) \/ \E a \in Admins : executeDeletion(h, q, a)
  PROVE  IInv'
<1>0. call[h] \in Call /\ RowOK(call[h])
  BY DEF IInv, TypeOK, CallsOK
<1>00. ASSUME call[h].at \in OfUser
       PROVE  call[h].of \in Users
  BY <1>0, <1>00 DEF RowOK
<1>. USE DEF rows, bounds, history
<1>1. ASSUME NEW u \in Users, login(h, u)
      PROVE  IInv'
  <2>1. user[u] \in MfaRow
    BY DEF IInv, TypeOK
  <2>2. PICK row : row = [Idle EXCEPT !.at = "password", !.of = u, !.seen = user[u]]
    OBVIOUS
  <2>3. row \in Call /\ row.at = "password" /\ row.of = u /\ ~row.late
    BY <2>1, <2>2, IdleRow DEF Call
  <2>4. Becomes(h, row)
    BY <1>1, <2>2, <2>3 DEF login, Becomes, RowOK, OfUser
  <2>5. Quiet
    BY <1>1 DEF login, Quiet, IInv, TypeOK
  <2>. QED  BY <2>3, <2>4, <2>5, QuietStep
<1>2. ASSUME NEW u \in Users, mfaVerify(h, u)
      PROVE  IInv'
  <2>1. \E row \in Call : Becomes(h, row)
    BY <1>2, BeginOnward DEF mfaVerify, Onward
  <2>2. Quiet
    BY <1>2 DEF mfaVerify, Quiet, IInv, TypeOK
  <2>. QED  BY <2>1, <2>2, QuietStep
<1>3. ASSUME NEW u \in Users, activate(h, u)
      PROVE  IInv'
  <2>1. user[u] \in MfaRow
    BY DEF IInv, TypeOK
  <2>2. PICK row : row = [Idle EXCEPT !.at = "hashing", !.of = u, !.seen = user[u]]
    OBVIOUS
  <2>3. row \in Call /\ row.at = "hashing" /\ row.of = u /\ row.seen = user[u] /\ ~row.late
    BY <2>1, <2>2, IdleRow DEF Call
  <2>4. user[u].secret \in Secrets
    BY <1>3, <2>1 DEF activate, MfaRow
  <2>5. proven' = [proven EXCEPT ![u] = @ \cup {user[u].secret}]
    BY <1>3 DEF activate
  <2>6. row.seen.secret \in proven'[u]
    BY <2>3, <2>5 DEF IInv, TypeOK
  <2>7. Becomes(h, row)
    BY <1>3, <2>2, <2>3, <2>6 DEF activate, Becomes, RowOK, OfUser
  <2>8. /\ proven' \in [Users -> SUBSET Secrets]
        /\ \A v \in Users : proven[v] \subseteq proven'[v]
    BY <2>4, <2>5 DEF IInv, TypeOK
  <2>9. Quiet
    BY <1>3, <2>8 DEF activate, Quiet, IInv, TypeOK
  <2>. QED  BY <2>3, <2>7, <2>9, QuietStep
<1>4. CASE passwordOk(h)
  <2>1. \E row \in Call : Becomes(h, row)
    BY <1>4, GotoOnward, ReturnIdle DEF passwordOk, At, OfUser, Onward
  <2>2. Quiet
    BY <1>4, <1>00 DEF passwordOk, At, OfUser, Quiet, IInv, TypeOK
  <2>. QED  BY <2>1, <2>2, QuietStep
<1>5. CASE verifyTotp(h)
  <2>1. \E row \in Call : Becomes(h, row)
    BY <1>5, GotoOnward DEF verifyTotp, At, OfUser, Onward
  <2>2. Quiet
    BY <1>5 DEF verifyTotp, Quiet, IInv, TypeOK
  <2>. QED  BY <2>1, <2>2, QuietStep
<1>6. CASE completeLogin(h) \/ refresh(h)
  <2>1. \E row \in Call : Becomes(h, row)
    BY <1>6, GotoOnward DEF completeLogin, refresh, Token, At, OfUser, Onward
  <2>2. Quiet
    BY <1>6, <1>00 DEF completeLogin, refresh, Token, At, OfUser, Quiet, IInv, TypeOK
  <2>. QED  BY <2>1, <2>2, QuietStep
<1>7. CASE fails(h)
  <2>1. \E row \in Call : Becomes(h, row)
    BY <1>7, ReturnIdle DEF fails
  <2>2. Quiet
    BY <1>7 DEF fails, Quiet, IInv, TypeOK
  <2>. QED  BY <2>1, <2>2, QuietStep
<1>8. ASSUME NEW c \in Codes, verifyBackupCode(h, c)
      PROVE  IInv'
  <2>1. call[h].of \in Users /\ c \in user[call[h].of].codes
    BY <1>8, <1>00 DEF verifyBackupCode, At, OfUser
  <2>2. user[call[h].of] \in MfaRow
    BY <2>1 DEF IInv, TypeOK
  <2>3. PICK row : row = [call[h] EXCEPT !.at = "burn", !.seen = user[call[h].of], !.code = c]
    OBVIOUS
  <2>4. /\ row \in Call /\ row.at = "burn" /\ row.of = call[h].of
        /\ row.seen = user[call[h].of] /\ row.code = c /\ row.late = call[h].late
    BY <1>0, <2>2, <2>3 DEF Call
  <2>5. call' = [call EXCEPT ![h] = row] /\ activations' = activations
    BY <1>8, <2>3 DEF verifyBackupCode
  <2>6. \A d \in row.seen.codes : d[1] <= activations'[row.of]
    BY <2>1, <2>4, <2>5 DEF IInv, CodesAreOld
  <2>7. Becomes(h, row)
    BY <1>0, <2>1, <2>4, <2>5, <2>6 DEF Becomes, RowOK, OfUser
  <2>8. Quiet
    BY <1>8 DEF verifyBackupCode, Quiet, IInv, TypeOK
  <2>. QED  BY <2>4, <2>7, <2>8, QuietStep
<1>9. ASSUME NEW t \in Tokens, issue(h, t)
      PROVE  IInv'
  <2>1. \E row \in Call : Becomes(h, row)
    BY <1>9, GotoOnward DEF issue, At, OfUser, Onward
  <2>2. call[h].of \in Users
    BY <1>9, <1>00 DEF issue, At, OfUser
  <2>3. Quiet
    BY <1>9, <2>2 DEF issue, Quiet, IInv, TypeOK
  <2>. QED  BY <2>1, <2>3, QuietStep
<1>10. ASSUME NEW t \in Tokens, validate(h, t)
       PROVE  IInv'
  <2>1. session[t].of \in Users \ purged
    BY <1>10 DEF validate, IInv, TypeOK
  <2>2. \E row \in Call : Becomes(h, row)
    BY <1>10, <2>1, BeginOnward DEF validate, Onward
  <2>3. Quiet
    BY <1>10 DEF validate, Quiet, IInv, TypeOK
  <2>. QED  BY <2>2, <2>3, QuietStep
<1>11. ASSUME NEW q \in DeletionRequests, cancel(h, q)
       PROVE  IInv'
  <2>1. request[q].status \in Status \ {"executed"}
    BY <1>11 DEF cancel, IInv, TypeOK, RequestRow
  <2>2. PICK row : row = [Idle EXCEPT !.at = "cancelling", !.of = q, !.status = request[q].status]
    OBVIOUS
  <2>3. /\ row \in Call /\ row.at = "cancelling" /\ row.of = q
        /\ row.status # "executed" /\ ~row.late
    BY <2>1, <2>2, IdleRow DEF Call
  <2>4. Becomes(h, row)
    BY <1>11, <2>2, <2>3 DEF cancel, Becomes, RowOK, OfUser
  <2>5. Quiet
    BY <1>11 DEF cancel, Quiet, IInv, TypeOK
  <2>. QED  BY <2>3, <2>4, <2>5, QuietStep
<1>12. ASSUME NEW q \in DeletionRequests, NEW a \in Admins, executeDeletion(h, q, a)
       PROVE  IInv'
  <2>1. request[q].status \in Status /\ request[q].requestedBy # a
    BY <1>12 DEF executeDeletion, FourEyes, IInv, TypeOK, RequestRow
  <2>2. PICK row : row = [Idle EXCEPT !.at = "purging", !.of = q, !.by = a,
                                      !.status = request[q].status]
    OBVIOUS
  <2>3. row \in Call /\ row.at = "purging" /\ row.of = q /\ row.by = a /\ ~row.late
    BY <2>1, <2>2, IdleRow DEF Call
  <2>4. Becomes(h, row)
    BY <1>12, <2>1, <2>2, <2>3 DEF executeDeletion, Becomes, RowOK, OfUser
  <2>5. Quiet
    BY <1>12 DEF executeDeletion, Quiet, IInv, TypeOK
  <2>. QED  BY <2>3, <2>4, <2>5, QuietStep
<1>. QED  BY <1>1, <1>2, <1>3, <1>4, <1>5, <1>6, <1>7, <1>8, <1>9, <1>10, <1>11, <1>12

-----------------------------------------------------------------------------
(* The steps that write an MFA row.                                        *)

LEMMA GrowsSame ==
  ASSUME IInv, UNCHANGED <<proven, request>>,
         \A u \in Users : activations[u] <= activations'[u]
  PROVE  Grows
BY DEF Grows, IInv, TypeOK

LEMMA UserWrites ==
  ASSUME IInv, NEW u \in Users, setup(u) \/ disable(u)
  PROVE  IInv'
<1>. USE DEF bounds, history
<1>1. PICK row \in MfaRow :
        /\ user' = [user EXCEPT ![u] = row]
        /\ ~row.enabled /\ row.codes \subseteq user[u].codes
  <2>1. CASE setup(u)
    <3>1. user[u] \in MfaRow /\ setups[u] + 1 \in Secrets
      BY <2>1, AccountAssumption DEF setup, IInv, TypeOK, Secrets
    <3>2. PICK row : row = [user[u] EXCEPT !.secret = setups[u] + 1, !.enabled = FALSE]
      OBVIOUS
    <3>3. row \in MfaRow /\ ~row.enabled /\ row.codes = user[u].codes
      BY <3>1, <3>2 DEF MfaRow
    <3>4. user' = [user EXCEPT ![u] = row]
      BY <2>1, <3>2 DEF setup
    <3>. QED  BY <3>3, <3>4
  <2>2. CASE disable(u)
    BY <2>2, IdleRow DEF disable
  <2>. QED  BY <2>1, <2>2
<1>2. /\ UNCHANGED <<purged, session, request, call, activations, history>>
      /\ setups' \in [Users -> 0..MaxSetups]
  BY AccountAssumption DEF setup, disable, IInv, TypeOK
<1>3. Grows
  BY <1>2, AccountAssumption, GrowsSame DEF IInv, TypeOK
<1>4. TypeOK'
  BY <1>1, <1>2 DEF IInv, TypeOK
<1>5. CallsOK'
  BY <1>2, <1>3, <1>4, CallsSame DEF IInv
<1>6. \A v \in Users : user'[v].codes \subseteq user[v].codes
  BY <1>1 DEF IInv, TypeOK
<1>7. CodesAreOld'
  BY <1>2, <1>6 DEF IInv, CodesAreOld
<1>8. MfaHolds'
  BY <1>1, <1>2, <1>6 DEF IInv, MfaHolds, TypeOK
<1>9. PurgeIsAccounted'
  BY <1>2 DEF IInv, PurgeIsAccounted
<1>. QED  BY <1>4, <1>5, <1>7, <1>8, <1>9 DEF IInv

LEMMA BurnStep ==
  ASSUME IInv, NEW h \in Handlers, burn(h)
  PROVE  IInv'
<1>. DEFINE u == call[h].of
            c == call[h].code
            left == call[h].seen.codes \ {c}
<1>0. call[h] \in Call /\ RowOK(call[h])
  BY DEF IInv, TypeOK, CallsOK
<1>1. /\ u \in Users /\ c \in call[h].seen.codes /\ c \in Codes
      /\ left \subseteq Codes
      /\ \A d \in call[h].seen.codes : d[1] <= activations[u]
  BY <1>0 DEF burn, At, RowOK, OfUser, Call, MfaRow
<1>2. PICK row : row = [user[u] EXCEPT !.codes = left]
  OBVIOUS
<1>3. user[u] \in MfaRow
  BY <1>1 DEF IInv, TypeOK
<1>4. /\ row \in MfaRow /\ row.codes = left
      /\ row.secret = user[u].secret /\ row.enabled = user[u].enabled
  BY <1>1, <1>2, <1>3 DEF MfaRow
<1>5. /\ user' = [user EXCEPT ![u] = row]
      /\ staleMfa' = IF call[h].seen = user[u] THEN staleMfa ELSE staleMfa \cup {u}
  BY <1>2 DEF burn, WriteMfa
<1>6. /\ UNCHANGED <<purged, session, request, bounds, signedIn, challenged, proven,
                     executor, staleRequests>>
      /\ accepted' = [accepted EXCEPT ![u][c] = IF @ = 2 THEN 2 ELSE @ + 1]
      /\ Goto(h, "complete")
  BY DEF burn, Accept
<1>7. \E r \in Call : Becomes(h, r)
  BY <1>6, GotoOnward DEF burn, At, OfUser, Onward
<1>8. call' \in [Handlers -> Call]
  BY <1>7 DEF IInv, TypeOK, Becomes
<1>9. accepted[u] \in [Codes -> 0..2] /\ accepted \in [Users -> [Codes -> 0..2]]
  BY <1>1 DEF IInv, TypeOK
<1>10. /\ accepted' \in [Users -> [Codes -> 0..2]]
       /\ \A v \in Users, d \in Codes :
            (v # u \/ d # c) => accepted'[v][d] = accepted[v][d]
       /\ accepted'[u][c] = IF accepted[u][c] = 2 THEN 2 ELSE accepted[u][c] + 1
  <2>1. PICK codes : codes = [accepted[u] EXCEPT ![c] = IF @ = 2 THEN 2 ELSE @ + 1]
    OBVIOUS
  <2>2. /\ codes \in [Codes -> 0..2]
        /\ \A d \in Codes : d # c => codes[d] = accepted[u][d]
        /\ codes[c] = IF accepted[u][c] = 2 THEN 2 ELSE accepted[u][c] + 1
    BY <1>1, <1>9, <2>1
  <2>3. accepted' = [accepted EXCEPT ![u] = codes]
    BY <1>6, <2>1
  <2>. QED  BY <1>1, <1>9, <2>2, <2>3
<1>11. staleMfa' \subseteq Users /\ staleMfa \subseteq staleMfa'
  BY <1>1, <1>5 DEF IInv, TypeOK
<1>12. TypeOK'
  BY <1>4, <1>5, <1>6, <1>8, <1>10, <1>11 DEF IInv, TypeOK, bounds
<1>13. Grows
  BY <1>6, AccountAssumption, GrowsSame DEF IInv, TypeOK, bounds
<1>14. CallsOK'
  BY <1>7, <1>12, <1>13, CallsStay DEF IInv
<1>15. user \in [Users -> MfaRow]
  BY DEF IInv, TypeOK
<1>16. CodesAreOld'
  <2>1. ASSUME NEW v \in Users, NEW d \in user'[v].codes
        PROVE  d[1] <= activations'[v]
    BY <1>1, <1>4, <1>5, <1>6, <1>15, <2>1 DEF IInv, CodesAreOld, bounds
  <2>2. ASSUME NEW v \in Users, NEW d \in Codes, accepted'[v][d] > 0
        PROVE  d[1] <= activations'[v]
    BY <1>1, <1>6, <1>10, <2>2 DEF IInv, CodesAreOld, bounds
  <2>. QED  BY <2>1, <2>2 DEF CodesAreOld
<1>17. MfaHolds'
  <2>. SUFFICES ASSUME NEW v \in Users \ staleMfa'
                PROVE  /\ user'[v].enabled => user'[v].secret \in proven'[v]
                       /\ \A d \in Codes :
                            /\ accepted'[v][d] < 2
                            /\ accepted'[v][d] = 1 => d \notin user'[v].codes
    BY DEF MfaHolds
  <2>1. CASE v # u
    BY <1>1, <1>5, <1>6, <1>10, <1>11, <1>15, <2>1 DEF IInv, MfaHolds
  <2>2. CASE v = u
    <3>1. call[h].seen = user[u] /\ u \notin staleMfa
      BY <1>5, <1>11, <2>2
    <3>2. /\ user'[u].enabled => user'[u].secret \in proven'[u]
      BY <1>1, <1>4, <1>5, <1>6, <1>15, <3>1 DEF IInv, MfaHolds
    <3>3. accepted[u][c] = 0
      BY <1>1, <1>9, <3>1 DEF IInv, MfaHolds
    <3>4. user'[u].codes = user[u].codes \ {c}
      BY <1>1, <1>4, <1>5, <1>15, <3>1
    <3>5. ASSUME NEW d \in Codes
          PROVE  /\ accepted'[u][d] < 2
                 /\ accepted'[u][d] = 1 => d \notin user'[u].codes
      BY <1>1, <1>10, <3>1, <3>3, <3>4 DEF IInv, MfaHolds
    <3>. QED  BY <2>2, <3>2, <3>5
  <2>. QED  BY <2>1, <2>2
<1>18. PurgeIsAccounted'
  BY <1>6 DEF IInv, PurgeIsAccounted
<1>. QED  BY <1>12, <1>14, <1>16, <1>17, <1>18 DEF IInv

LEMMA ActivateStep ==
  ASSUME IInv, NEW h \in Handlers, activateWrites(h)
  PROVE  IInv'
<1>. DEFINE u == call[h].of
            n == activations[u] + 1
<1>0. call[h] \in Call /\ RowOK(call[h])
  BY DEF IInv, TypeOK, CallsOK
<1>1. u \in Users /\ call[h].seen.secret \in proven[u]
  BY <1>0 DEF activateWrites, At, RowOK, OfUser
<1>2. user[u] \in MfaRow /\ user \in [Users -> MfaRow] /\ activations[u] \in Nat
  BY <1>1, AccountAssumption DEF IInv, TypeOK
<1>3. n \in 1..MaxActivations
  BY <1>2, AccountAssumption DEF activateWrites
<1>4. /\ FreshCodes(n) \subseteq Codes
      /\ \A d \in FreshCodes(n) : d[1] = n
  BY <1>3 DEF FreshCodes, Codes
<1>5. PICK row : row = [user[u] EXCEPT !.enabled = TRUE, !.codes = FreshCodes(n)]
  OBVIOUS
<1>6. row \in MfaRow /\ row.codes = FreshCodes(n) /\ row.secret = user[u].secret
  BY <1>2, <1>4, <1>5 DEF MfaRow
<1>7. /\ user' = [user EXCEPT ![u] = row]
      /\ staleMfa' = IF call[h].seen = user[u] THEN staleMfa ELSE staleMfa \cup {u}
  BY <1>5 DEF activateWrites, WriteMfa
<1>8. /\ UNCHANGED <<purged, session, request, setups, signedIn, challenged, proven,
                     accepted, executor, staleRequests>>
      /\ activations' = [activations EXCEPT ![u] = n]
      /\ Return(h)
  BY DEF activateWrites
<1>9. PICK r \in Call : Becomes(h, r)
  BY <1>8, ReturnIdle
<1>10. call' \in [Handlers -> Call]
  BY <1>9 DEF IInv, TypeOK, Becomes
<1>11. staleMfa' \subseteq Users /\ staleMfa \subseteq staleMfa'
  BY <1>1, <1>7 DEF IInv, TypeOK
<1>12. /\ activations' \in [Users -> 0..MaxActivations]
       /\ \A v \in Users : v # u => activations'[v] = activations[v]
       /\ activations'[u] = n
       /\ \A v \in Users : activations[v] <= activations'[v]
  BY <1>1, <1>2, <1>3, <1>8, AccountAssumption DEF IInv, TypeOK
<1>13. TypeOK'
  BY <1>6, <1>7, <1>8, <1>10, <1>11, <1>12 DEF IInv, TypeOK
<1>14. CallsOK'
  BY <1>8, <1>9, <1>12, <1>13, GrowsSame, CallsStay DEF IInv
<1>15. CodesAreOld'
  <2>1. ASSUME NEW v \in Users, NEW d \in user'[v].codes
        PROVE  d[1] <= activations'[v]
    BY <1>1, <1>2, <1>4, <1>6, <1>7, <1>12, <2>1 DEF IInv, CodesAreOld
  <2>2. ASSUME NEW v \in Users, NEW d \in Codes, accepted'[v][d] > 0
        PROVE  d[1] <= activations'[v]
    <3>1. d[1] <= activations[v]
      BY <1>8, <2>2 DEF IInv, CodesAreOld
    <3>2. d[1] \in Nat /\ activations[v] \in Nat /\ activations'[v] \in Nat
      BY <1>13, AccountAssumption DEF Codes, IInv, TypeOK
    <3>. QED  BY <1>12, <3>1, <3>2
  <2>. QED  BY <2>1, <2>2 DEF CodesAreOld
<1>16. MfaHolds'
  <2>. SUFFICES ASSUME NEW v \in Users \ staleMfa'
                PROVE  /\ user'[v].enabled => user'[v].secret \in proven'[v]
                       /\ \A d \in Codes :
                            /\ accepted'[v][d] < 2
                            /\ accepted'[v][d] = 1 => d \notin user'[v].codes
    BY DEF MfaHolds
  <2>1. CASE v # u
    BY <1>1, <1>2, <1>7, <1>8, <1>11, <2>1 DEF IInv, MfaHolds
  <2>2. CASE v = u
    <3>1. call[h].seen = user[u] /\ u \notin staleMfa
      BY <1>7, <1>11, <2>2
    <3>2. user'[u].secret \in proven'[u]
      BY <1>1, <1>2, <1>6, <1>7, <1>8, <3>1
    <3>3. ASSUME NEW d \in Codes
          PROVE  /\ accepted'[u][d] < 2
                 /\ accepted'[u][d] = 1 => d \notin user'[u].codes
      <4>1. accepted[u][d] < 2 /\ accepted'[u][d] = accepted[u][d]
        BY <1>1, <1>8, <3>1 DEF IInv, MfaHolds
      <4>2. accepted[u][d] = 1 => d[1] <= activations[u]
        BY <1>1 DEF IInv, CodesAreOld
      <4>3. accepted[u][d] = 1 => d \notin FreshCodes(n)
        BY <1>2, <1>4, <4>2
      <4>4. user'[u].codes = FreshCodes(n)
        BY <1>1, <1>2, <1>6, <1>7
      <4>. QED  BY <4>1, <4>3, <4>4
    <3>. QED  BY <2>2, <3>2, <3>3
  <2>. QED  BY <2>1, <2>2
<1>17. PurgeIsAccounted'
  BY <1>8 DEF IInv, PurgeIsAccounted
<1>. QED  BY <1>13, <1>14, <1>15, <1>16, <1>17 DEF IInv

-----------------------------------------------------------------------------
(* The steps that write a request.                                         *)

LEMMA RequestStep ==
  ASSUME IInv, NEW q \in DeletionRequests, NEW u \in Users, NEW a \in Admins,
         requestDeletion(q, u, a)
  PROVE  IInv'
<1>. USE DEF bounds, history
<1>1. PICK row : row = [target |-> u, requestedBy |-> a, status |-> "pending"]
  OBVIOUS
<1>2. /\ request[q] = None /\ request' = [request EXCEPT ![q] = row]
      /\ UNCHANGED <<user, purged, session, call, bounds, history>>
  BY <1>1 DEF requestDeletion
<1>3. /\ row \in RequestRow
      /\ row.status = "pending"
  BY <1>1 DEF RequestRow, Status
<1>4. TypeOK'
  BY <1>2, <1>3 DEF IInv, TypeOK
<1>5. Grows
  BY <1>2, AccountAssumption DEF IInv, TypeOK, Grows
<1>6. CallsOK'
  BY <1>2, <1>4, <1>5, CallsSame DEF IInv
<1>7. CodesAreOld' /\ MfaHolds'
  BY <1>2 DEF IInv, CodesAreOld, MfaHolds
<1>8. PurgeIsAccounted'
  <2>1. ASSUME NEW v \in purged'
        PROVE  \E p \in DeletionRequests :
                 /\ request'[p] # None /\ request'[p].target = v
                 /\ executor'[p] \notin {None, request'[p].requestedBy}
    BY <1>2, <2>1 DEF IInv, PurgeIsAccounted, TypeOK
  <2>2. ASSUME NEW p \in DeletionRequests \ staleRequests'
        PROVE  executor'[p] # None <=> (request'[p] # None /\ request'[p].status = "executed")
    BY <1>2, <1>3, <2>2 DEF IInv, PurgeIsAccounted, TypeOK
  <2>. QED  BY <2>1, <2>2 DEF PurgeIsAccounted
<1>. QED  BY <1>4, <1>6, <1>7, <1>8 DEF IInv

LEMMA PurgeStep ==
  ASSUME IInv, NEW h \in Handlers, purge(h)
  PROVE  IInv'
<1>. DEFINE q == call[h].of
            u == request[q].target
<1>0. call[h] \in Call /\ RowOK(call[h])
  BY DEF IInv, TypeOK, CallsOK
<1>1. /\ q \in DeletionRequests /\ request[q] # None
      /\ call[h].by \in Admins /\ call[h].by # request[q].requestedBy
  BY <1>0 DEF purge, At, RowOK
<1>2. request[q] \in RequestRow
  BY <1>1 DEF IInv, TypeOK
<1>3. PICK row : row = [request[q] EXCEPT !.status = "executed"]
  OBVIOUS
<1>4. /\ row \in RequestRow /\ row # None
      /\ row.target = u /\ row.requestedBy = request[q].requestedBy
      /\ row.status = "executed" /\ u \in Users
  BY <1>2, <1>3, AccountAssumption DEF RequestRow, Status
<1>5. /\ user' = [user EXCEPT ![u] = NoMfa] /\ purged' = purged \cup {u}
      /\ executor' = [executor EXCEPT ![q] = call[h].by]
      /\ request' = [request EXCEPT ![q] = row]
      /\ Return(h)
      /\ UNCHANGED <<bounds, signedIn, challenged, proven, accepted, staleMfa>>
  BY <1>3 DEF purge
<1>6. session' \in [Tokens -> [of : Users, revoked : BOOLEAN] \cup {None}]
  <2>1. ASSUME NEW t \in Tokens, session[t] # None
        PROVE  [session[t] EXCEPT !.revoked = TRUE] \in [of : Users, revoked : BOOLEAN]
    <3>1. session[t] \in [of : Users, revoked : BOOLEAN]
      BY <2>1 DEF IInv, TypeOK
    <3>. QED  BY <3>1
  <2>2. session \in [Tokens -> [of : Users, revoked : BOOLEAN] \cup {None}]
    BY DEF IInv, TypeOK
  <2>. QED  BY <2>1, <2>2 DEF purge
<1>7. staleRequests \subseteq staleRequests' /\ staleRequests' \subseteq DeletionRequests
  BY <1>1 DEF purge, StaleRequest, IInv, TypeOK
<1>8. PICK r \in Call : Becomes(h, r)
  BY <1>5, ReturnIdle
<1>9. TypeOK'
  BY <1>1, <1>4, <1>5, <1>6, <1>7, <1>8, IdleRow DEF IInv, TypeOK, Becomes, bounds
<1>10. Grows
  BY <1>1, <1>4, <1>5, AccountAssumption DEF IInv, TypeOK, Grows, bounds
<1>11. CallsOK'
  BY <1>8, <1>9, <1>10, CallsStay DEF IInv
<1>12. \A v \in Users :
         /\ user'[v].codes \subseteq user[v].codes
         /\ user'[v].enabled => user'[v] = user[v]
  BY <1>4, <1>5, IdleRow DEF IInv, TypeOK
<1>13. CodesAreOld' /\ MfaHolds'
  BY <1>5, <1>12 DEF IInv, CodesAreOld, MfaHolds, bounds
<1>14. PurgeIsAccounted'
  <2>0. executor'[q] = call[h].by /\ call[h].by # None /\ request'[q] = row
    BY <1>1, <1>5, AccountAssumption DEF IInv, TypeOK
  <2>1. ASSUME NEW v \in purged'
        PROVE  \E p \in DeletionRequests :
                 /\ request'[p] # None /\ request'[p].target = v
                 /\ executor'[p] \notin {None, request'[p].requestedBy}
    <3>1. CASE v = u
      BY <1>1, <1>4, <2>0, <3>1
    <3>2. CASE v \in purged
      <4>1. PICK p \in DeletionRequests :
              /\ request[p] # None /\ request[p].target = v
              /\ executor[p] \notin {None, request[p].requestedBy}
        BY <3>2 DEF IInv, PurgeIsAccounted
      <4>2. p = q \/ (request'[p] = request[p] /\ executor'[p] = executor[p])
        BY <1>5, <4>1 DEF IInv, TypeOK
      <4>. QED  BY <1>1, <1>4, <2>0, <4>1, <4>2
    <3>. QED  BY <1>5, <2>1, <3>1, <3>2
  <2>2. ASSUME NEW p \in DeletionRequests \ staleRequests'
        PROVE  executor'[p] # None <=> (request'[p] # None /\ request'[p].status = "executed")
    <3>1. CASE p = q
      BY <1>4, <2>0, <3>1
    <3>2. CASE p # q
      BY <1>1, <1>5, <1>7, <3>2 DEF IInv, PurgeIsAccounted, TypeOK
    <3>. QED  BY <3>1, <3>2
  <2>. QED  BY <2>1, <2>2 DEF PurgeIsAccounted
<1>. QED  BY <1>9, <1>11, <1>13, <1>14 DEF IInv

LEMMA CancelStep ==
  ASSUME IInv, NEW h \in Handlers, cancelWrites(h)
  PROVE  IInv'
<1>. DEFINE q == call[h].of
<1>0. call[h] \in Call /\ RowOK(call[h])
  BY DEF IInv, TypeOK, CallsOK
<1>1. /\ q \in DeletionRequests /\ request[q] # None /\ call[h].status # "executed"
  BY <1>0 DEF cancelWrites, At, RowOK
<1>2. request[q] \in RequestRow
  BY <1>1 DEF IInv, TypeOK
<1>3. PICK row : row = [request[q] EXCEPT !.status = "cancelled"]
  OBVIOUS
<1>4. /\ row \in RequestRow /\ row # None
      /\ row.target = request[q].target /\ row.requestedBy = request[q].requestedBy
      /\ row.status = "cancelled"
  BY <1>2, <1>3, AccountAssumption DEF RequestRow, Status
<1>5. /\ request' = [request EXCEPT ![q] = row]
      /\ staleRequests' = IF call[h].status = request[q].status THEN staleRequests
                          ELSE staleRequests \cup {q}
      /\ Return(h)
      /\ UNCHANGED <<user, purged, session, bounds, signedIn, challenged, proven,
                     accepted, executor, staleMfa>>
  BY <1>3 DEF cancelWrites, StaleRequest
<1>6. staleRequests \subseteq staleRequests' /\ staleRequests' \subseteq DeletionRequests
  BY <1>1, <1>5 DEF IInv, TypeOK
<1>7. PICK r \in Call : Becomes(h, r)
  BY <1>5, ReturnIdle
<1>8. TypeOK'
  BY <1>4, <1>5, <1>6, <1>7 DEF IInv, TypeOK, Becomes, bounds
<1>9. Grows
  BY <1>1, <1>4, <1>5, AccountAssumption DEF IInv, TypeOK, Grows, bounds
<1>10. CallsOK'
  BY <1>7, <1>8, <1>9, CallsStay DEF IInv
<1>11. CodesAreOld' /\ MfaHolds'
  BY <1>5 DEF IInv, CodesAreOld, MfaHolds, bounds
<1>12. PurgeIsAccounted'
  <2>1. ASSUME NEW v \in purged'
        PROVE  \E p \in DeletionRequests :
                 /\ request'[p] # None /\ request'[p].target = v
                 /\ executor'[p] \notin {None, request'[p].requestedBy}
    BY <1>1, <1>4, <1>5, <2>1 DEF IInv, PurgeIsAccounted, TypeOK
  <2>2. ASSUME NEW p \in DeletionRequests \ staleRequests'
        PROVE  executor'[p] # None <=> (request'[p] # None /\ request'[p].status = "executed")
    BY <1>1, <1>4, <1>5, <1>6, <2>2 DEF IInv, PurgeIsAccounted, TypeOK
  <2>. QED  BY <2>1, <2>2 DEF PurgeIsAccounted
<1>. QED  BY <1>8, <1>10, <1>11, <1>12 DEF IInv

-----------------------------------------------------------------------------
(* The theorems.                                                           *)

LEMMA LogoutStep ==
  ASSUME IInv, NEW t \in Tokens, logout(t)
  PROVE  IInv'
<1>1. Quiet
  BY DEF logout, Quiet, IInv, TypeOK, bounds, history
<1>. QED  BY <1>1, QuietStep DEF logout

LEMMA IInvInit == Init => IInv
<1>. SUFFICES ASSUME Init
              PROVE  IInv
  OBVIOUS
<1>. USE DEF Init
<1>1. TypeOK
  BY IdleRow, AccountAssumption DEF TypeOK
<1>2. CallsOK
  BY IdleRow DEF CallsOK, RowOK, OfUser
<1>3. CodesAreOld
  BY IdleRow DEF CodesAreOld
<1>4. MfaHolds
  BY IdleRow DEF MfaHolds
<1>5. PurgeIsAccounted
  BY DEF PurgeIsAccounted
<1>. QED  BY <1>1, <1>2, <1>3, <1>4, <1>5 DEF IInv

LEMMA IInvNext == IInv /\ [Next]_vars => IInv'
<1>. SUFFICES ASSUME IInv, [Next]_vars
              PROVE  IInv'
  OBVIOUS
<1>1. ASSUME NEW h \in Handlers, SignIn(h)
      PROVE  IInv'
  BY <1>1, QuietSteps, BurnStep DEF SignIn
<1>2. ASSUME NEW h \in Handlers, Mfa(h)
      PROVE  IInv'
  BY <1>2, QuietSteps, ActivateStep DEF Mfa
<1>3. ASSUME NEW h \in Handlers, Gdpr(h)
      PROVE  IInv'
  BY <1>3, QuietSteps, PurgeStep, CancelStep DEF Gdpr
<1>4. ASSUME NEW h \in Handlers, fails(h)
      PROVE  IInv'
  BY <1>4, QuietSteps
<1>5. CASE UNCHANGED vars
  <2>1. Quiet
    BY <1>5 DEF vars, rows, history, Quiet, IInv, TypeOK
  <2>. QED  BY <1>5, <2>1, QuietStep DEF vars
<1>. QED
  BY <1>1, <1>2, <1>3, <1>4, <1>5, UserWrites, LogoutStep, RequestStep DEF Next

LEMMA IInvAlways == Spec => []IInv
BY IInvInit, IInvNext, PTL DEF Spec

\* Every variable of the accounts keeps its type, for any number of handlers
\* that overlap.
THEOREM TypeCorrect == Spec => []TypeOK
BY IInvAlways, PTL DEF IInv

\* No login, challenge or refresh that begins after the purge of its user
\* yields a token (gdpr.service.ts 19, sessions.service.ts validate).
THEOREM DeletedIsSeveredAlways == Spec => []DeletedIsSevered
<1>1. IInv => DeletedIsSevered
  BY DEF IInv, CallsOK, RowOK, DeletedIsSevered
<1>. QED  BY <1>1, IInvAlways, PTL

\* A second factor in force rests on a proven secret and a backup code opens
\* once, unless a handler overwrote a row that had changed (mfa.service.ts).
THEOREM MfaHoldsAlways == Spec => []MfaHolds
BY IInvAlways, PTL DEF IInv

\* A purge takes two administrators, and a request is marked executed exactly
\* if it was, unless a cancellation crossed it (gdpr.service.ts).
THEOREM PurgeIsAccountedAlways == Spec => []PurgeIsAccounted
BY IInvAlways, PTL DEF IInv
=============================================================================
