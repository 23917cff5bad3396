------------------------------- MODULE Accounts -------------------------------
(***************************************************************************)
(* Accounts: login with and without a second factor, refresh tokens, the   *)
(* MFA row of a user, and the GDPR purge (auth/ and users/ of the API).    *)
(*                                                                         *)
(* Nothing here is guarded by a lock or a version: a handler reads a row,  *)
(* awaits (argon2, the next query) and writes.  A handler is a slot that   *)
(* keeps what its call has read in seen, or in status.  Wrong credentials  *)
(* and TOTP codes, expired tokens and challenges, and queries that fail    *)
(* all end a call the same way, fails(h).                                  *)
(***************************************************************************)
EXTENDS Naturals, FiniteSets

CONSTANTS
  Users, Admins, Handlers,
  Tokens,            \* refresh tokens
  DeletionRequests,
  None,
  CodeCount,         \* BACKUP_CODE_COUNT, 10
  MaxSetups,         \* bounds
  MaxActivations

Status == {"pending", "executed", "cancelled"}

RequestRow == [target : Users, requestedBy : Admins, status : Status]

ASSUME AccountAssumption ==
  /\ None \notin Users \cup Admins \cup Tokens \cup DeletionRequests \cup RequestRow
  /\ CodeCount \in Nat /\ MaxSetups \in Nat /\ MaxActivations \in Nat

Secrets == 1..MaxSetups
Codes == (1..MaxActivations) \X (1..CodeCount)

VARIABLES
  user,          \* mfaSecret, mfaEnabled, mfaBackupCodes
  purged,        \* active = false and deletedAt set
  session,       \* refresh token -> user and whether it is revoked
  request,       \* UserDeletionRequest rows
  call,
  setups, activations,
  (* History. *)
  signedIn,      \* users who were given an access token
  challenged,    \* users with an mfa_challenge
  proven,        \* secrets a TOTP of which was accepted by activate
  accepted,      \* codes, and how often each one let its user in
  executor,      \* who executed each request
  staleMfa,      \* users one of whose MFA rows was written from an old read
  staleRequests  \* requests, likewise

rows == <<user, purged, session, request>>
bounds == <<setups, activations>>
history == <<signedIn, challenged, proven, accepted, executor, staleMfa, staleRequests>>
vars == <<rows, call, bounds, history>>

NoMfa == [secret |-> None, enabled |-> FALSE, codes |-> {}]

\* at: the await the handler is in; late: it began after the purge of its user.
Idle == [at |-> "idle", of |-> None, seen |-> NoMfa, status |-> "none",
         code |-> None, by |-> None, late |-> FALSE]

Init ==
  /\ user = [u \in Users |-> NoMfa]
  /\ purged = {}
  /\ session = [t \in Tokens |-> None]
  /\ request = [q \in DeletionRequests |-> None]
  /\ call = [h \in Handlers |-> Idle]
  /\ setups = [u \in Users |-> 0]
  /\ activations = [u \in Users |-> 0]
  /\ signedIn = {} /\ challenged = {}
  /\ proven = [u \in Users |-> {}]
  /\ accepted = [u \in Users |-> [c \in Codes |-> 0]]
  /\ executor = [q \in DeletionRequests |-> None]
  /\ staleMfa = {} /\ staleRequests = {}

Free(h) == call[h].at \in {"idle", "token"}
At(h, where) == call[h].at = where
Goto(h, where) == call' = [call EXCEPT ![h].at = where]
Return(h) == call' = [call EXCEPT ![h] = Idle]
Begin(h, where, id, u) ==
  call' = [call EXCEPT ![h] = [Idle EXCEPT !.at = where, !.of = id, !.late = u \in purged]]

\* The access token is signed and returned.
Token(h, u) ==
  /\ Goto(h, "token")
  /\ signedIn' = signedIn \cup {u}

fails(h) ==
  /\ ~Free(h)
  /\ Return(h)
  /\ UNCHANGED <<rows, bounds, history>>

-----------------------------------------------------------------------------
(* AuthService.login *)

\* findFirst with deletedAt: null, then user.active; argon2Verify is awaited.
login(h, u) ==
  /\ Free(h) /\ u \notin purged
  /\ call' = [call EXCEPT ![h] = [Idle EXCEPT !.at = "password", !.of = u, !.seen = user[u]]]
  /\ UNCHANGED <<rows, bounds, history>>

passwordOk(h) ==
  /\ At(h, "password")
  /\ IF call[h].seen.enabled
     THEN Return(h) /\ challenged' = challenged \cup {call[h].of}
     ELSE Goto(h, "complete") /\ UNCHANGED challenged
  /\ UNCHANGED <<rows, bounds, signedIn, proven, accepted, executor, staleMfa, staleRequests>>

\* AuthService.mfaVerify, up to its call of verifyAtLogin.
mfaVerify(h, u) ==
  /\ Free(h) /\ u \in challenged
  /\ u \notin purged
  /\ Begin(h, "mfa", u, u)
  /\ UNCHANGED <<rows, bounds, history>>

\* verifyAtLogin reads the row once more: no MFA any longer, or a right TOTP.
verifyTotp(h) ==
  /\ At(h, "mfa")
  /\ Goto(h, "complete")
  /\ UNCHANGED <<rows, bounds, history>>

verifyBackupCode(h, c) ==
  LET u == call[h].of IN
  /\ At(h, "mfa")
  /\ user[u].enabled /\ c \in user[u].codes
  /\ call' = [call EXCEPT ![h].at = "burn", ![h].seen = user[u], ![h].code = c]
  /\ UNCHANGED <<rows, bounds, history>>

Accept(u, c) == accepted' = [accepted EXCEPT ![u][c] = IF @ = 2 THEN 2 ELSE @ + 1]

WriteMfa(h, u, row) ==
  /\ user' = [user EXCEPT ![u] = row]
  /\ staleMfa' = IF call[h].seen = user[u] THEN staleMfa ELSE staleMfa \cup {u}

\* Slip: the code is accepted and stays.
burnKeeps(h) ==
  LET u == call[h].of IN
  /\ At(h, "burn")
  /\ Accept(u, call[h].code)
  /\ Goto(h, "complete")
  /\ UNCHANGED <<rows, bounds, signedIn, challenged, proven, executor, staleMfa, staleRequests>>

\* The list that was read, without the code, replaces the list that is there.
burn(h) ==
  LET u == call[h].of IN
  /\ At(h, "burn")
  /\ WriteMfa(h, u, [user[u] EXCEPT !.codes = call[h].seen.codes \ {call[h].code}])
  /\ Accept(u, call[h].code)
  /\ Goto(h, "complete")
  /\ UNCHANGED <<purged, session, request, bounds, signedIn, challenged, proven,
                 executor, staleRequests>>

\* completeLogin: the token is signed, then SessionsService.issue.
issue(h, t) ==
  /\ At(h, "complete")
  /\ session[t] = None
  /\ session' = [session EXCEPT ![t] = [of |-> call[h].of, revoked |-> FALSE]]
  /\ Goto(h, "issued")
  /\ UNCHANGED <<user, purged, request, bounds, history>>

\* lastActiveAt is written and the client gets both tokens.
completeLogin(h) ==
  /\ At(h, "issued")
  /\ Token(h, call[h].of)
  /\ UNCHANGED <<rows, bounds, challenged, proven, accepted, executor, staleMfa, staleRequests>>

-----------------------------------------------------------------------------
(* SessionsService and AuthService.refresh, logout *)

\* Slip: the session is checked, its user is not.
validateSessionOnly(h, t) ==
  /\ Free(h)
  /\ session[t] # None /\ ~session[t].revoked
  /\ Begin(h, "validated", session[t].of, session[t].of)
  /\ UNCHANGED <<rows, bounds, history>>

validate(h, t) ==
  /\ Free(h)
  /\ session[t] # None /\ ~session[t].revoked
  /\ session[t].of \notin purged
  /\ Begin(h, "validated", session[t].of, session[t].of)
  /\ UNCHANGED <<rows, bounds, history>>

refresh(h) ==
  /\ At(h, "validated")
  /\ Token(h, call[h].of)
  /\ UNCHANGED <<rows, bounds, challenged, proven, accepted, executor, staleMfa, staleRequests>>

logout(t) ==
  /\ session[t] # None /\ ~session[t].revoked
  /\ session' = [session EXCEPT ![t].revoked = TRUE]
  /\ UNCHANGED <<user, purged, request, call, bounds, history>>

-----------------------------------------------------------------------------
(* MfaService.  The guard looks at the token only: a purged user whose token *)
(* has not expired may still call these.                                     *)

setup(u) ==
  /\ u \in signedIn /\ setups[u] < MaxSetups
  /\ setups' = [setups EXCEPT ![u] = @ + 1]
  /\ user' = [user EXCEPT ![u].secret = setups[u] + 1, ![u].enabled = FALSE]
  /\ UNCHANGED <<purged, session, request, call, activations, history>>

\* Slip: one code too many, i <= BACKUP_CODE_COUNT from 0.
FreshCodesOneMore(n) == {n} \X (0..CodeCount)

FreshCodes(n) == {n} \X (1..CodeCount)

\* The secret is read and proven; ten codes are then hashed one by one.
activate(h, u) ==
  /\ Free(h) /\ u \in signedIn
  /\ user[u].secret # None /\ activations[u] < MaxActivations
  /\ call' = [call EXCEPT ![h] = [Idle EXCEPT !.at = "hashing", !.of = u, !.seen = user[u]]]
  /\ proven' = [proven EXCEPT ![u] = @ \cup {user[u].secret}]
  /\ UNCHANGED <<rows, bounds, signedIn, challenged, accepted, executor, staleMfa, staleRequests>>

activateWrites(h) ==
  LET u == call[h].of
      n == activations[u] + 1 IN
  /\ At(h, "hashing") /\ n <= MaxActivations
  /\ activations' = [activations EXCEPT ![u] = n]
  /\ WriteMfa(h, u, [user[u] EXCEPT !.enabled = TRUE, !.codes = FreshCodes(n)])
  /\ Return(h)
  /\ UNCHANGED <<purged, session, request, setups, signedIn, challenged, proven,
                 accepted, executor, staleRequests>>

disable(u) ==
  /\ u \in signedIn
  /\ user' = [user EXCEPT ![u] = NoMfa]
  /\ UNCHANGED <<purged, session, request, call, bounds, history>>

-----------------------------------------------------------------------------
(* GdprService *)

requestDeletion(q, u, a) ==
  /\ request[q] = None
  /\ request' = [request EXCEPT ![q] = [target |-> u, requestedBy |-> a, status |-> "pending"]]
  /\ UNCHANGED <<user, purged, session, call, bounds, history>>

\* Slip: whoever asked may execute.
FourEyesNot(q, a) == request[q].status = "pending"

FourEyes(q, a) == request[q].status = "pending" /\ request[q].requestedBy # a

executeDeletion(h, q, a) ==
  /\ Free(h) /\ request[q] # None
  /\ FourEyes(q, a)
  /\ call' = [call EXCEPT ![h] = [Idle EXCEPT !.at = "purging", !.of = q, !.by = a,
                                              !.status = request[q].status]]
  /\ UNCHANGED <<rows, bounds, history>>

StaleRequest(h, q) ==
  staleRequests' = IF call[h].status = request[q].status THEN staleRequests
                   ELSE staleRequests \cup {q}

\* The transaction, which does not look at the status again.
purge(h) ==
  LET q == call[h].of
      u == request[q].target IN
  /\ At(h, "purging")
  /\ session' = [t \in Tokens |->
       IF session[t] # None /\ session[t].of = u THEN [session[t] EXCEPT !.revoked = TRUE]
       ELSE session[t]]
  /\ user' = [user EXCEPT ![u] = NoMfa]
  /\ purged' = purged \cup {u}
  /\ request' = [request EXCEPT ![q].status = "executed"]
  /\ executor' = [executor EXCEPT ![q] = call[h].by]
  /\ StaleRequest(h, q)
  /\ Return(h)
  /\ UNCHANGED <<bounds, signedIn, challenged, proven, accepted, staleMfa>>

cancel(h, q) ==
  /\ Free(h) /\ request[q] # None
  /\ request[q].status # "executed"
  /\ call' = [call EXCEPT ![h] = [Idle EXCEPT !.at = "cancelling", !.of = q,
                                              !.status = request[q].status]]
  /\ UNCHANGED <<rows, bounds, history>>

cancelWrites(h) ==
  LET q == call[h].of IN
  /\ At(h, "cancelling")
  /\ request' = [request EXCEPT ![q].status = "cancelled"]
  /\ StaleRequest(h, q)
  /\ Return(h)
  /\ UNCHANGED <<user, purged, session, bounds, signedIn, challenged, proven,
                 accepted, executor, staleMfa>>

-----------------------------------------------------------------------------
SignIn(h) ==
  \/ \E u \in Users : login(h, u) \/ mfaVerify(h, u)
  \/ passwordOk(h) \/ verifyTotp(h) \/ burn(h) \/ completeLogin(h) \/ refresh(h)
  \/ \E c \in Codes : verifyBackupCode(h, c)
  \/ \E t \in Tokens : issue(h, t) \/ validate(h, t)

Mfa(h) == activateWrites(h) \/ \E u \in Users : activate(h, u)

Gdpr(h) ==
  \/ purge(h) \/ cancelWrites(h)
  \/ \E q \in DeletionRequests : cancel(h, q) \/ \E a \in Admins : executeDeletion(h, q, a)

Next ==
  \/ \E h \in Handlers : SignIn(h) \/ Mfa(h) \/ Gdpr(h) \/ fails(h)
  \/ \E u \in Users : setup(u) \/ disable(u)
  \/ \E t \in Tokens : logout(t)
  \/ \E q \in DeletionRequests, u \in Users, a \in Admins : requestDeletion(q, u, a)

Spec == Init /\ [][Next]_vars

-----------------------------------------------------------------------------
MfaRow == [secret : Secrets \cup {None}, enabled : BOOLEAN, codes : SUBSET Codes]

Call ==
  [at : {"idle", "token", "password", "mfa", "burn", "complete", "issued",
         "validated", "hashing", "purging", "cancelling"},
   of : Users \cup DeletionRequests \cup {None},
   seen : MfaRow,
   status : Status \cup {"none"},
   code : Codes \cup {None},
   by : Admins \cup {None},
   late : BOOLEAN]

TypeOK ==
  /\ user \in [Users -> MfaRow]
  /\ purged \subseteq Users
  /\ session \in [Tokens -> [of : Users, revoked : BOOLEAN] \cup {None}]
  /\ request \in [DeletionRequests -> RequestRow \cup {None}]
  /\ call \in [Handlers -> Call]
  /\ setups \in [Users -> 0..MaxSetups]
  /\ activations \in [Users -> 0..MaxActivations]
  /\ signedIn \subseteq Users /\ challenged \subseteq Users
  /\ proven \in [Users -> SUBSET Secrets]
  /\ accepted \in [Users -> [Codes -> 0..2]]
  /\ executor \in [DeletionRequests -> Admins \cup {None}]
  /\ staleMfa \subseteq Users /\ staleRequests \subseteq DeletionRequests

\* "Sever active sessions + revoke refresh tokens" (gdpr.service.ts 19): no
\* login, challenge or refresh that begins after the purge of a user yields a
\* token, not even with a session that a login under way inserted after the
\* purge had revoked the others.
DeletedIsSevered == \A h \in Handlers : ~(At(h, "token") /\ call[h].late)

\* As long as no handler overwrote a row that had changed since it was read:
\* a second factor in force rests on a secret its user has proven to hold
\* (mfa.service.ts 29, "PROVISOIRE"), and a backup code is accepted once (88).
MfaHolds ==
  \A u \in Users \ staleMfa :
    /\ user[u].enabled => user[u].secret \in proven[u]
    /\ \A c \in Codes : accepted[u][c] < 2 /\ (accepted[u][c] = 1 => c \notin user[u].codes)

\* A purge is the work of two administrators (gdpr.service.ts 72-75); and,
\* unless a cancellation crossed an execution, a request is marked executed
\* exactly if it was.
PurgeIsAccounted ==
  /\ \A u \in purged : \E q \in DeletionRequests :
       /\ request[q] # None /\ request[q].target = u
       /\ executor[q] \notin {None, request[q].requestedBy}
  /\ \A q \in DeletionRequests \ staleRequests :
       executor[q] # None <=> request[q] # None /\ request[q].status = "executed"
=============================================================================
