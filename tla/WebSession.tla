------------------------------ MODULE WebSession ------------------------------
(***************************************************************************)
(* The web client's session: calls with a bearer token that are repeated   *)
(* once after a refresh (lib/api-client.ts), and the store that bootstraps, *)
(* signs in and signs out (lib/stores/auth-store.ts).  One tab.  The token *)
(* of localStorage and that of the store are one variable: setAuthToken    *)
(* writes the first and its listener the second in the same turn.          *)
(***************************************************************************)
EXTENDS Naturals, FiniteSets

CONSTANTS Calls,
          MaxLoads         \* bound: page loads

ASSUME WebSessionAssumption == IsFiniteSet(Calls) /\ MaxLoads \in Nat

VARIABLES
  token,    \* "none", "live", or "stale": the API answers 401
  user,     \* the store holds a user
  refresh,  \* the request behind refreshPromise
  cooldown, \* lastFailedRefreshAt is recent
  call,
  alive,    \* API: the session of the refresh cookie is neither revoked nor over
  loads,
  (* History. *)
  since,    \* what the user did last: signed "in" or "out"
  excused   \* and whether something older could still undo it

session == <<token, user, refresh, cooldown, call, alive, loads, since, excused>>

NoCall == [what |-> "none", at |-> "idle", had |-> FALSE, sent |-> "none",
           retried |-> FALSE, out |-> "none"]

SessionInit ==
  /\ token = "none" /\ user = FALSE /\ refresh = "none" /\ cooldown = FALSE
  /\ call = [k \in Calls |-> NoCall] /\ alive = FALSE /\ loads = 0
  /\ since = "none" /\ excused = FALSE

Under(what) == {k \in Calls : call[k].what \in what /\ call[k].at # "idle"}

\* What can still write the store once the user has signed in or out.
Late(k) == refresh # "none" \/ Under({"boot", "me", "login", "logout"}) \ {k} # {}

-----------------------------------------------------------------------------
(* Calls *)

Sent(what, tok, rec) ==
  [rec EXCEPT !.what = what, !.at = "sent", !.sent = tok, !.had = tok # "none", !.retried = FALSE]

\* fetch with the token of the moment; loading keeps login to one at a time.
Begin(k, what) ==
  /\ call[k].at = "idle"
  /\ what = "login" => ~user /\ Under({"login"}) = {}
  /\ what = "logout" => user
  /\ call' = [call EXCEPT ![k] = Sent(what, token, NoCall)]
  /\ since' = IF what = "login" THEN "none" ELSE since
  /\ UNCHANGED <<token, user, refresh, cooldown, alive, loads, excused>>

\* The API's answer.  Without a bearer token the access cookie counts.
Answers(k) ==
  CASE call[k].what = "login" -> {"ok", "mfa", "unauthorized"}
    [] call[k].what = "logout" -> {"ok"}
    [] call[k].sent = "live" -> {"ok", "failed"}
    [] call[k].sent = "stale" -> {"unauthorized"}
    [] OTHER -> {"unauthorized"} \cup (IF alive THEN {"ok"} ELSE {})

answer(k, a) ==
  /\ call[k].at = "sent" /\ a \in Answers(k)
  /\ call' = [call EXCEPT ![k].at = a]
  /\ alive' = CASE call[k].what = "login" /\ a = "ok" -> TRUE
                [] call[k].what = "logout" -> FALSE
                [] OTHER -> alive
  /\ UNCHANGED <<token, user, refresh, cooldown, loads, since, excused>>

shouldRefreshAccessToken(k) ==
  /\ call[k].at = "unauthorized" /\ ~call[k].retried
  /\ call[k].had /\ call[k].what # "login" /\ ~cooldown

\* refreshAuthToken: whoever comes second shares the request under way.
Share == IF refresh = "none" THEN "sent" ELSE refresh

awaitRefresh(k) ==
  /\ shouldRefreshAccessToken(k)
  /\ call' = [call EXCEPT ![k].at = "refreshing"]
  /\ refresh' = Share
  /\ UNCHANGED <<token, user, cooldown, alive, loads, since, excused>>

\* Slip: logout clears the session only when the API has answered.
ClearsIfHeard(k, ok) ==
  \/ call[k].what = "logout" /\ ok
  \/ call[k].what = "me" /\ ~ok
  \/ call[k].at = "mfa"

\* A bootstrap that failed, a sign-out whether or not it was heard, and a login
\* answered with an MFA challenge: it has no token, and the store keeps that.
Clears(k, ok) ==
  \/ call[k].what = "logout"
  \/ call[k].what = "me" /\ ~ok
  \/ call[k].at = "mfa"

\* What a call ends in: reads fall back to the mocks unless it had a token.
Outcome(k, ok) ==
  IF ok THEN "data" ELSE IF call[k].what = "read" /\ ~call[k].had THEN "mock" ELSE "error"

Settled(k, ok) == [NoCall EXCEPT !.out = Outcome(k, ok)]

\* What login, logout and bootstrap write to the store.
Writes(k, ok) ==
  LET login == call[k].what = "login" /\ ok IN
  /\ token' = IF login THEN "live" ELSE IF Clears(k, ok) THEN "none" ELSE token
  /\ user' = (~Clears(k, ok) /\ (user \/ (ok /\ call[k].what \in {"login", "me"})))
  /\ since' = CASE login -> "in"
                [] call[k].at = "mfa" -> "none"
                [] call[k].what = "logout" -> "out"
                [] OTHER -> since
  /\ excused' = CASE login -> Late(k)
                  [] call[k].what = "logout" -> Late(k) \/ alive
                  [] OTHER -> excused

settle(k) ==
  /\ call[k].at \in {"ok", "mfa", "failed", "unauthorized"} /\ ~shouldRefreshAccessToken(k)
  /\ call' = [call EXCEPT ![k] = Settled(k, call[k].at = "ok")]
  /\ Writes(k, call[k].at = "ok")
  /\ UNCHANGED <<refresh, cooldown, alive, loads>>

\* The abort timer, or the network; the API may have acted on it.
abort(k) ==
  /\ call[k].at = "sent"
  /\ call' = [call EXCEPT ![k] = Settled(k, FALSE)]
  /\ Writes(k, FALSE)
  /\ alive' \in {alive, alive /\ call[k].what # "logout"}
  /\ UNCHANGED <<refresh, cooldown, loads>>

-----------------------------------------------------------------------------
(* The refresh *)

refreshAnswers ==
  /\ refresh = "sent"
  /\ refresh' \in {"denied"} \cup (IF alive THEN {"granted"} ELSE {})
  /\ UNCHANGED <<token, user, cooldown, call, alive, loads, since, excused>>

\* Those who waited repeat their call; a bootstrap that had its user is done.
Continued(k, tok) ==
  CASE call[k].at = "refreshing" -> [call[k] EXCEPT !.at = "sent", !.sent = tok, !.retried = TRUE]
    [] call[k].at = "booting" /\ call[k].had -> NoCall
    [] call[k].at = "booting" -> Sent("me", tok, NoCall)
    [] OTHER -> call[k]

refreshGranted ==
  /\ refresh = "granted"
  /\ refresh' = "none" /\ cooldown' = FALSE /\ token' = "live"
  /\ call' = [k \in Calls |-> Continued(k, "live")]
  /\ UNCHANGED <<user, alive, loads, since, excused>>

\* Denied, or given up by its own timer: those who wait end with their 401,
\* and a bootstrap clears the session.
refreshFails ==
  /\ refresh # "none"
  /\ refresh' = "none" /\ cooldown' = TRUE
  /\ LET booting == {k \in Calls : call[k].at = "booting"} IN
     /\ call' = [k \in Calls |->
                  IF call[k].at = "refreshing" THEN [call[k] EXCEPT !.at = "unauthorized", !.retried = TRUE]
                  ELSE IF k \in booting THEN NoCall ELSE call[k]]
     /\ token' = IF booting # {} THEN "none" ELSE token
     /\ user' = (user /\ booting = {})
  /\ UNCHANGED <<alive, loads, since, excused>>

-----------------------------------------------------------------------------
(* Page loads and time *)

\* The page is loaded (again): what was under way is gone, the persisted user
\* and token are read back, and Providers bootstraps.
bootstrap(k) ==
  /\ loads < MaxLoads
  /\ loads' = loads + 1
  /\ cooldown' = FALSE
  /\ refresh' = IF token = "none" THEN "sent" ELSE "none"
  /\ call' = [j \in Calls |->
               IF j # k \/ (user /\ token = "live") THEN NoCall
               ELSE IF token = "none" THEN [NoCall EXCEPT !.what = "boot", !.at = "booting", !.had = user]
               ELSE Sent("me", token, NoCall)]
  /\ excused' = (excused \/ since = "in")
  /\ \/ UNCHANGED alive
     \/ \E j \in Under({"logout"}) : call[j].at = "sent" /\ alive' = FALSE
  /\ UNCHANGED <<token, user, since>>

expires ==
  /\ token = "live" /\ token' = "stale"
  /\ call' = [k \in Calls |-> IF call[k].sent = "live" THEN [call[k] EXCEPT !.sent = "stale"] ELSE call[k]]
  /\ UNCHANGED <<user, refresh, cooldown, alive, loads, since, excused>>

sessionEnds ==
  /\ alive /\ alive' = FALSE
  /\ UNCHANGED <<token, user, refresh, cooldown, call, loads, since, excused>>

cooldownEnds ==
  /\ cooldown /\ cooldown' = FALSE
  /\ UNCHANGED <<token, user, refresh, call, alive, loads, since, excused>>

SessionNext ==
  \/ \E k \in Calls :
       \/ \E what \in {"login", "logout", "read", "write"} : Begin(k, what)
       \/ \E a \in {"ok", "mfa", "failed", "unauthorized"} : answer(k, a)
       \/ awaitRefresh(k) \/ settle(k) \/ abort(k) \/ bootstrap(k)
  \/ refreshAnswers \/ refreshGranted \/ refreshFails
  \/ expires \/ sessionEnds \/ cooldownEnds

-----------------------------------------------------------------------------
SessionTypeOK ==
  /\ token \in {"none", "live", "stale"} /\ refresh \in {"none", "sent", "granted", "denied"}
  /\ user \in BOOLEAN /\ cooldown \in BOOLEAN /\ alive \in BOOLEAN /\ excused \in BOOLEAN
  /\ call \in [Calls ->
       [what : {"none", "boot", "login", "logout", "me", "read", "write"},
        at : {"idle", "booting", "sent", "ok", "mfa", "failed", "unauthorized", "refreshing"},
        had : BOOLEAN, sent : {"none", "live", "stale"}, retried : BOOLEAN,
        out : {"none", "data", "mock", "error"}]]
  /\ loads \in 0..MaxLoads /\ since \in {"none", "in", "out"}

\* A sign-out stays one, and so does a sign-in, whatever answers were still
\* on their way (auth-store.ts 87-114, api-client.ts 168-209): unless a
\* refresh or a bootstrap was under way when it happened, the API never heard
\* of the sign-out, or, for a sign-in, the page was loaded since.
SessionFollowsTheUser ==
  /\ since = "out" /\ ~excused => token = "none" /\ ~user
  /\ since = "in" /\ ~excused => token # "none" /\ user
=============================================================================
