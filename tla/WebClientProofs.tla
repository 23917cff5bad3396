--------------------------- MODULE WebClientProofs ---------------------------
(***************************************************************************)
(* Proofs about the parts of the web client, for any number of calls,      *)
(* clicks, decisions, cameras, questions, tabs and so on.  A behaviour of  *)
(* WebClient is one of one part, the others standing still, so a part's    *)
(* invariant is inductive under that part's own steps.                     *)
(***************************************************************************)
EXTENDS WebClient, FiniteSetTheorems, SequenceTheorems, TLAPS

\* A step of the client is, for each part, a step of that part or none.
LEMMA PartStep ==
  [Next]_webClient =>
    /\ [SessionNext]_session /\ [EditorNext]_editor /\ [LiveNext]_live
    /\ [AssistantNext]_assistant /\ [DeskNext]_desk /\ [AutomationsNext]_automations
    /\ [ContentsNext]_contentsPage /\ [FeedNext]_feed /\ [MobileNext]_mobile
    /\ [PanelNext]_panel /\ [DialogNext]_dialog /\ [MediasNext]_medias
    /\ (part \in Parts => part' \in Parts)
BY DEF webClient, Next, Session, Editor, Live, Chat, Desk, Automations, Contents,
       Feed, Mobile, Panel, Dialog, Medias

\* None or one.
LEMMA FewAtMost == Cardinality({}) <= 1 /\ \A x : Cardinality({x}) <= 1
BY FS_EmptySet, FS_Singleton

-----------------------------------------------------------------------------
(* The session. *)

\* A bootstrap is a call of its own only while it waits for the refresh, and
\* the MFA challenge answers logins only.
CallShapes ==
  \A k \in Calls : /\ call[k].at = "booting" <=> call[k].what = "boot"
                   /\ call[k].at = "mfa" => call[k].what = "login"

\* Nobody is left who could undo the sign-out: no call that writes the store
\* is under way, the API's session is over and so no refresh can be granted.
OutStays ==
  since = "out" /\ ~excused =>
    /\ token = "none" /\ ~user /\ ~alive /\ refresh # "granted"
    /\ Under({"login", "logout", "me"}) = {}

\* Nobody is left who could undo the sign-in but a sign-out: no bootstrap is
\* under way, neither waiting for the refresh nor for its user.
InStays ==
  since = "in" /\ ~excused =>
    /\ token # "none" /\ user
    /\ Under({"boot", "login", "me"}) = {}

SessionInv == SessionTypeOK /\ CallShapes /\ OutStays /\ InStays

CallType ==
  [what : {"none", "boot", "login", "logout", "me", "read", "write"},
   at : {"idle", "booting", "sent", "ok", "mfa", "failed", "unauthorized", "refreshing"},
   had : BOOLEAN, sent : {"none", "live", "stale"}, retried : BOOLEAN,
   out : {"none", "data", "mock", "error"}]

\* The shape of one call, as the type invariant and CallShapes have it.
CallOK(rec) == /\ rec \in CallType
               /\ rec.at = "booting" <=> rec.what = "boot"
               /\ rec.at = "mfa" => rec.what = "login"

LEMMA CallsOK ==
  SessionTypeOK /\ CallShapes <=>
    /\ token \in {"none", "live", "stale"} /\ refresh \in {"none", "sent", "granted", "denied"}
    /\ user \in BOOLEAN /\ cooldown \in BOOLEAN /\ alive \in BOOLEAN /\ excused \in BOOLEAN
    /\ loads \in 0..MaxLoads /\ since \in {"none", "in", "out"}
    /\ call \in [Calls -> CallType] /\ \A k \in Calls : CallOK(call[k])
<1>1. SessionTypeOK <=>
        /\ token \in {"none", "live", "stale"} /\ refresh \in {"none", "sent", "granted", "denied"}
        /\ user \in BOOLEAN /\ cooldown \in BOOLEAN /\ alive \in BOOLEAN /\ excused \in BOOLEAN
        /\ loads \in 0..MaxLoads /\ since \in {"none", "in", "out"}
        /\ call \in [Calls -> CallType]
  BY Zenon DEF SessionTypeOK, CallType
<1>2. call \in [Calls -> CallType] => (CallShapes <=> \A k \in Calls : CallOK(call[k]))
  BY DEF CallShapes, CallOK
<1>. QED  BY <1>1, <1>2

\* And of the next state.
LEMMA CallsOKNext ==
  ASSUME token' \in {"none", "live", "stale"},
         refresh' \in {"none", "sent", "granted", "denied"},
         user' \in BOOLEAN, cooldown' \in BOOLEAN, alive' \in BOOLEAN, excused' \in BOOLEAN,
         loads' \in 0..MaxLoads, since' \in {"none", "in", "out"},
         call' \in [Calls -> CallType], \A k \in Calls : CallOK(call'[k])
  PROVE  SessionTypeOK' /\ CallShapes'
<1>1. SessionTypeOK'
  BY Zenon DEF SessionTypeOK, CallType
<1>2. CallShapes'
  BY DEF CallShapes, CallOK
<1>. QED  BY <1>1, <1>2

\* What SessionInv says of the variables one by one.
LEMMA SessionFields ==
  ASSUME SessionInv
  PROVE  /\ token \in {"none", "live", "stale"} /\ refresh \in {"none", "sent", "granted", "denied"}
         /\ user \in BOOLEAN /\ cooldown \in BOOLEAN /\ alive \in BOOLEAN /\ excused \in BOOLEAN
         /\ loads \in 0..MaxLoads /\ since \in {"none", "in", "out"}
         /\ call \in [Calls -> CallType] /\ \A k \in Calls : CallOK(call[k])
         /\ \A k \in Calls : call[k] \in CallType
BY CallsOK DEF SessionInv

LEMMA CallFields ==
  ASSUME NEW rec \in CallType
  PROVE  /\ rec.what \in {"none", "boot", "login", "logout", "me", "read", "write"}
         /\ rec.had \in BOOLEAN
BY DEF CallType

\* The records a call becomes.
LEMMA CallEnded == CallOK(NoCall) /\ NoCall.at = "idle" /\ NoCall.what = "none"
BY DEF CallOK, CallType, NoCall

LEMMA CallMoves ==
  ASSUME NEW rec \in CallType,
         NEW a \in {"ok", "mfa", "failed", "unauthorized", "refreshing"},
         rec.what # "boot", a = "mfa" => rec.what = "login"
  PROVE  /\ CallOK([rec EXCEPT !.at = a])
         /\ [rec EXCEPT !.at = a].what = rec.what /\ [rec EXCEPT !.at = a].at = a
<1>1. /\ [rec EXCEPT !.at = a] \in CallType
      /\ [rec EXCEPT !.at = a].what = rec.what /\ [rec EXCEPT !.at = a].at = a
  BY DEF CallType
<1>. QED  BY <1>1 DEF CallOK

LEMMA CallStarts ==
  ASSUME NEW what \in {"login", "logout", "me", "read", "write"},
         NEW t \in {"none", "live", "stale"}
  PROVE  /\ CallOK(Sent(what, t, NoCall))
         /\ Sent(what, t, NoCall).what = what /\ Sent(what, t, NoCall).at = "sent"
<1>1. NoCall \in CallType
  BY CallEnded DEF CallOK
<1>2. /\ Sent(what, t, NoCall) \in CallType
      /\ Sent(what, t, NoCall).what = what /\ Sent(what, t, NoCall).at = "sent"
  BY <1>1 DEF Sent, CallType
<1>. QED  BY <1>2 DEF CallOK

LEMMA SettledOK ==
  ASSUME NEW k \in Calls, NEW ok \in BOOLEAN
  PROVE  CallOK(Settled(k, ok)) /\ Settled(k, ok).at = "idle"
<1>1. PICK out \in {"data", "mock", "error"} : out = Outcome(k, ok)
  BY DEF Outcome
<1>2. /\ [NoCall EXCEPT !.out = out] \in CallType
      /\ [NoCall EXCEPT !.out = out].what = "none" /\ [NoCall EXCEPT !.out = out].at = "idle"
  BY CallEnded DEF CallOK, CallType
<1>. QED  BY <1>1, <1>2 DEF CallOK, Settled

LEMMA SessionInvInit == SessionInit => SessionInv
<1>. SUFFICES ASSUME SessionInit  PROVE SessionInv
  OBVIOUS
<1>1. call \in [Calls -> CallType] /\ \A k \in Calls : CallOK(call[k])
  BY CallEnded DEF SessionInit, CallOK
<1>2. SessionTypeOK /\ CallShapes
  <2>1. /\ token \in {"none", "live", "stale"} /\ refresh \in {"none", "sent", "granted", "denied"}
        /\ loads \in 0..MaxLoads /\ since \in {"none", "in", "out"}
    BY WebSessionAssumption DEF SessionInit
  <2>2. user \in BOOLEAN /\ cooldown \in BOOLEAN /\ alive \in BOOLEAN /\ excused \in BOOLEAN
    BY Zenon DEF SessionInit
  <2>. QED  BY <1>1, <2>1, <2>2, CallsOK
<1>. QED  BY <1>2 DEF SessionInit, SessionInv, OutStays, InStays

\* A step that moves one call to where it was already under way, or ends it,
\* and one that starts a read or a write, leave nobody new who could write.
LEMMA SameCall ==
  ASSUME SessionInv, NEW k \in Calls, NEW rec, CallOK(rec),
         call' = [call EXCEPT ![k] = rec],
         \/ rec.at = "idle"
         \/ rec.what \in {"read", "write"}
         \/ rec.what = call[k].what /\ call[k].at # "idle"
  PROVE  /\ call' \in [Calls -> CallType] /\ \A j \in Calls : CallOK(call'[j])
         /\ \A what : "read" \notin what /\ "write" \notin what /\ Under(what) = {}
                        => Under(what)' = {}
BY CallsOK DEF SessionInv, CallOK, Under

LEMMA SessionBegin ==
  ASSUME SessionInv, NEW k \in Calls,
         NEW what \in {"login", "logout", "read", "write"}, Begin(k, what)
  PROVE  SessionInv'
<1>. DEFINE rec == Sent(what, token, NoCall)
<1>1. /\ CallOK(rec) /\ rec.what = what /\ rec.at = "sent"
      /\ call' = [call EXCEPT ![k] = rec]
  BY CallStarts, CallsOK DEF Begin, SessionInv
<1>2. /\ call' \in [Calls -> CallType] /\ \A j \in Calls : CallOK(call'[j])
  BY <1>1, CallsOK DEF SessionInv, CallOK
<1>3. SessionTypeOK' /\ CallShapes'
  BY <1>2, SessionFields, CallsOKNext DEF Begin
<1>. HIDE DEF rec
<1>4. CASE what = "login"
  BY <1>3, <1>4 DEF Begin, SessionInv, OutStays, InStays
<1>5. CASE what = "logout"
  <2>1. ASSUME Under({"boot", "login", "me"}) = {}
        PROVE  Under({"boot", "login", "me"})' = {}
    BY <1>1, <1>5, <2>1, CallsOK DEF SessionInv, Under
  <2>. QED  BY <1>3, <1>5, <2>1 DEF Begin, SessionInv, OutStays, InStays
<1>6. CASE what \in {"read", "write"}
  BY <1>1, <1>3, <1>6, SameCall DEF Begin, SessionInv, OutStays, InStays
<1>. QED  BY <1>4, <1>5, <1>6

LEMMA SessionAnswer ==
  ASSUME SessionInv, NEW k \in Calls,
         NEW a \in {"ok", "mfa", "failed", "unauthorized"}, answer(k, a)
  PROVE  SessionInv'
<1>. DEFINE rec == [call[k] EXCEPT !.at = a]
<1>0. call[k] \in CallType /\ CallOK(call[k]) /\ call \in [Calls -> CallType]
  BY CallsOK DEF SessionInv
<1>1. call[k].what # "boot" /\ (a = "mfa" => call[k].what = "login")
  BY <1>0 DEF answer, Answers, CallOK
<1>2. /\ CallOK(rec) /\ rec.what = call[k].what /\ call[k].at # "idle"
      /\ call' = [call EXCEPT ![k] = rec]
  <2>1. call[k].at = "sent" /\ call' = [call EXCEPT ![k] = rec]
    BY Zenon DEF answer
  <2>2. a \in {"ok", "mfa", "failed", "unauthorized", "refreshing"}
    OBVIOUS
  <2>3. CallOK(rec) /\ rec.what = call[k].what
    BY <1>0, <1>1, <2>2, CallMoves, Zenon
  <2>. QED  BY <2>1, <2>3
<1>. HIDE DEF rec
<1>3. alive' \in BOOLEAN /\ (alive' => alive \/ call[k].what = "login")
  BY CallsOK DEF answer, SessionInv
<1>4. SessionTypeOK' /\ CallShapes'
  BY <1>2, <1>3, SessionFields, CallsOKNext, SameCall DEF answer
<1>5. call[k].what = "login" => Under({"login", "logout", "me"}) # {}
  BY <1>2 DEF Under
<1>. QED  BY <1>2, <1>3, <1>4, <1>5, SameCall DEF answer, SessionInv, OutStays, InStays

LEMMA SessionAwait ==
  ASSUME SessionInv, NEW k \in Calls, awaitRefresh(k)
  PROVE  SessionInv'
<1>. DEFINE rec == [call[k] EXCEPT !.at = "refreshing"]
<1>0. call[k] \in CallType /\ CallOK(call[k])
  BY CallsOK DEF SessionInv
<1>1. call[k].what # "boot" /\ call[k].at # "idle"
  BY <1>0 DEF awaitRefresh, shouldRefreshAccessToken, CallOK
<1>2. /\ CallOK(rec) /\ rec.what = call[k].what
      /\ call' = [call EXCEPT ![k] = rec]
  BY <1>0, <1>1, CallMoves DEF awaitRefresh
<1>. HIDE DEF rec
<1>3. refresh' \in {"none", "sent", "granted", "denied"}
      /\ (refresh' = "granted" => refresh = "granted")
  BY CallsOK DEF awaitRefresh, Share, SessionInv
<1>4. SessionTypeOK' /\ CallShapes'
  BY <1>2, <1>1, <1>3, SessionFields, CallsOKNext, SameCall DEF awaitRefresh
<1>. QED  BY <1>1, <1>2, <1>3, <1>4, SameCall
          DEF awaitRefresh, SessionInv, OutStays, InStays

\* A call ends: what it writes is the user's last word, or nobody's.
LEMMA SessionEndsCall ==
  ASSUME SessionInv, NEW k \in Calls, NEW ok \in BOOLEAN, call[k].at # "idle",
         call[k].what # "boot",
         call[k].at = "mfa" => ~ok,
         call' = [call EXCEPT ![k] = Settled(k, ok)], Writes(k, ok),
         alive' \in BOOLEAN, alive' => alive,
         UNCHANGED <<refresh, cooldown, loads>>
  PROVE  SessionInv'
<1>0. call[k] \in CallType /\ CallOK(call[k]) /\ call \in [Calls -> CallType]
  BY CallsOK DEF SessionInv
<1>1. CallOK(Settled(k, ok)) /\ Settled(k, ok).at = "idle"
  BY <1>0, SettledOK
<1>2. /\ token' \in {"none", "live", "stale"} /\ user' \in BOOLEAN
      /\ since' \in {"none", "in", "out"} /\ excused' \in BOOLEAN
  BY CallsOK DEF SessionInv, Writes, Clears, Late
<1>3. SessionTypeOK' /\ CallShapes'
  BY <1>1, <1>2, SessionFields, CallsOKNext, SameCall
<1>4. \A what : Under(what)' \subseteq Under(what) \ {k}
  BY <1>0, <1>1 DEF Under
<1>5. k \in Under({call[k].what})
  BY DEF Under
<1>6. CASE call[k].what = "login" /\ ok
  <2>1. since' = "in" /\ excused' = Late(k) /\ token' = "live" /\ user'
    BY <1>6 DEF Writes, Clears
  <2>2. ~excused' => Under({"boot", "login", "me"})' = {}
    <3>1. Under({"boot", "login", "me"}) \subseteq Under({"boot", "me", "login", "logout"})
      BY DEF Under
    <3>2. ~excused' => Under({"boot", "me", "login", "logout"}) \ {k} = {}
      BY <2>1 DEF Late
    <3>3. Under({"boot", "login", "me"})' \subseteq Under({"boot", "login", "me"}) \ {k}
      BY <1>4
    <3>. QED  BY <3>1, <3>2, <3>3
  <2>. QED  BY <1>3, <2>1, <2>2 DEF SessionInv, OutStays, InStays
<1>7. CASE call[k].what = "login" /\ ~ok
  <2>1. ASSUME since \in {"in", "out"}, ~excused  PROVE FALSE
    BY <1>5, <1>7, <2>1 DEF SessionInv, OutStays, InStays, Under
  <2>2. since' \in {"none", since} /\ (since' # "none" => excused' = excused)
    BY <1>7 DEF Writes
  <2>. QED  BY <1>3, <2>1, <2>2 DEF SessionInv, OutStays, InStays
<1>8. CASE call[k].what = "logout"
  <2>1. since' = "out" /\ excused' = (Late(k) \/ alive) /\ token' = "none" /\ user' = FALSE
    BY <1>0, <1>8 DEF Writes, Clears, CallOK
  <2>2. ~excused' => Under({"login", "logout", "me"})' = {} /\ refresh = "none" /\ ~alive
    <3>1. Under({"login", "logout", "me"}) \subseteq Under({"boot", "me", "login", "logout"})
      BY DEF Under
    <3>2. ~excused' => /\ Under({"boot", "me", "login", "logout"}) \ {k} = {}
                       /\ refresh = "none" /\ ~alive
      BY <2>1 DEF Late
    <3>3. Under({"login", "logout", "me"})' \subseteq Under({"login", "logout", "me"}) \ {k}
      BY <1>4
    <3>. QED  BY <3>1, <3>2, <3>3
  <2>. QED  BY <1>3, <2>1, <2>2 DEF SessionInv, OutStays, InStays
<1>9. CASE call[k].what = "me"
  <2>1. ASSUME since \in {"in", "out"}, ~excused  PROVE FALSE
    BY <1>5, <1>9, <2>1 DEF SessionInv, OutStays, InStays, Under
  <2>2. since' = since /\ excused' = excused
    BY <1>0, <1>9 DEF Writes, CallOK
  <2>. QED  BY <1>3, <2>1, <2>2 DEF SessionInv, OutStays, InStays
<1>10. CASE call[k].what \in {"none", "read", "write"}
  <2>1. UNCHANGED <<token, since, excused>> /\ user' = user
    BY <1>0, <1>10, CallsOK DEF Writes, Clears, CallOK, SessionInv
  <2>. QED  BY <1>3, <1>4, <2>1 DEF SessionInv, OutStays, InStays
<1>. QED  BY <1>0, <1>6, <1>7, <1>8, <1>9, <1>10, CallFields

LEMMA SessionSettle ==
  ASSUME SessionInv, NEW k \in Calls, settle(k) \/ abort(k)
  PROVE  SessionInv'
<1>0. call[k] \in CallType /\ CallOK(call[k]) /\ alive \in BOOLEAN
  BY CallsOK DEF SessionInv
<1>1. CASE settle(k)
  <2>1. PICK ok \in BOOLEAN : ok = (call[k].at = "ok")
    OBVIOUS
  <2>2. call[k].what # "boot" /\ call[k].at # "idle" /\ (call[k].at = "mfa" => ~ok)
    BY <1>0, <1>1, <2>1 DEF settle, CallOK
  <2>3. call' = [call EXCEPT ![k] = Settled(k, ok)] /\ Writes(k, ok)
        /\ UNCHANGED <<refresh, cooldown, loads, alive>>
    BY <1>1, <2>1 DEF settle
  <2>. QED  BY <1>0, <2>2, <2>3, SessionEndsCall
<1>2. CASE abort(k)
  <2>1. call[k].what # "boot" /\ call[k].at = "sent"
    BY <1>0, <1>2 DEF abort, CallOK
  <2>2. alive' \in BOOLEAN /\ (alive' => alive)
    BY <1>0, <1>2 DEF abort
  <2>. QED  BY <1>2, <2>1, <2>2, SessionEndsCall DEF abort
<1>. QED  BY <1>1, <1>2

LEMMA SessionBootstrap ==
  ASSUME SessionInv, NEW k \in Calls, bootstrap(k)
  PROVE  SessionInv'
<1>. DEFINE boot == [NoCall EXCEPT !.what = "boot", !.at = "booting", !.had = user]
<1>0. /\ token \in {"none", "live", "stale"} /\ user \in BOOLEAN /\ alive \in BOOLEAN
      /\ excused \in BOOLEAN /\ since \in {"none", "in", "out"} /\ loads \in 0..MaxLoads
  BY CallsOK DEF SessionInv
<1>1. CallOK(boot) /\ boot.what = "boot"
  <2>1. boot \in CallType /\ boot.what = "boot" /\ boot.at = "booting"
    BY <1>0, CallEnded DEF CallOK, CallType
  <2>. QED  BY <2>1 DEF CallOK
<1>2. /\ CallOK(Sent("me", token, NoCall))
      /\ CallOK(NoCall) /\ NoCall.what = "none"
  BY <1>0, CallStarts, CallEnded
<1>3. call' = [j \in Calls |->
                 IF j # k \/ (user /\ token = "live") THEN NoCall
                 ELSE IF token = "none" THEN boot ELSE Sent("me", token, NoCall)]
  BY DEF bootstrap
<1>. HIDE DEF boot
<1>4. \A j \in Calls : CallOK(call'[j]) /\ call'[j] \in CallType
  BY <1>1, <1>2, <1>3 DEF CallOK
<1>5. call' \in [Calls -> CallType]
  BY <1>3, <1>4
<1>6. /\ loads' \in 0..MaxLoads
      /\ refresh' \in {"none", "sent"} /\ cooldown' = FALSE
      /\ UNCHANGED <<token, user, since>>
  BY <1>0, WebSessionAssumption DEF bootstrap
<1>11. alive' \in BOOLEAN /\ (alive' => alive)
  <2>1. alive' = alive \/ alive' = FALSE
    BY Zenon DEF bootstrap
  <2>2. CASE alive' = alive
    BY <1>0, <2>2
  <2>3. CASE alive' = FALSE
    BY <2>3
  <2>. QED  BY <2>1, <2>2, <2>3
<1>12. excused' = (excused \/ since = "in") /\ excused' \in BOOLEAN
  BY <1>0 DEF bootstrap
<1>7. SessionTypeOK' /\ CallShapes'
  BY <1>0, <1>4, <1>5, <1>6, <1>11, <1>12, CallsOKNext
<1>8. token = "none" => Under({"login", "logout", "me"})' = {}
  BY <1>1, <1>2, <1>3 DEF Under
<1>9. OutStays'
  BY <1>6, <1>8, <1>11, <1>12 DEF SessionInv, OutStays
<1>10. InStays'
  BY <1>6, <1>12 DEF InStays
<1>. QED  BY <1>7, <1>9, <1>10 DEF SessionInv

LEMMA SessionGranted ==
  ASSUME SessionInv, refreshGranted
  PROVE  SessionInv'
<1>0. \A k \in Calls : call[k] \in CallType /\ CallOK(call[k])
  BY CallsOK DEF SessionInv
<1>1. ASSUME NEW k \in Calls
      PROVE  /\ CallOK(Continued(k, "live"))
             /\ \/ Continued(k, "live").what = call[k].what /\ call[k].at # "idle"
                \/ Continued(k, "live") = call[k]
                \/ Continued(k, "live").at = "idle"
                \/ call[k].what = "boot" /\ call[k].at = "booting"
  <2>1. CASE call[k].at = "refreshing"
    <3>. DEFINE rec == [call[k] EXCEPT !.at = "sent", !.sent = "live", !.retried = TRUE]
    <3>1. rec \in CallType /\ rec.what = call[k].what /\ rec.at = "sent"
      BY <1>0 DEF CallType
    <3>2. Continued(k, "live") = rec
      BY <2>1 DEF Continued
    <3>. HIDE DEF rec
    <3>. QED  BY <1>0, <2>1, <3>1, <3>2 DEF CallOK
  <2>2. CASE call[k].at = "booting"
    <3>1. Continued(k, "live") \in {NoCall, Sent("me", "live", NoCall)}
      BY <2>2 DEF Continued
    <3>2. call[k].what = "boot"
      BY <1>0, <2>2 DEF CallOK
    <3>. QED  BY <2>2, <3>1, <3>2, CallStarts, CallEnded
  <2>3. CASE call[k].at \notin {"refreshing", "booting"}
    <3>1. Continued(k, "live") = call[k]
      BY <2>3 DEF Continued
    <3>. QED  BY <1>0, <3>1
  <2>. QED  BY <2>1, <2>2, <2>3
<1>2. call' = [k \in Calls |-> Continued(k, "live")]
  BY DEF refreshGranted
<1>3. call' \in [Calls -> CallType] /\ \A k \in Calls : CallOK(call'[k])
  BY <1>1, <1>2 DEF CallOK
<1>4. SessionTypeOK' /\ CallShapes'
  BY <1>3, SessionFields, CallsOKNext DEF refreshGranted
<1>5. OutStays'
  BY DEF refreshGranted, SessionInv, OutStays
<1>6. Under({"boot", "login", "me"}) = {} => Under({"boot", "login", "me"})' = {}
  BY <1>0, <1>1, <1>2 DEF Under
<1>7. InStays'
  BY <1>6 DEF refreshGranted, SessionInv, InStays
<1>. QED  BY <1>4, <1>5, <1>7 DEF SessionInv

LEMMA SessionFails ==
  ASSUME SessionInv, refreshFails
  PROVE  SessionInv'
<1>. DEFINE booting == {k \in Calls : call[k].at = "booting"}
            next(k) == IF call[k].at = "refreshing"
                       THEN [call[k] EXCEPT !.at = "unauthorized", !.retried = TRUE]
                       ELSE IF k \in booting THEN NoCall ELSE call[k]
<1>0. /\ \A k \in Calls : call[k] \in CallType /\ CallOK(call[k])
      /\ token \in {"none", "live", "stale"} /\ user \in BOOLEAN
  BY CallsOK DEF SessionInv
<1>1. ASSUME NEW k \in Calls
      PROVE  /\ CallOK(next(k))
             /\ \/ next(k).what = call[k].what /\ call[k].at # "idle"
                \/ next(k) = call[k]
                \/ next(k).at = "idle"
  <2>1. CASE call[k].at = "refreshing"
    <3>. DEFINE rec == [call[k] EXCEPT !.at = "unauthorized", !.retried = TRUE]
    <3>1. rec \in CallType /\ rec.what = call[k].what /\ rec.at = "unauthorized"
      BY <1>0 DEF CallType
    <3>2. next(k) = rec
      BY <2>1
    <3>. HIDE DEF rec, next
    <3>. QED  BY <1>0, <2>1, <3>1, <3>2 DEF CallOK
  <2>2. CASE call[k].at # "refreshing"
    <3>1. next(k) \in {NoCall, call[k]}
      BY <2>2
    <3>. HIDE DEF next
    <3>. QED  BY <1>0, <3>1, CallEnded
  <2>. QED  BY <2>1, <2>2
<1>2. /\ call' = [k \in Calls |-> next(k)]
      /\ token' = IF booting # {} THEN "none" ELSE token
      /\ user' = (user /\ booting = {})
      /\ refresh' = "none" /\ cooldown' = TRUE /\ UNCHANGED <<alive, loads, since, excused>>
  BY DEF refreshFails
<1>. HIDE DEF next
<1>3. call' \in [Calls -> CallType] /\ \A k \in Calls : CallOK(call'[k])
  BY <1>1, <1>2 DEF CallOK
<1>4. \A what : Under(what) = {} => Under(what)' = {}
  BY <1>1, <1>2 DEF Under
<1>5. Under({"boot", "login", "me"}) = {} => booting = {}
  BY <1>0 DEF Under, CallOK
<1>. HIDE DEF booting
<1>6. SessionTypeOK' /\ CallShapes'
  <2>1. token' \in {"none", "live", "stale"} /\ user' \in BOOLEAN
    BY <1>0, <1>2
  <2>. QED  BY <1>2, <1>3, <2>1, SessionFields, CallsOKNext
<1>7. OutStays'
  BY <1>2, <1>4, <1>0 DEF SessionInv, OutStays
<1>8. InStays'
  BY <1>2, <1>4, <1>5, <1>0 DEF SessionInv, InStays
<1>. QED  BY <1>6, <1>7, <1>8 DEF SessionInv

LEMMA SessionExpires ==
  ASSUME SessionInv, expires
  PROVE  SessionInv'
<1>0. /\ \A k \in Calls : call[k] \in CallType /\ CallOK(call[k])
  BY CallsOK DEF SessionInv
<1>. DEFINE next(k) == IF call[k].sent = "live" THEN [call[k] EXCEPT !.sent = "stale"] ELSE call[k]
<1>1. ASSUME NEW k \in Calls
      PROVE  CallOK(next(k)) /\ next(k).what = call[k].what /\ next(k).at = call[k].at
  BY <1>0 DEF CallOK, CallType
<1>2. call' = [k \in Calls |-> next(k)]
  BY DEF expires
<1>. HIDE DEF next
<1>3. call' \in [Calls -> CallType] /\ \A k \in Calls : CallOK(call'[k])
  BY <1>1, <1>2 DEF CallOK
<1>4. \A what : Under(what)' = Under(what)
  BY <1>1, <1>2 DEF Under
<1>5. SessionTypeOK' /\ CallShapes'
  BY <1>3, SessionFields, CallsOKNext DEF expires
<1>. QED  BY <1>4, <1>5 DEF expires, SessionInv, OutStays, InStays

LEMMA SessionInvNext == SessionInv /\ [SessionNext]_session => SessionInv'
<1>. SUFFICES ASSUME SessionInv, [SessionNext]_session  PROVE SessionInv'
  OBVIOUS
<1>1. CASE refreshAnswers \/ sessionEnds \/ cooldownEnds
  <2>1. /\ UNCHANGED <<call, token, user, since, excused, loads>>
        /\ refresh' \in {"none", "sent", "granted", "denied"}
        /\ cooldown' \in BOOLEAN /\ alive' \in BOOLEAN /\ (alive' => alive)
        /\ (refresh' = "granted" => refresh = "granted" \/ alive)
    <3>1. CASE refreshAnswers
      BY <3>1, SessionFields DEF refreshAnswers
    <3>2. CASE sessionEnds
      BY <3>2, SessionFields DEF sessionEnds
    <3>3. CASE cooldownEnds
      BY <3>3, SessionFields DEF cooldownEnds
    <3>. QED  BY <1>1, <3>1, <3>2, <3>3
  <2>2. SessionTypeOK' /\ CallShapes'
    BY <2>1, SessionFields, CallsOKNext
  <2>3. \A what : Under(what)' = Under(what)
    BY <2>1 DEF Under
  <2>. QED  BY <2>1, <2>2, <2>3 DEF SessionInv, OutStays, InStays
<1>2. CASE UNCHANGED session
  BY <1>2 DEF session, SessionInv, SessionTypeOK, CallShapes, OutStays, InStays, Under
<1>. QED  BY <1>1, <1>2, SessionBegin, SessionAnswer, SessionAwait, SessionSettle,
             SessionBootstrap, SessionGranted, SessionFails, SessionExpires
          DEF SessionNext

LEMMA SessionAlways == Spec => []SessionInv
<1>1. Init => SessionInv
  BY SessionInvInit DEF Init
<1>2. SessionInv /\ [Next]_webClient => SessionInv'
  BY SessionInvNext, PartStep
<1>. QED  BY <1>1, <1>2, PTL DEF Spec

\* Whatever calls, refreshes and page loads overlap, a sign-out and a sign-in
\* last, but in the cases that are excused: no answer still on its way may
\* write the store against the user.
THEOREM SessionFollowsTheUserAlways == Spec => []SessionFollowsTheUser
<1>1. SessionInv => SessionFollowsTheUser
  BY DEF SessionInv, OutStays, InStays, SessionFollowsTheUser
<1>. QED  BY <1>1, SessionAlways, PTL

-----------------------------------------------------------------------------
(* The editor. *)

EditorShape ==
  /\ row \in [text : Texts \cup {"own"}, submitted : BOOLEAN]
  /\ form \in [open : BOOLEAN, text : Texts \cup {"own"}, dirty : BOOLEAN]
  /\ click \in [Clicks -> [does : {"none", "save", "autosave", "submit"},
                           at : {"idle", "sent", "ok", "refused"},
                           text : Texts \cup {"own"}, mine : BOOLEAN]]
  /\ redirects \in BOOLEAN /\ touched \in BOOLEAN /\ overlapped \in BOOLEAN

\* A redirect follows a submission, and nothing is submitted but past the gate.
Gated ==
  /\ redirects => row.submitted
  /\ \A h \in Clicks :
       /\ click[h].does = "submit" /\ click[h].at = "ok" => row.submitted
       /\ click[h].does \in {"autosave", "submit"} => Gate(click[h].text)

\* As long as nothing overlapped, at most one handler runs, with the text of
\* the form, and the row is where that handler has brought it.
OneByOne ==
  form.open /\ ~overlapped =>
    /\ \A g, h \in Running : g = h
    /\ \A h \in Running :
         /\ click[h].mine /\ click[h].text = form.text
         /\ click[h].does \in {"save", "autosave"} /\ click[h].at = "ok" =>
              row.text = form.text /\ ~row.submitted
         /\ click[h].does = "submit" /\ touched => row.text = form.text

\* The clean form, with what EditsAreKept says of it.
CleanIsKept ==
  form.open /\ touched /\ ~form.dirty /\ ~overlapped =>
    row.text = form.text /\ (row.submitted => Gate(row.text))

EditorInv == EditorShape /\ Gated /\ OneByOne /\ CleanIsKept

Marks == [does : {"none", "save", "autosave", "submit"}, at : {"idle", "sent", "ok", "refused"},
          text : Texts \cup {"own"}, mine : BOOLEAN]

\* The click that is moved, field by field; nothing but its own fields changes.
LEMMA ClickMoves ==
  ASSUME NEW rec \in Marks, NEW at \in {"idle", "sent", "ok", "refused"}
  PROVE  /\ [rec EXCEPT !.at = at] \in Marks
         /\ [rec EXCEPT !.at = at].at = at /\ [rec EXCEPT !.at = at].does = rec.does
         /\ [rec EXCEPT !.at = at].text = rec.text /\ [rec EXCEPT !.at = at].mine = rec.mine
BY DEF Marks

LEMMA EditorShapeIs ==
  EditorShape <=>
    /\ row \in [text : Texts \cup {"own"}, submitted : BOOLEAN]
    /\ form \in [open : BOOLEAN, text : Texts \cup {"own"}, dirty : BOOLEAN]
    /\ click \in [Clicks -> Marks]
    /\ redirects \in BOOLEAN /\ touched \in BOOLEAN /\ overlapped \in BOOLEAN
BY Zenon DEF EditorShape, Marks

LEMMA EditorShapeNext ==
  ASSUME row' \in [text : Texts \cup {"own"}, submitted : BOOLEAN],
         form' \in [open : BOOLEAN, text : Texts \cup {"own"}, dirty : BOOLEAN],
         click' \in [Clicks -> Marks],
         redirects' \in BOOLEAN, touched' \in BOOLEAN, overlapped' \in BOOLEAN
  PROVE  EditorShape'
BY Zenon DEF EditorShape, Marks

LEMMA NoClickOK == NoClick \in Marks /\ NoClick.at = "idle" /\ NoClick.does = "none"
BY DEF NoClick, Marks

LEMMA EditorInvInit == EditorInit => EditorInv
<1>. SUFFICES ASSUME EditorInit  PROVE EditorInv
  OBVIOUS
<1>1. form = Closed /\ form.open = FALSE
      /\ form \in [open : BOOLEAN, text : Texts \cup {"own"}, dirty : BOOLEAN]
  BY DEF EditorInit, Closed
<1>2. row \in [text : Texts \cup {"own"}, submitted : BOOLEAN]
  BY DEF EditorInit
<1>3. click \in [Clicks -> Marks] /\ \A h \in Clicks : click[h].does = "none"
  BY NoClickOK DEF EditorInit
<1>4. redirects = FALSE /\ touched = FALSE /\ overlapped = FALSE
  BY DEF EditorInit
<1>5. EditorShape
  BY <1>1, <1>2, <1>3, <1>4, EditorShapeIs
<1>. QED  BY <1>1, <1>3, <1>4, <1>5 DEF EditorInv, Gated, OneByOne, CleanIsKept

LEMMA EditorOpens ==
  ASSUME EditorInv, openEditor
  PROVE  EditorInv'
<1>1. form' \in [open : BOOLEAN, text : Texts \cup {"own"}, dirty : BOOLEAN]
  BY DEF openEditor, Texts
<1>2. EditorShape'
  BY <1>1, EditorShapeIs, EditorShapeNext DEF EditorInv, openEditor
<1>. QED  BY <1>2 DEF EditorInv, openEditor, Gated, OneByOne, CleanIsKept, Running

LEMMA EditorUnmounts ==
  ASSUME EditorInv, leaveEditor \/ redirect
  PROVE  EditorInv'
<1>0. click \in [Clicks -> Marks] /\ redirects \in BOOLEAN
  BY EditorShapeIs DEF EditorInv
<1>. DEFINE gone(h) == [click[h] EXCEPT !.mine = FALSE]
<1>1. /\ form' = Closed /\ touched' = FALSE /\ overlapped' = FALSE /\ row' = row
      /\ redirects' \in BOOLEAN /\ (redirects' => redirects)
      /\ click' = [h \in Clicks |-> gone(h)]
  <2>1. Unmount /\ row' = row
    BY DEF leaveEditor, redirect
  <2>2. redirects' \in BOOLEAN /\ (redirects' => redirects)
    <3>1. CASE leaveEditor
      BY <1>0, <3>1 DEF leaveEditor
    <3>2. CASE redirect
      BY <3>2 DEF redirect
    <3>. QED  BY <3>1, <3>2
  <2>. QED  BY <2>1, <2>2 DEF Unmount
<1>2. form'.open = FALSE /\ form' \in [open : BOOLEAN, text : Texts \cup {"own"}, dirty : BOOLEAN]
  BY <1>1 DEF Closed
<1>3. ASSUME NEW h \in Clicks
      PROVE  /\ gone(h) \in Marks /\ gone(h).does = click[h].does
             /\ gone(h).at = click[h].at /\ gone(h).text = click[h].text
  BY <1>0 DEF Marks
<1>. HIDE DEF gone
<1>4. EditorShape'
  BY <1>1, <1>2, <1>3, EditorShapeIs, EditorShapeNext DEF EditorInv
<1>. QED  BY <1>1, <1>2, <1>3, <1>4 DEF EditorInv, Gated, OneByOne, CleanIsKept

LEMMA EditorEdits ==
  ASSUME EditorInv, NEW t \in Texts, edit(t)
  PROVE  EditorInv'
<1>0. /\ form \in [open : BOOLEAN, text : Texts \cup {"own"}, dirty : BOOLEAN]
      /\ overlapped \in BOOLEAN
  BY EditorShapeIs DEF EditorInv
<1>1. /\ form' \in [open : BOOLEAN, text : Texts \cup {"own"}, dirty : BOOLEAN]
      /\ form'.dirty
  BY <1>0 DEF edit, Edited
<1>2. overlapped' \in BOOLEAN /\ (~overlapped' => Running = {})
  BY <1>0 DEF edit, Edited
<1>3. EditorShape'
  BY <1>1, <1>2, EditorShapeIs, EditorShapeNext DEF EditorInv, edit, Edited
<1>4. OneByOne'
  BY <1>2 DEF edit, OneByOne, Running
<1>5. CleanIsKept'
  BY <1>1 DEF CleanIsKept
<1>6. Gated'
  BY DEF EditorInv, Gated, edit
<1>. QED  BY <1>3, <1>4, <1>5, <1>6 DEF EditorInv

LEMMA EditorStarts ==
  ASSUME EditorInv, NEW h \in Clicks, handleSave(h) \/ handleSubmit(h)
  PROVE  EditorInv'
<1>0. /\ form \in [open : BOOLEAN, text : Texts \cup {"own"}, dirty : BOOLEAN]
      /\ click \in [Clicks -> Marks] /\ overlapped \in BOOLEAN
  BY EditorShapeIs DEF EditorInv
<1>1. PICK does \in {"save", "autosave", "submit"} :
        /\ Start(h, does)
        /\ does \in {"autosave", "submit"} => Gate(form.text)
        /\ does = "submit" => ~form.dirty
  BY DEF handleSave, handleSubmit, First
<1>. DEFINE rec == [does |-> does, at |-> "sent", text |-> form.text, mine |-> TRUE]
<1>2. /\ rec \in Marks /\ rec.does = does /\ rec.at = "sent"
      /\ rec.text = form.text /\ rec.mine
  BY <1>0 DEF Marks
<1>3. /\ click' = [click EXCEPT ![h] = rec] /\ overlapped' = (overlapped \/ Running # {})
      /\ UNCHANGED <<row, form, redirects, touched>> /\ click[h].at = "idle"
  BY <1>1 DEF Start
<1>. HIDE DEF rec
<1>4. overlapped' \in BOOLEAN /\ (~overlapped' => Running = {} /\ ~overlapped)
  BY <1>0, <1>3
<1>5. EditorShape'
  BY <1>0, <1>2, <1>3, <1>4, EditorShapeIs, EditorShapeNext DEF EditorInv
<1>6. Gated'
  BY <1>0, <1>1, <1>2, <1>3 DEF EditorInv, Gated
<1>7. ~overlapped' => Running' = {h}
  BY <1>0, <1>2, <1>3, <1>4 DEF Running
<1>8. OneByOne'
  BY <1>0, <1>1, <1>2, <1>3, <1>4, <1>7 DEF EditorInv, OneByOne, CleanIsKept
<1>9. CleanIsKept'
  BY <1>3, <1>4 DEF EditorInv, CleanIsKept
<1>. QED  BY <1>5, <1>6, <1>8, <1>9 DEF EditorInv

LEMMA EditorApplied ==
  ASSUME EditorInv, NEW h \in Clicks, applied(h)
  PROVE  EditorInv'
<1>0. /\ row \in [text : Texts \cup {"own"}, submitted : BOOLEAN]
      /\ click \in [Clicks -> Marks]
  BY EditorShapeIs DEF EditorInv
<1>. DEFINE rec == [click[h] EXCEPT !.at = "ok"]
<1>1. /\ rec \in Marks /\ rec.at = "ok" /\ rec.does = click[h].does
      /\ rec.text = click[h].text /\ rec.mine = click[h].mine
  BY <1>0, ClickMoves
<1>2. /\ click' = [click EXCEPT ![h] = rec] /\ click[h].at = "sent" /\ ~row.submitted
      /\ UNCHANGED <<form, redirects, touched, overlapped>>
  BY DEF applied
<1>3. /\ row' \in [text : Texts \cup {"own"}, submitted : BOOLEAN]
      /\ click[h].does = "submit" => row'.submitted /\ row'.text = row.text
      /\ click[h].does # "submit" => ~row'.submitted /\ row'.text = click[h].text
  BY <1>0 DEF applied, Marks
<1>. HIDE DEF rec
<1>4. EditorShape'
  BY <1>0, <1>1, <1>2, <1>3, EditorShapeIs, EditorShapeNext DEF EditorInv
<1>5. Running' = Running /\ h \in Running
  BY <1>0, <1>1, <1>2 DEF Running
<1>6. Gated'
  BY <1>0, <1>1, <1>2, <1>3 DEF EditorInv, Gated
<1>7. OneByOne'
  BY <1>0, <1>1, <1>2, <1>3, <1>5 DEF EditorInv, OneByOne, Running
<1>8. CleanIsKept'
  BY <1>0, <1>1, <1>2, <1>3, <1>5 DEF EditorInv, OneByOne, CleanIsKept, Gated, Running, Marks
<1>. QED  BY <1>4, <1>6, <1>7, <1>8 DEF EditorInv

\* An answer that is no success, and the autosave that goes on to submit.
LEMMA EditorAnswers ==
  ASSUME EditorInv, NEW h \in Clicks,
         refused(h) \/ answerLost(h) \/ autosaved(h) \/ notSubmitted(h)
  PROVE  EditorInv'
<1>0. click \in [Clicks -> Marks]
  BY EditorShapeIs DEF EditorInv
<1>1. UNCHANGED <<row, form, redirects, touched, overlapped>>
  BY DEF refused, answerLost, autosaved, notSubmitted
<1>2. PICK rec \in Marks :
        /\ click' = [click EXCEPT ![h] = rec] /\ click[h].at # "idle"
        /\ \/ rec.at = "idle" /\ rec.does = "none"
           \/ /\ rec.at = "refused" /\ rec.does = click[h].does
              /\ rec.text = click[h].text /\ rec.mine = click[h].mine
           \/ /\ rec.at = "sent" /\ rec.does = "submit"
              /\ rec.text = click[h].text /\ rec.mine = click[h].mine
              /\ click[h].at = "ok" /\ click[h].does = "autosave"
  <2>1. CASE refused(h) \/ answerLost(h)
    BY <1>0, <2>1, ClickMoves DEF refused, answerLost
  <2>2. CASE autosaved(h)
    <3>. DEFINE rec == [click[h] EXCEPT !.does = "submit", !.at = "sent"]
    <3>1. /\ rec \in Marks /\ rec.at = "sent" /\ rec.does = "submit"
          /\ rec.text = click[h].text /\ rec.mine = click[h].mine
      BY <1>0 DEF Marks
    <3>2. click' = [click EXCEPT ![h] = rec] /\ click[h].at = "ok" /\ click[h].does = "autosave"
      BY <1>0, <2>2 DEF autosaved
    <3>. HIDE DEF rec
    <3>. QED  BY <3>1, <3>2
  <2>3. CASE notSubmitted(h)
    BY <2>3, NoClickOK DEF notSubmitted
  <2>. QED  BY <2>1, <2>2, <2>3
<1>3. EditorShape'
  BY <1>0, <1>1, <1>2, EditorShapeIs, EditorShapeNext DEF EditorInv
<1>4. Gated'
  BY <1>0, <1>1, <1>2 DEF EditorInv, Gated
<1>5. Running' \subseteq Running /\ h \in Running
  BY <1>0, <1>2 DEF Running
<1>6. OneByOne'
  BY <1>0, <1>1, <1>2, <1>5 DEF EditorInv, OneByOne, Running
<1>7. CleanIsKept'
  BY <1>1 DEF EditorInv, CleanIsKept
<1>. QED  BY <1>3, <1>4, <1>6, <1>7 DEF EditorInv

\* The handler is over: what it marks clean is what the API holds.
LEMMA EditorEnds ==
  ASSUME EditorInv, NEW h \in Clicks, saved(h) \/ submitted(h)
  PROVE  EditorInv'
<1>0. /\ form \in [open : BOOLEAN, text : Texts \cup {"own"}, dirty : BOOLEAN]
      /\ click \in [Clicks -> Marks] /\ redirects \in BOOLEAN
  BY EditorShapeIs DEF EditorInv
<1>1. /\ form' \in [open : BOOLEAN, text : Texts \cup {"own"}, dirty : BOOLEAN]
      /\ form'.open = form.open /\ form'.text = form.text
      /\ form'.dirty <=> form.dirty /\ ~Clean(h)
  BY <1>0 DEF saved, submitted
<1>2. /\ click' = [click EXCEPT ![h] = NoClick] /\ UNCHANGED <<row, touched, overlapped>>
      /\ click[h].at # "idle"
      /\ redirects' \in BOOLEAN /\ (redirects' => redirects \/ row.submitted)
      /\ click[h].at = "ok" => click[h].does \in {"save", "submit"}
      /\ click[h].does = "submit" => row.submitted
  <2>1. CASE saved(h)
    BY <1>0, <2>1 DEF saved
  <2>2. CASE submitted(h)
    BY <1>0, <2>2 DEF submitted, EditorInv, Gated
  <2>. QED  BY <2>1, <2>2
<1>3. EditorShape'
  BY <1>0, <1>1, <1>2, NoClickOK, EditorShapeIs, EditorShapeNext DEF EditorInv
<1>4. Gated'
  BY <1>0, <1>2, NoClickOK DEF EditorInv, Gated
<1>5. Running' = Running \ {h} /\ h \in Running
  BY <1>0, <1>2, NoClickOK DEF Running
<1>6. OneByOne'
  BY <1>0, <1>1, <1>2, <1>5 DEF EditorInv, OneByOne, Running
<1>7. CleanIsKept'
  BY <1>0, <1>1, <1>2, <1>5 DEF EditorInv, OneByOne, CleanIsKept, Gated, Clean
<1>. QED  BY <1>3, <1>4, <1>6, <1>7 DEF EditorInv

LEMMA EditorInvNext == EditorInv /\ [EditorNext]_editor => EditorInv'
<1>. SUFFICES ASSUME EditorInv, [EditorNext]_editor  PROVE EditorInv'
  OBVIOUS
<1>1. CASE UNCHANGED editor
  BY <1>1 DEF editor, EditorInv, EditorShape, Gated, OneByOne, CleanIsKept, Running
<1>. QED  BY <1>1, EditorOpens, EditorUnmounts, EditorEdits, EditorStarts, EditorApplied,
             EditorAnswers, EditorEnds
          DEF EditorNext

\* For any number of handlers at once: a form that was edited and is no longer
\* marked dirty shows what the API holds, and what was submitted from it has
\* passed the score.
THEOREM EditsAreKeptAlways == Spec => []EditsAreKept
<1>1. Init => EditorInv
  BY EditorInvInit DEF Init
<1>2. EditorInv /\ [Next]_webClient => EditorInv'
  BY EditorInvNext, PartStep
<1>3. EditorInv => EditsAreKept
  BY DEF EditorInv, Gated, CleanIsKept, EditsAreKept
<1>. QED  BY <1>1, <1>2, <1>3, PTL DEF Spec

-----------------------------------------------------------------------------
(* The validation desk. *)

\* Who decides does so about an instance; nobody decides at published.
DeskShape ==
  /\ \A i \in Instances : step[i] # "published"
  /\ \A d \in Deciders : /\ decision[d].at # "idle" => decision[d].on \in Instances
                         /\ decision[d].at # "idle" <=> decision[d].does # "none"

\* Two decisions under way about one instance make it a stray.
Alone ==
  \A d, e \in Deciders :
    /\ d # e /\ decision[d].at # "idle" /\ decision[e].at # "idle"
    /\ decision[d].on = decision[e].on
    => decision[d].on \in strays

\* A decision about no stray is heard, and its success hides the instance.
HeardOrStray ==
  \A d \in Deciders : decision[d].at # "idle" /\ decision[d].on \notin strays =>
    decision[d].heard /\ decision[d].does \in {"validate", "reject"}

\* A list that was fetched tells where instance i is, or i is no longer shown,
\* or about to be hidden.
Tells(l, i) ==
  \/ l[i] = step[i]
  \/ i \in hidden
  \/ \E d \in Deciders : decision[d].on = i /\ decision[d].at = "ok"

ListsTell == \A i \in Instances \ strays : \A l \in {listed} \cup fetched : Tells(l, i)

DeskInv == DeskTypeOK /\ DeskShape /\ Alone /\ HeardOrStray /\ ListsTell /\ DecisionsAreAsShown

Decisions == [does : {"none", "validate", "reject", "advance", "refuse"}, on : Instances \cup {"none"},
              saw : Steps \cup {"none"}, at : {"idle", "sent", "ok"}, heard : BOOLEAN]

\* The types of the desk, with one name for the decisions'.
DeskTypes ==
  /\ role \in Role /\ route \in Routes /\ step \in [Instances -> Steps]
  /\ listed \in [Instances -> Steps] /\ fetched \subseteq [Instances -> Steps]
  /\ Cardinality(fetched) <= 1
  /\ hidden \subseteq Instances /\ sheet \subseteq Instances /\ Cardinality(sheet) <= 1
  /\ decision \in [Deciders -> Decisions] /\ strays \subseteq Instances

LEMMA DeskTypesAre == (DeskTypes <=> DeskTypeOK) /\ (DeskTypes' <=> DeskTypeOK')
BY Zenon DEF DeskTypes, DeskTypeOK, Decisions

LEMMA NoDecisionOK ==
  /\ NoDecision \in Decisions /\ NoDecision.at = "idle" /\ NoDecision.does = "none"
  /\ NoDecision.on = "none"
BY DEF NoDecision, Decisions

\* Where an approval goes: to a step of the workflow, or to its end.
LEMMA StepsGoOn ==
  ASSUME NEW s \in Steps, s # "closed", s # "published"
  PROVE  nextStep[s] \in WorkflowStep
BY DEF Steps, WorkflowStep, nextStep

LEMMA DeskInvInit == DeskInit => DeskInv
<1>. SUFFICES ASSUME DeskInit  PROVE DeskInv
  OBVIOUS
<1>1. step \in [Instances -> Steps] /\ \A i \in Instances : step[i] # "published"
  BY DEF DeskInit, Steps, WorkflowStep
<1>2. decision \in [Deciders -> Decisions] /\ \A d \in Deciders : decision[d] = NoDecision
  BY NoDecisionOK DEF DeskInit
<1>3. DeskTypes
  BY <1>1, <1>2, FewAtMost, ValidationDeskAssumption DEF DeskInit, DeskTypes, Routes
<1>4. DeskShape /\ Alone /\ HeardOrStray /\ DecisionsAreAsShown
  BY <1>1, <1>2, NoDecisionOK DEF DeskShape, Alone, HeardOrStray, DecisionsAreAsShown
<1>5. ListsTell
  BY DEF DeskInit, ListsTell, Tells
<1>. QED  BY <1>3, <1>4, <1>5, DeskTypesAre DEF DeskInv

\* A decision is sent: about an instance as its list shows it, or as a stray.
LEMMA DeskDecides ==
  ASSUME DeskInv, NEW d \in Deciders, NEW i \in Instances,
         NEW does \in {"validate", "reject", "advance", "refuse"},
         NEW saw \in Steps \cup {"none"},
         does \in {"advance", "refuse"} => route = "workflows",
         saw # "none" => saw = listed[i] /\ i \notin hidden,
         Decide(d, does, i, saw), sheet' \subseteq sheet, Cardinality(sheet') <= 1
  PROVE  DeskInv'
<1>0. DeskTypes
  BY DeskTypesAre DEF DeskInv
<1>. DEFINE new == [does |-> does, on |-> i, saw |-> saw, at |-> "sent", heard |-> TRUE]
            old(e) == [decision[e] EXCEPT !.heard = @ /\ decision[e].does # does]
<1>1. /\ decision' = [e \in Deciders |-> IF e = d THEN new ELSE old(e)]
      /\ UNCHANGED <<role, route, step, listed, fetched, hidden>> /\ decision[d].at = "idle"
      /\ strays' = strays \cup {decision[e].on : e \in {e \in Deciders : decision[e].does = does}}
                     \cup (IF route = "workflows" \/ UnderWay(i) # {} THEN {i} ELSE {})
  BY DEF Decide
<1>2. /\ new \in Decisions /\ new.does = does /\ new.on = i /\ new.saw = saw
      /\ new.at = "sent" /\ new.heard
  BY DEF Decisions
<1>3. ASSUME NEW e \in Deciders
      PROVE  /\ old(e) \in Decisions /\ old(e).does = decision[e].does /\ old(e).on = decision[e].on
             /\ old(e).saw = decision[e].saw /\ old(e).at = decision[e].at
             /\ (decision[e].heard /\ decision[e].does # does => old(e).heard)
  BY <1>0 DEF DeskTypes, Decisions
<1>. HIDE DEF new, old
<1>4. /\ strays \subseteq strays' /\ strays' \subseteq Instances
      /\ \A e \in Deciders : decision[e].does = does => decision[e].on \in strays'
      /\ (route = "workflows" => i \in strays')
      /\ \A e \in Deciders : decision[e].on = i => i \in strays'
  <2>1. \A e \in Deciders : decision[e].does = does => decision[e].on \in Instances
    BY DEF DeskInv, DeskShape
  <2>2. \A e \in Deciders : decision[e].on = i => UnderWay(i) # {}
    BY DEF UnderWay
  <2>. QED  BY <1>0, <1>1, <2>1, <2>2 DEF DeskTypes
<1>5. DeskTypes'
  BY <1>0, <1>1, <1>2, <1>3, <1>4 DEF DeskTypes
<1>6. DeskShape'
  BY <1>1, <1>2, <1>3 DEF DeskInv, DeskShape
<1>7. Alone'
  BY <1>1, <1>2, <1>3, <1>4 DEF DeskInv, Alone
<1>8. HeardOrStray'
  BY <1>1, <1>2, <1>3, <1>4 DEF DeskInv, HeardOrStray
<1>9. ListsTell'
  BY <1>1, <1>3, <1>4 DEF DeskInv, ListsTell, Tells
<1>10. i \notin strays' /\ saw # "none" => step[i] = saw
  BY <1>4 DEF DeskInv, ListsTell, Tells
<1>11. DecisionsAreAsShown'
  BY <1>1, <1>2, <1>3, <1>4, <1>10 DEF DeskInv, DecisionsAreAsShown
<1>. QED  BY <1>5, <1>6, <1>7, <1>8, <1>9, <1>11, DeskTypesAre DEF DeskInv

LEMMA DeskMutates ==
  ASSUME DeskInv, NEW d \in Deciders, NEW i \in Instances,
         \/ handleQuickValidate(d, i)
         \/ \E does \in {"validate", "reject"} : performFromSheet(d, i, does)
         \/ \E does \in {"advance", "refuse"} : handleAdvance(d, i, does)
  PROVE  DeskInv'
<1>0. DeskTypes
  BY DeskTypesAre DEF DeskInv
<1>1. listed[i] \in Steps /\ (i \in list => i \notin hidden)
  BY <1>0 DEF DeskTypes, list
<1>2. CASE handleQuickValidate(d, i)
  BY <1>0, <1>1, <1>2, DeskDecides DEF handleQuickValidate, DeskTypes
<1>3. ASSUME NEW does \in {"validate", "reject"}, performFromSheet(d, i, does)
      PROVE  DeskInv'
  BY <1>0, <1>1, <1>3, DeskDecides, FewAtMost DEF performFromSheet
<1>4. ASSUME NEW does \in {"advance", "refuse"}, handleAdvance(d, i, does)
      PROVE  DeskInv'
  BY <1>0, <1>4, DeskDecides DEF handleAdvance, DeskTypes
<1>. QED  BY <1>2, <1>3, <1>4

\* The API decides at the step of the moment; whoever else was about to decide
\* about the instance makes it a stray.
LEMMA DeskApplied ==
  ASSUME DeskInv, NEW d \in Deciders, applied_(d)
  PROVE  DeskInv'
<1>0. DeskTypes
  BY DeskTypesAre DEF DeskInv
<1>. DEFINE i == decision[d].on
            rec == [decision[d] EXCEPT !.at = "ok"]
<1>1. /\ decision[d].at = "sent" /\ step[i] # "closed"
      /\ step' = [step EXCEPT ![i] = StepAfter(d, i)] /\ decision' = [decision EXCEPT ![d] = rec]
      /\ UNCHANGED <<role, route, listed, fetched, hidden, sheet, strays>>
  BY Zenon DEF applied_
<1>2. /\ rec \in Decisions /\ rec.at = "ok" /\ rec.does = decision[d].does
      /\ rec.on = i /\ rec.heard = decision[d].heard
  BY <1>0 DEF DeskTypes, Decisions
<1>3. i \in Instances
  BY <1>1 DEF DeskInv, DeskShape
<1>. HIDE DEF i, rec
<1>4. StepAfter(d, i) \in Steps /\ StepAfter(d, i) # "published"
  BY <1>0, <1>1, <1>3, StepsGoOn DEF StepAfter, DeskTypes, DeskInv, DeskShape, Steps
<1>5. DeskTypes'
  BY <1>0, <1>1, <1>2, <1>4 DEF DeskTypes
<1>6. DeskShape'
  BY <1>0, <1>1, <1>2, <1>3, <1>4 DEF DeskInv, DeskShape, DeskTypes
<1>7. Alone'
  BY <1>0, <1>1, <1>2 DEF DeskInv, Alone, DeskTypes, i
<1>8. HeardOrStray'
  BY <1>0, <1>1, <1>2 DEF DeskInv, HeardOrStray, DeskTypes, i
<1>9. ListsTell'
  BY <1>0, <1>1, <1>2 DEF DeskInv, ListsTell, Tells, DeskTypes, i
<1>10. DecisionsAreAsShown'
  BY <1>0, <1>1, <1>2, <1>3 DEF DeskInv, DecisionsAreAsShown, Alone, DeskTypes, i
<1>. QED  BY <1>5, <1>6, <1>7, <1>8, <1>9, <1>10, DeskTypesAre DEF DeskInv

LEMMA DeskAnswered ==
  ASSUME DeskInv, NEW d \in Deciders, onSuccess_(d) \/ onError_(d)
  PROVE  DeskInv'
<1>0. DeskTypes
  BY DeskTypesAre DEF DeskInv
<1>1. /\ decision' = [decision EXCEPT ![d] = NoDecision] /\ decision[d].at # "idle"
      /\ UNCHANGED <<role, route, step, listed, fetched, sheet>>
  BY DEF onSuccess_, onError_
<1>2. decision[d].on \in Instances
  BY <1>1 DEF DeskInv, DeskShape
<1>3. /\ hidden \subseteq hidden' /\ hidden' \subseteq Instances
      /\ strays \subseteq strays' /\ strays' \subseteq Instances
      /\ decision[d].at = "ok" => decision[d].on \in hidden' \cup strays'
  <2>1. CASE onSuccess_(d)
    BY <1>0, <1>1, <1>2, <2>1 DEF onSuccess_, Hidden, DeskTypes, DeskInv, HeardOrStray
  <2>2. CASE onError_(d)
    BY <1>0, <1>1, <1>2, <2>2 DEF onError_, DeskTypes
  <2>. QED  BY <2>1, <2>2
<1>4. DeskTypes'
  BY <1>0, <1>1, <1>3, NoDecisionOK DEF DeskTypes
<1>5. DeskShape'
  BY <1>0, <1>1, NoDecisionOK DEF DeskInv, DeskShape, DeskTypes
<1>6. Alone' /\ HeardOrStray' /\ DecisionsAreAsShown'
  BY <1>0, <1>1, <1>3, NoDecisionOK
     DEF DeskInv, Alone, HeardOrStray, DecisionsAreAsShown, DeskTypes
<1>7. ListsTell'
  BY <1>0, <1>1, <1>3, NoDecisionOK DEF DeskInv, ListsTell, Tells, DeskTypes
<1>. QED  BY <1>4, <1>5, <1>6, <1>7, DeskTypesAre DEF DeskInv

\* The callbacks go with the page, and so what was under way makes strays.
LEMMA DeskNavigates ==
  ASSUME DeskInv, NEW p \in Routes, navigate(p)
  PROVE  DeskInv'
<1>0. DeskTypes
  BY DeskTypesAre DEF DeskInv
<1>. DEFINE deaf(d) == [decision[d] EXCEPT !.heard = FALSE]
<1>1. /\ decision' = [d \in Deciders |-> deaf(d)] /\ route' = p /\ sheet' = {}
      /\ strays' = strays \cup {i \in Instances : UnderWay(i) # {}}
      /\ UNCHANGED <<role, step, listed, fetched, hidden>>
  BY DEF navigate
<1>2. ASSUME NEW d \in Deciders
      PROVE  /\ deaf(d) \in Decisions /\ deaf(d).does = decision[d].does /\ deaf(d).on = decision[d].on
             /\ deaf(d).saw = decision[d].saw /\ deaf(d).at = decision[d].at
  BY <1>0 DEF DeskTypes, Decisions
<1>. HIDE DEF deaf
<1>3. \A d \in Deciders : decision[d].at # "idle" => decision[d].on \in strays'
  BY <1>1 DEF DeskInv, DeskShape, UnderWay
<1>4. DeskTypes'
  BY <1>0, <1>1, <1>2, FewAtMost DEF DeskTypes
<1>5. DeskShape' /\ Alone' /\ HeardOrStray' /\ DecisionsAreAsShown'
  BY <1>1, <1>2, <1>3 DEF DeskInv, DeskShape, Alone, HeardOrStray, DecisionsAreAsShown
<1>6. ListsTell'
  BY <1>1, <1>2 DEF DeskInv, ListsTell, Tells
<1>. QED  BY <1>4, <1>5, <1>6, DeskTypesAre DEF DeskInv

LEMMA DeskElsewhere ==
  ASSUME DeskInv, NEW i \in Instances, decidedElsewhere(i)
  PROVE  DeskInv'
<1>0. DeskTypes
  BY DeskTypesAre DEF DeskInv
<1>1. nextStep[step[i]] \in Steps /\ nextStep[step[i]] # "published"
  BY <1>0, StepsGoOn DEF decidedElsewhere, DeskTypes, DeskInv, DeskShape, Steps
<1>2. /\ step' = [step EXCEPT ![i] = nextStep[step[i]]] /\ strays' = strays \cup {i}
      /\ UNCHANGED <<role, route, listed, fetched, hidden, sheet, decision>>
  BY DEF decidedElsewhere
<1>3. DeskTypes'
  BY <1>0, <1>1, <1>2 DEF DeskTypes
<1>4. DeskShape' /\ Alone' /\ HeardOrStray' /\ DecisionsAreAsShown'
  BY <1>0, <1>1, <1>2 DEF DeskInv, DeskShape, Alone, HeardOrStray, DecisionsAreAsShown, DeskTypes
<1>5. ListsTell'
  BY <1>0, <1>2 DEF DeskInv, ListsTell, Tells, DeskTypes
<1>. QED  BY <1>3, <1>4, <1>5, DeskTypesAre DEF DeskInv

\* The lists that are fetched, and the sheet.
LEMMA DeskReads ==
  ASSUME DeskInv, refetch \/ shown_ \/ closeSheet \/ \E i \in Instances : openSheet(i)
  PROVE  DeskInv'
<1>0. DeskTypes
  BY DeskTypesAre DEF DeskInv
<1>1. UNCHANGED <<role, route, step, hidden, decision, strays>>
  BY DEF refetch, shown_, closeSheet, openSheet
<1>2. /\ {listed'} \cup fetched' \subseteq {listed, step} \cup fetched
      /\ Cardinality(fetched') <= 1
      /\ sheet' \subseteq Instances /\ Cardinality(sheet') <= 1
  <2>1. CASE refetch
    BY <1>0, <2>1, FewAtMost DEF refetch, DeskTypes
  <2>2. CASE shown_
    BY <1>0, <2>2, FewAtMost DEF shown_, DeskTypes
  <2>3. CASE closeSheet
    BY <1>0, <2>3, FewAtMost DEF closeSheet, DeskTypes
  <2>4. ASSUME NEW i \in Instances, openSheet(i)
        PROVE  /\ UNCHANGED <<listed, fetched>>
               /\ sheet' \subseteq Instances /\ Cardinality(sheet') <= 1
    BY <2>4, FewAtMost DEF openSheet
  <2>. QED  BY <1>0, <2>1, <2>2, <2>3, <2>4 DEF DeskTypes
<1>3. DeskTypes'
  BY <1>0, <1>1, <1>2 DEF DeskTypes
<1>4. DeskShape' /\ Alone' /\ HeardOrStray' /\ DecisionsAreAsShown'
  BY <1>1 DEF DeskInv, DeskShape, Alone, HeardOrStray, DecisionsAreAsShown
<1>5. ListsTell'
  BY <1>1, <1>2 DEF DeskInv, ListsTell, Tells
<1>. QED  BY <1>3, <1>4, <1>5, DeskTypesAre DEF DeskInv

LEMMA DeskInvNext == DeskInv /\ [DeskNext]_desk => DeskInv'
<1>. SUFFICES ASSUME DeskInv, [DeskNext]_desk  PROVE DeskInv'
  OBVIOUS
<1>1. CASE UNCHANGED desk
  BY <1>1 DEF desk, DeskInv, DeskTypeOK, DeskShape, Alone, HeardOrStray, ListsTell, Tells,
              DecisionsAreAsShown
<1>. QED  BY <1>1, DeskMutates, DeskApplied, DeskAnswered, DeskNavigates, DeskElsewhere, DeskReads
          DEF DeskNext

\* For any number of contents and of decisions under way: a decision on its way
\* from the home page reaches the step it displayed, but for the strays.
THEOREM DecisionsAreAsShownAlways == Spec => []DecisionsAreAsShown
<1>1. Init => DeskInv
  BY DeskInvInit DEF Init
<1>2. DeskInv /\ [Next]_webClient => DeskInv'
  BY DeskInvNext, PartStep
<1>3. DeskInv => DecisionsAreAsShown
  BY DEF DeskInv
<1>. QED  BY <1>1, <1>2, <1>3, PTL DEF Spec

-----------------------------------------------------------------------------
(* The live page. *)

\* The last word of the events on their way, or of those delivered when none
\* tells of playing or pausing, is what the element does.
LastWord ==
  /\ \A i \in 1..Len(events) :
       events[i] # "error" /\ (\A j \in i + 1 .. Len(events) : events[j] = "error")
         => (events[i] = "play" <=> ~video.paused)
  /\ began /\ (\A i \in 1..Len(events) : events[i] = "error") => (isPlaying <=> ~video.paused)

LiveInv ==
  /\ LiveTypeOK
  /\ ~switched => LastWord /\ video.muted = muted /\ video.volume = volume

LEMMA LiveInvInit == LiveInit => LiveInv
<1>. SUFFICES ASSUME LiveInit  PROVE LiveInv
  OBVIOUS
<1>1. /\ isStreaming \in BOOLEAN /\ isPlaying \in BOOLEAN /\ muted \in BOOLEAN /\ isPip \in BOOLEAN
      /\ videoError \in BOOLEAN /\ began \in BOOLEAN /\ switched \in BOOLEAN
  BY Zenon DEF LiveInit
<1>2. /\ video \in [paused : BOOLEAN, muted : BOOLEAN, volume : Volumes, failed : BOOLEAN]
      /\ video.muted /\ video.volume = 6
  BY DEF LiveInit, Volumes
<1>3. /\ events \in Seq({"play", "pause", "error"}) /\ Len(events) = 0 /\ chat \in 1..MaxChat + 1
      /\ volume = 6 /\ volume \in Volumes /\ activeCamera \in Cameras
  BY LivePageAssumption DEF LiveInit, Volumes
<1>4. muted /\ ~began
  BY DEF LiveInit
<1>. QED  BY <1>1, <1>2, <1>3, <1>4 DEF LiveInv, LiveTypeOK, LastWord

VideoStates == [paused : BOOLEAN, muted : BOOLEAN, volume : Volumes, failed : BOOLEAN]
Reports == {"play", "pause", "error"}

\* The types of what the events are about, and of the rest.
LiveTypes ==
  /\ video \in VideoStates /\ events \in Seq(Reports) /\ isPlaying \in BOOLEAN
  /\ began \in BOOLEAN /\ switched \in BOOLEAN

LiveOthers ==
  /\ isStreaming \in BOOLEAN /\ muted \in BOOLEAN /\ isPip \in BOOLEAN
  /\ volume \in Volumes /\ activeCamera \in Cameras /\ videoError \in BOOLEAN
  /\ chat \in 1..MaxChat + 1

LEMMA LiveTypesAre ==
  (LiveTypes /\ LiveOthers <=> LiveTypeOK) /\ (LiveTypes' /\ LiveOthers' <=> LiveTypeOK')
BY Zenon DEF LiveTypes, LiveOthers, LiveTypeOK, VideoStates, Reports

\* An event comes last: then it is the last word, or an error.
LEMMA OneMoreEvent ==
  ASSUME LiveTypes, NEW e \in Reports
  PROVE  /\ Append(events, e) \in Seq(Reports)
         /\ Len(Append(events, e)) = Len(events) + 1 /\ Len(events) \in Nat
         /\ \A i \in 1..Len(events) : Append(events, e)[i] = events[i]
         /\ Append(events, e)[Len(events) + 1] = e
BY AppendProperties DEF LiveTypes

\* The element turns to pausing, or to playing, and reports it if it did not.
LEMMA LiveTurns ==
  ASSUME LiveInv, LiveOthers', UNCHANGED <<isPlaying, muted, volume, began, switched>>,
         NEW p \in BOOLEAN, NEW e \in Reports, p => e = "pause", ~p => e = "play",
         video' = [video EXCEPT !.paused = p],
         \/ (video.paused <=> p) /\ events' = events
         \/ events' = Emitted(e)
  PROVE  LiveInv'
<1>0. LiveTypes
  BY LiveTypesAre DEF LiveInv
<1>2. /\ video' \in VideoStates /\ (video'.paused <=> p) /\ (video'.muted <=> video.muted)
      /\ video'.volume = video.volume
  BY <1>0 DEF LiveTypes, VideoStates
<1>3. events' \in Seq(Reports)
  BY <1>0, OneMoreEvent DEF Emitted, LiveTypes
<1>4. LiveTypeOK'
  BY <1>0, <1>2, <1>3, LiveTypesAre DEF LiveTypes
<1>5. ASSUME ~switched
      PROVE  LastWord'
  <2>1. CASE (video.paused <=> p) /\ events' = events
    BY <1>2, <1>5, <2>1 DEF LiveInv, LastWord
  <2>2. CASE events' = Append(events, e)
    <3>1. /\ Len(events') = Len(events) + 1 /\ Len(events) \in Nat
          /\ events'[Len(events) + 1] = e /\ e # "error" /\ (e = "play" <=> ~p)
      BY <1>0, <2>2, OneMoreEvent
    <3>2. \A i \in 1..Len(events') :
            i = Len(events) + 1 \/ Len(events) + 1 \in i + 1 .. Len(events')
      BY <3>1
    <3>. QED  BY <1>2, <3>1, <3>2 DEF LastWord
  <2>. QED  BY <1>5, <2>1, <2>2 DEF Emitted
<1>6. ~switched' => (video'.muted <=> muted') /\ video'.volume = volume'
  BY <1>2 DEF LiveInv
<1>. QED  BY <1>4, <1>5, <1>6 DEF LiveInv

LEMMA LivePlays ==
  ASSUME LiveInv, Plays \/ Pauses, LiveOthers', UNCHANGED <<isPlaying, muted, volume, began, switched>>
  PROVE  LiveInv'
<1>1. "play" \in Reports /\ "pause" \in Reports
  BY DEF Reports
<1>2. CASE Plays
  <2>1. /\ video' = [video EXCEPT !.paused = FALSE]
        /\ ((video.paused <=> FALSE) /\ events' = events) \/ events' = Emitted("play")
    BY <1>2 DEF Plays
  <2>. QED  BY <1>1, <2>1, LiveTurns
<1>3. CASE Pauses
  <2>1. /\ video' = [video EXCEPT !.paused = TRUE]
        /\ ((video.paused <=> TRUE) /\ events' = events) \/ events' = Emitted("pause")
    BY <1>3 DEF Pauses
  <2>. QED  BY <1>1, <2>1, LiveTurns
<1>. QED  BY <1>2, <1>3

\* An error says nothing of playing.
LEMMA LiveFails ==
  ASSUME LiveInv, sourceFails
  PROVE  LiveInv'
<1>0. LiveTypes /\ LiveOthers
  BY LiveTypesAre DEF LiveInv
<1>1. /\ video' = [video EXCEPT !.failed = TRUE] /\ events' = Emitted("error")
      /\ UNCHANGED <<isStreaming, isPlaying, muted, volume, activeCamera, isPip, videoError,
                     chat, began, switched>>
  BY DEF sourceFails
<1>2. /\ video' \in VideoStates /\ (video'.paused <=> video.paused)
      /\ (video'.muted <=> video.muted) /\ video'.volume = video.volume
  BY <1>0, <1>1 DEF LiveTypes, VideoStates
<1>3. /\ Append(events, "error") \in Seq(Reports)
      /\ Len(Append(events, "error")) = Len(events) + 1 /\ Len(events) \in Nat
      /\ \A i \in 1..Len(events) : Append(events, "error")[i] = events[i]
      /\ Append(events, "error")[Len(events) + 1] = "error"
  BY <1>0, OneMoreEvent DEF Reports
<1>4. events' \in Seq(Reports)
  BY <1>0, <1>1, <1>3 DEF Emitted, LiveTypes
<1>5. LiveTypeOK'
  BY <1>0, <1>1, <1>2, <1>4, LiveTypesAre DEF LiveTypes, LiveOthers
<1>6. ASSUME ~switched
      PROVE  LastWord'
  <2>1. events' = Append(events, "error")
    BY <1>1, <1>6 DEF Emitted
  <2>2. LastWord
    BY <1>6 DEF LiveInv
  <2>3. ASSUME NEW i \in 1..Len(events'), events'[i] # "error",
               \A j \in i + 1 .. Len(events') : events'[j] = "error"
        PROVE  events'[i] = "play" <=> ~video'.paused
    <3>1. i \in 1..Len(events) /\ events'[i] = events[i]
      BY <1>3, <2>1, <2>3
    <3>2. \A j \in i + 1 .. Len(events) : events[j] = "error"
      BY <1>3, <2>1, <2>3
    <3>. QED  BY <1>2, <2>2, <2>3, <3>1, <3>2 DEF LastWord
  <2>4. (\A i \in 1..Len(events') : events'[i] = "error")
          => \A i \in 1..Len(events) : events[i] = "error"
    BY <1>3, <2>1
  <2>. QED  BY <1>1, <1>2, <2>2, <2>3, <2>4 DEF LastWord
<1>. QED  BY <1>1, <1>2, <1>5, <1>6 DEF LiveInv

\* The oldest event is heard: if it was the last word, the page has it now.
LEMMA LiveHears ==
  ASSUME LiveInv, onEvent
  PROVE  LiveInv'
<1>0. LiveTypes /\ LiveOthers
  BY LiveTypesAre DEF LiveInv
<1>1. /\ events # <<>> /\ events' = Tail(events) /\ isPlaying' = Playing(Head(events))
      /\ UNCHANGED <<isStreaming, muted, volume, activeCamera, isPip, chat, video, switched>>
      /\ began' = (began \/ Head(events) # "error")
      /\ videoError' = (videoError \/ Head(events) = "error")
  BY DEF onEvent
<1>2. /\ Head(events) = events[1] /\ Head(events) \in Reports /\ Len(events) \in Nat \ {0}
      /\ Tail(events) \in Seq(Reports) /\ Len(Tail(events)) = Len(events) - 1
      /\ \A i \in 1..Len(Tail(events)) : Tail(events)[i] = events[i + 1]
  BY <1>0, <1>1, HeadTailProperties, EmptySeq DEF LiveTypes
<1>3. isPlaying' \in BOOLEAN /\ began' \in BOOLEAN /\ videoError' \in BOOLEAN
  BY <1>0, <1>1 DEF Playing, LiveTypes, LiveOthers
<1>4. LiveTypeOK'
  BY <1>0, <1>1, <1>2, <1>3, LiveTypesAre DEF LiveTypes, LiveOthers
<1>5. ASSUME ~switched
      PROVE  LastWord'
  <2>1. LastWord
    BY <1>5 DEF LiveInv
  <2>2. ASSUME NEW i \in 1..Len(events'), events'[i] # "error",
               \A j \in i + 1 .. Len(events') : events'[j] = "error"
        PROVE  events'[i] = "play" <=> ~video'.paused
    <3>1. i + 1 \in 1..Len(events) /\ events'[i] = events[i + 1]
      BY <1>1, <1>2
    <3>2. ASSUME NEW j \in (i + 1) + 1 .. Len(events)
          PROVE  events[j] = "error"
      <4>1. j - 1 \in i + 1 .. Len(events') /\ j - 1 \in 1..Len(events') /\ (j - 1) + 1 = j
        BY <1>1, <1>2
      <4>2. events'[j - 1] = events[(j - 1) + 1]
        BY <1>1, <1>2, <4>1
      <4>. QED  BY <2>2, <4>1, <4>2
    <3>. QED  BY <1>1, <2>1, <2>2, <3>1, <3>2 DEF LastWord
  <2>3. ASSUME began', \A i \in 1..Len(events') : events'[i] = "error"
        PROVE  isPlaying' <=> ~video'.paused
    <3>1. ASSUME NEW j \in 1 + 1 .. Len(events)
          PROVE  events[j] = "error"
      <4>1. j - 1 \in 1..Len(events') /\ (j - 1) + 1 = j
        BY <1>1, <1>2
      <4>2. events'[j - 1] = events[(j - 1) + 1]
        BY <1>1, <1>2, <4>1
      <4>. QED  BY <2>3, <4>1, <4>2
    <3>2. CASE Head(events) = "error"
      <4>1. \A i \in 1..Len(events) : events[i] = "error"
        <5>. SUFFICES ASSUME NEW i \in 1..Len(events)  PROVE events[i] = "error"
          OBVIOUS
        <5>1. i = 1 \/ i \in 1 + 1 .. Len(events)
          BY <1>2
        <5>. QED  BY <1>2, <3>1, <3>2, <5>1
      <4>2. began /\ isPlaying' = isPlaying
        BY <1>1, <2>3, <3>2 DEF Playing
      <4>. QED  BY <1>1, <2>1, <4>1, <4>2 DEF LastWord
    <3>3. CASE Head(events) # "error"
      <4>1. events[1] = "play" <=> ~video.paused
        BY <1>2, <2>1, <3>1, <3>3 DEF LastWord
      <4>2. isPlaying' <=> Head(events) = "play"
        BY <1>1, <1>2, <3>3 DEF Playing, Reports
      <4>. QED  BY <1>1, <1>2, <4>1, <4>2
    <3>. QED  BY <3>2, <3>3
  <2>. QED  BY <2>2, <2>3 DEF LastWord
<1>. QED  BY <1>1, <1>4, <1>5 DEF LiveInv

\* The effect on the sound.
LEMMA LiveSounds ==
  ASSUME LiveInv, NEW m \in BOOLEAN, NEW v \in Volumes, Sounds(m, v)
  PROVE  LiveInv'
<1>0. LiveTypes /\ LiveOthers
  BY LiveTypesAre DEF LiveInv
<1>1. /\ muted' = m /\ volume' = v /\ video' = [video EXCEPT !.muted = m, !.volume = v]
      /\ UNCHANGED <<isStreaming, isPlaying, activeCamera, isPip, videoError, chat, events,
                     began, switched>>
  BY DEF Sounds
<1>2. /\ video' \in VideoStates /\ (video'.paused <=> video.paused)
      /\ (video'.muted <=> m) /\ video'.volume = v
  BY <1>0, <1>1 DEF LiveTypes, VideoStates
<1>3. LiveTypeOK'
  BY <1>0, <1>1, <1>2, LiveTypesAre DEF LiveTypes, LiveOthers
<1>4. ~switched => LastWord'
  BY <1>1, <1>2 DEF LiveInv, LastWord
<1>. QED  BY <1>1, <1>2, <1>3, <1>4 DEF LiveInv

LEMMA LiveSwitches ==
  ASSUME LiveInv, NEW c \in Cameras, switchCamera(c)
  PROVE  LiveInv'
<1>0. LiveTypes /\ LiveOthers
  BY LiveTypesAre DEF LiveInv
<1>1. /\ activeCamera' = c /\ switched' = TRUE /\ isPip' = FALSE
      /\ events' = (IF switched \/ video.paused THEN events ELSE Append(events, "pause"))
      /\ UNCHANGED <<isStreaming, isPlaying, muted, volume, videoError, chat, began>>
  BY DEF switchCamera
<1>2. video' \in VideoStates
  BY <1>0 DEF switchCamera, LiveOthers, VideoStates, Volumes
<1>3. events' \in Seq(Reports)
  BY <1>0, <1>1, OneMoreEvent DEF LiveTypes, Reports
<1>4. switched' \in BOOLEAN /\ isPip' \in BOOLEAN
  BY <1>1, Zenon
<1>5. LiveTypeOK'
  BY <1>0, <1>1, <1>2, <1>3, <1>4, LiveTypesAre DEF LiveTypes, LiveOthers
<1>. QED  BY <1>1, <1>5 DEF LiveInv

LEMMA LiveInvNext == LiveInv /\ [LiveNext]_live => LiveInv'
<1>. SUFFICES ASSUME LiveInv, [LiveNext]_live  PROVE LiveInv'
  OBVIOUS
<1>0. LiveTypes /\ LiveOthers
  BY LiveTypesAre DEF LiveInv
<1>1. CASE autoplay
  BY <1>0, <1>1, LivePlays DEF autoplay, LiveOthers
<1>2. CASE togglePlay
  BY <1>0, <1>2, LivePlays DEF togglePlay, LiveOthers
<1>3. CASE stopStream
  <2>1. LiveOthers'
    BY <1>0, <1>3 DEF stopStream, LiveOthers
  <2>. QED  BY <1>3, <2>1, LivePlays DEF stopStream
<1>4. CASE toggleMute
  BY <1>0, <1>4, LiveSounds DEF toggleMute, LiveOthers
<1>5. ASSUME NEW v \in Volumes, setVolume(v)
      PROVE  LiveInv'
  <2>1. PICK m \in BOOLEAN : Sounds(m, v)
    BY <1>5 DEF setVolume
  <2>. QED  BY <2>1, LiveSounds
<1>6. CASE togglePip \/ incomingChat \/ sendMessage
  <2>1. UNCHANGED <<isPlaying, muted, volume, video, events, began, switched>>
    BY <1>6 DEF togglePip, incomingChat, sendMessage
  <2>2. LiveOthers'
    <3>1. CASE togglePip
      BY <1>0, <3>1 DEF togglePip, LiveOthers
    <3>2. CASE incomingChat
      BY <1>0, <3>2, LivePageAssumption DEF incomingChat, Capped, LiveOthers
    <3>3. CASE sendMessage
      BY <1>0, <3>3, LivePageAssumption DEF sendMessage, LiveOthers
    <3>. QED  BY <1>6, <3>1, <3>2, <3>3
  <2>3. LiveTypeOK'
    BY <1>0, <2>1, <2>2, LiveTypesAre DEF LiveTypes
  <2>. QED  BY <2>1, <2>3 DEF LiveInv, LastWord
<1>7. CASE UNCHANGED live
  BY <1>7 DEF live, LiveInv, LiveTypeOK, LastWord
<1>. QED  BY <1>1, <1>2, <1>3, <1>4, <1>5, <1>6, <1>7, LiveFails, LiveHears, LiveSwitches
          DEF LiveNext

LEMMA LiveAlways == Spec => [](LiveTypeOK /\ PreviewIsTrue)
<1>1. Init => LiveInv
  BY LiveInvInit DEF Init
<1>2. LiveInv /\ [Next]_webClient => LiveInv'
  BY LiveInvNext, PartStep
<1>3. LiveInv => LiveTypeOK /\ PreviewIsTrue
  <2>. SUFFICES ASSUME LiveInv  PROVE LiveTypeOK /\ PreviewIsTrue
    OBVIOUS
  <2>1. LiveTypes /\ LiveTypeOK
    BY LiveTypesAre DEF LiveInv
  <2>2. ASSUME ~switched, began, events = <<>>
        PROVE  isPlaying <=> ~video.paused
    BY <2>2 DEF LiveInv, LastWord
  <2>3. video.paused \in BOOLEAN /\ isPlaying \in BOOLEAN
    BY <2>1 DEF LiveTypes, VideoStates
  <2>. QED  BY <2>1, <2>2, <2>3 DEF LiveInv, PreviewIsTrue
<1>. QED  BY <1>1, <1>2, <1>3, PTL DEF Spec

-----------------------------------------------------------------------------
(* The chat. *)

\* A stream fills the bubble it opened, unless /clear has dropped it with the
\* question; and without a second question there is one to wait for.
AssistantInv ==
  /\ AssistantTypeOK /\ AnswersAreWhole
  /\ \A q \in Questions :
       question[q].at = "streaming" /\ question[q].asked => question[q].bubble = "partial"
  /\ ~together => \A q, r \in Waiting : q = r

Exchange == [at : {"idle", "fetching", "streaming", "thinking", "ended"}, asked : BOOLEAN,
             bubble : {"none", "partial", "whole"}, local : BOOLEAN, cut : BOOLEAN]

\* What the invariant says of one question.
Whole(rec) ==
  /\ rec \in Exchange
  /\ rec.at = "ended" /\ rec.asked /\ ~rec.cut => rec.local \/ rec.bubble = "whole"
  /\ rec.at = "streaming" /\ rec.asked => rec.bubble = "partial"

\* And of the others.
Rest ==
  /\ isOpen \in BOOLEAN /\ input \in {"empty", "question", "command"}
  /\ typing \in BOOLEAN /\ commands \subseteq Commands /\ said \in BOOLEAN /\ together \in BOOLEAN
  /\ ~together => (typing <=> Waiting # {}) /\ \A q, r \in Waiting : q = r

LEMMA AssistantInvIs ==
  /\ AssistantInv <=>
       Rest /\ question \in [Questions -> Exchange] /\ \A q \in Questions : Whole(question[q])
  /\ AssistantInv' <=>
       Rest' /\ question' \in [Questions -> Exchange] /\ \A q \in Questions : Whole(question'[q])
<1>1. /\ AssistantTypeOK <=>
           /\ isOpen \in BOOLEAN /\ input \in {"empty", "question", "command"}
           /\ question \in [Questions -> Exchange]
           /\ typing \in BOOLEAN /\ commands \subseteq Commands /\ said \in BOOLEAN
           /\ together \in BOOLEAN
      /\ AssistantTypeOK' <=>
           /\ isOpen' \in BOOLEAN /\ input' \in {"empty", "question", "command"}
           /\ question' \in [Questions -> Exchange]
           /\ typing' \in BOOLEAN /\ commands' \subseteq Commands /\ said' \in BOOLEAN
           /\ together' \in BOOLEAN
  BY Zenon DEF AssistantTypeOK, Exchange
<1>. QED  BY <1>1 DEF AssistantInv, AnswersAreWhole, Whole, Rest

LEMMA NotAskedOK == Whole(NotAsked) /\ NotAsked.at = "idle"
BY DEF NotAsked, Exchange, Whole

\* The records a question becomes.
LEMMA ExchangeMoves ==
  ASSUME NEW rec, Whole(rec)
  PROVE  /\ Whole([NotAsked EXCEPT !.at = "fetching", !.asked = TRUE])
         /\ [NotAsked EXCEPT !.at = "fetching", !.asked = TRUE].at = "fetching"
         /\ Whole([rec EXCEPT !.asked = FALSE, !.bubble = "none"])
         /\ [rec EXCEPT !.asked = FALSE, !.bubble = "none"].at = rec.at
         /\ Whole([rec EXCEPT !.at = "streaming", !.bubble = "partial"])
         /\ [rec EXCEPT !.at = "streaming", !.bubble = "partial"].at = "streaming"
         /\ Whole([rec EXCEPT !.at = "thinking"])
         /\ [rec EXCEPT !.at = "thinking"].at = "thinking"
<1>1. /\ Whole([NotAsked EXCEPT !.at = "fetching", !.asked = TRUE])
      /\ [NotAsked EXCEPT !.at = "fetching", !.asked = TRUE].at = "fetching"
  BY NotAskedOK DEF Whole, Exchange
<1>2. /\ Whole([rec EXCEPT !.asked = FALSE, !.bubble = "none"])
      /\ [rec EXCEPT !.asked = FALSE, !.bubble = "none"].at = rec.at
  BY DEF Whole, Exchange
<1>3. /\ Whole([rec EXCEPT !.at = "streaming", !.bubble = "partial"])
      /\ [rec EXCEPT !.at = "streaming", !.bubble = "partial"].at = "streaming"
  BY DEF Whole, Exchange
<1>4. /\ Whole([rec EXCEPT !.at = "thinking"])
      /\ [rec EXCEPT !.at = "thinking"].at = "thinking"
  BY DEF Whole, Exchange
<1>. QED  BY <1>1, <1>2, <1>3, <1>4

\* The records it ends as.
LEMMA ExchangeEnds ==
  ASSUME NEW rec, Whole(rec)
  PROVE  /\ \A b \in {"none", "partial", "whole"} : [[rec EXCEPT !.bubble = b] EXCEPT !.at = "ended"].at = "ended"
         /\ rec.at = "streaming" =>
              Whole([[rec EXCEPT !.bubble = IF rec.bubble = "none" THEN "none" ELSE "whole"] EXCEPT !.at = "ended"])
         /\ Whole([[rec EXCEPT !.cut = TRUE] EXCEPT !.at = "ended"])
         /\ [[rec EXCEPT !.cut = TRUE] EXCEPT !.at = "ended"].at = "ended"
         /\ Whole([[rec EXCEPT !.local = TRUE] EXCEPT !.at = "ended"])
         /\ [[rec EXCEPT !.local = TRUE] EXCEPT !.at = "ended"].at = "ended"
<1>1. \A b \in {"none", "partial", "whole"} : [[rec EXCEPT !.bubble = b] EXCEPT !.at = "ended"].at = "ended"
  BY DEF Whole, Exchange
<1>2. rec.at = "streaming" =>
        Whole([[rec EXCEPT !.bubble = IF rec.bubble = "none" THEN "none" ELSE "whole"] EXCEPT !.at = "ended"])
  BY DEF Whole, Exchange
<1>3. /\ Whole([[rec EXCEPT !.cut = TRUE] EXCEPT !.at = "ended"])
      /\ [[rec EXCEPT !.cut = TRUE] EXCEPT !.at = "ended"].at = "ended"
  BY DEF Whole, Exchange
<1>4. /\ Whole([[rec EXCEPT !.local = TRUE] EXCEPT !.at = "ended"])
      /\ [[rec EXCEPT !.local = TRUE] EXCEPT !.at = "ended"].at = "ended"
  BY DEF Whole, Exchange
<1>. QED  BY <1>1, <1>2, <1>3, <1>4

LEMMA AssistantInvInit == AssistantInit => AssistantInv
<1>. SUFFICES ASSUME AssistantInit  PROVE AssistantInv
  OBVIOUS
<1>1. isOpen \in BOOLEAN /\ typing \in BOOLEAN /\ said \in BOOLEAN /\ together \in BOOLEAN
  BY Zenon DEF AssistantInit
<1>2. question \in [Questions -> Exchange] /\ \A q \in Questions : Whole(question[q])
  BY NotAskedOK DEF AssistantInit, Whole
<1>3. Waiting = {}
  BY NotAskedOK DEF AssistantInit, Waiting
<1>. QED  BY <1>1, <1>2, <1>3, AssistantInvIs DEF AssistantInit, Rest

\* A stream opens, is refused or breaks: the question waits as before.
LEMMA AssistantStreams ==
  ASSUME AssistantInv, NEW q \in Questions,
         streamOpens(q) \/ streamRefused(q) \/ streamBreaks(q)
  PROVE  AssistantInv'
<1>0. Rest /\ question \in [Questions -> Exchange] /\ \A r \in Questions : Whole(question[r])
  BY AssistantInvIs
<1>1. PICK rec :
        /\ Whole(rec) /\ rec.at \notin {"idle", "ended"} /\ question[q].at \notin {"idle", "ended"}
        /\ Set(q, rec) /\ typing' = typing
  <2>1. CASE streamOpens(q)
    BY <1>0, <2>1, ExchangeMoves DEF streamOpens
  <2>2. CASE streamRefused(q)
    BY <1>0, <2>2, ExchangeMoves DEF streamRefused
  <2>3. CASE streamBreaks(q)
    BY <1>0, <2>3, ExchangeMoves DEF streamBreaks
  <2>. QED  BY <2>1, <2>2, <2>3
<1>2. question' \in [Questions -> Exchange] /\ \A r \in Questions : Whole(question'[r])
  BY <1>0, <1>1 DEF Set, Whole
<1>3. Waiting' = Waiting
  BY <1>0, <1>1 DEF Set, Waiting
<1>4. Rest'
  BY <1>0, <1>1, <1>3 DEF Set, Rest
<1>. QED  BY <1>2, <1>4, AssistantInvIs

\* The exchange ends, with its answer: the dots of all go.
LEMMA AssistantEnds ==
  ASSUME AssistantInv, NEW q \in Questions,
         streamDone(q) \/ streamCut(q) \/ localAnswer(q)
  PROVE  AssistantInv'
<1>0. Rest /\ question \in [Questions -> Exchange] /\ \A r \in Questions : Whole(question[r])
  BY AssistantInvIs
<1>1. PICK rec :
        /\ Whole(rec) /\ rec.at = "ended" /\ question[q].at \notin {"idle", "ended"}
        /\ Set(q, rec) /\ typing' = FALSE
  <2>1. CASE streamDone(q)
    BY <1>0, <2>1, ExchangeEnds DEF streamDone, Ends, Filled
  <2>2. CASE streamCut(q)
    BY <1>0, <2>2, ExchangeEnds DEF streamCut, Ends
  <2>3. CASE localAnswer(q)
    BY <1>0, <2>3, ExchangeEnds DEF localAnswer, Ends
  <2>. QED  BY <2>1, <2>2, <2>3
<1>2. question' \in [Questions -> Exchange] /\ \A r \in Questions : Whole(question'[r])
  BY <1>0, <1>1 DEF Set, Whole
<1>3. Waiting' = Waiting \ {q} /\ q \in Waiting
  BY <1>0, <1>1 DEF Set, Waiting
<1>4. typing' \in BOOLEAN
  BY <1>1
<1>5. Rest'
  BY <1>0, <1>1, <1>3, <1>4 DEF Set, Rest
<1>. QED  BY <1>2, <1>5, AssistantInvIs

LEMMA AssistantSends ==
  ASSUME AssistantInv, NEW q \in Questions, send(q)
  PROVE  AssistantInv'
<1>0. Rest /\ question \in [Questions -> Exchange] /\ \A r \in Questions : Whole(question[r])
  BY AssistantInvIs
<1>. DEFINE rec == [NotAsked EXCEPT !.at = "fetching", !.asked = TRUE]
<1>1. Whole(rec) /\ rec.at = "fetching"
  BY <1>0, ExchangeMoves
<1>2. /\ question' = [question EXCEPT ![q] = rec] /\ input' = "empty" /\ typing' = TRUE
      /\ together' = (together \/ Waiting # {}) /\ UNCHANGED <<isOpen, commands, said>>
  BY DEF send
<1>. HIDE DEF rec
<1>3. question' \in [Questions -> Exchange] /\ \A r \in Questions : Whole(question'[r])
  BY <1>0, <1>1, <1>2 DEF Whole
<1>4. Waiting' = Waiting \cup {q}
  BY <1>0, <1>1, <1>2 DEF Waiting
<1>5. typing' \in BOOLEAN /\ typing' /\ together' \in BOOLEAN /\ (~together' => Waiting = {})
  BY <1>0, <1>2 DEF Rest
<1>6. Rest'
  BY <1>0, <1>2, <1>4, <1>5 DEF Rest
<1>. QED  BY <1>3, <1>6, AssistantInvIs

LEMMA AssistantSlash ==
  ASSUME AssistantInv, NEW c \in Commands, handleSlash(c)
  PROVE  AssistantInv'
<1>0. Rest /\ question \in [Questions -> Exchange] /\ \A r \in Questions : Whole(question[r])
  BY AssistantInvIs
<1>1. ASSUME NEW q \in Questions
      PROVE  Whole(Cleared(q)) /\ (Cleared(q).at \in {"idle", "ended"} <=> question[q].at \in {"idle", "ended"})
  <2>1. CASE question[q].at = "ended"
    BY <2>1, NotAskedOK DEF Cleared
  <2>2. CASE question[q].at # "ended"
    BY <1>0, <2>2, ExchangeMoves DEF Cleared
  <2>. QED  BY <2>1, <2>2
<1>2. question' \in [Questions -> Exchange] /\ \A r \in Questions : Whole(question'[r])
  BY <1>0, <1>1 DEF handleSlash, Whole
<1>3. Waiting' = Waiting
  <2>1. CASE c = "/clear"
    BY <1>1, <2>1 DEF handleSlash, Waiting
  <2>2. CASE c # "/clear"
    BY <2>2 DEF handleSlash, Waiting
  <2>. QED  BY <2>1, <2>2
<1>4. isOpen' \in BOOLEAN /\ said' \in BOOLEAN
  <2>1. (isOpen' = FALSE \/ isOpen' = isOpen) /\ (said' = said \/ said' = (c # "/clear"))
    BY Zenon DEF handleSlash
  <2>2. isOpen' \in BOOLEAN
    BY <1>0, <2>1, Zenon DEF Rest
  <2>3. said' \in BOOLEAN
    BY <1>0, <2>1 DEF Rest
  <2>. QED  BY <2>2, <2>3
<1>5. commands' \subseteq Commands /\ UNCHANGED <<input, typing, together>>
  BY <1>0 DEF handleSlash, Rest
<1>6. Rest'
  BY <1>0, <1>3, <1>4, <1>5 DEF Rest
<1>. QED  BY <1>2, <1>6, AssistantInvIs

LEMMA AssistantInvNext == AssistantInv /\ [AssistantNext]_assistant => AssistantInv'
<1>. SUFFICES ASSUME AssistantInv, [AssistantNext]_assistant  PROVE AssistantInv'
  OBVIOUS
<1>0. Rest /\ question \in [Questions -> Exchange] /\ \A r \in Questions : Whole(question[r])
  BY AssistantInvIs
<1>1. ASSUME NEW b \in BOOLEAN, setOpen(b)
      PROVE  AssistantInv'
  <2>1. Waiting' = Waiting /\ isOpen' \in BOOLEAN
    BY <1>1 DEF setOpen, Waiting
  <2>2. Rest'
    BY <1>0, <1>1, <2>1 DEF setOpen, Rest
  <2>. QED  BY <1>0, <1>1, <2>2, AssistantInvIs DEF setOpen
<1>2. ASSUME NEW v \in {"empty", "question", "command"}, setInput(v)
      PROVE  AssistantInv'
  <2>1. Waiting' = Waiting
    BY <1>2 DEF setInput, Waiting
  <2>2. Rest'
    BY <1>0, <1>2, <2>1 DEF setInput, Rest
  <2>. QED  BY <1>0, <1>2, <2>2, AssistantInvIs DEF setInput
<1>3. ASSUME NEW c \in Commands, sendCommand(c)
      PROVE  AssistantInv'
  <2>1. Waiting' = Waiting
    BY <1>3 DEF sendCommand, Waiting
  <2>2. Rest'
    BY <1>0, <1>3, <2>1 DEF sendCommand, Rest
  <2>. QED  BY <1>0, <1>3, <2>2, AssistantInvIs DEF sendCommand
<1>4. CASE UNCHANGED assistant
  <2>1. Waiting' = Waiting
    BY <1>4 DEF assistant, Waiting
  <2>2. Rest'
    BY <1>0, <1>4, <2>1 DEF assistant, Rest
  <2>. QED  BY <1>0, <1>4, <2>2, AssistantInvIs DEF assistant
<1>. QED  BY <1>1, <1>2, <1>3, <1>4, AssistantSlash, AssistantSends, AssistantStreams, AssistantEnds
          DEF AssistantNext

LEMMA AssistantAlways == Spec => [](AssistantTypeOK /\ AnswersAreWhole)
<1>1. Init => AssistantInv
  BY AssistantInvInit DEF Init
<1>2. AssistantInv /\ [Next]_webClient => AssistantInv'
  BY AssistantInvNext, PartStep
<1>3. AssistantInv => AssistantTypeOK /\ AnswersAreWhole
  BY DEF AssistantInv
<1>. QED  BY <1>1, <1>2, <1>3, PTL DEF Spec

-----------------------------------------------------------------------------
(* The automations page. *)

Follows(t, r) == toggle[t].on = r /\ toggle[t].at # "idle"
Changed(r) == \E t \in Toggles : toggle[t].on = r /\ toggle[t].at = "ok"

\* A change is about a rule; the latest one is under way, and is the only one.
ToggleShape ==
  /\ \A t \in Toggles : toggle[t].at # "idle" => toggle[t].on \in Rules
  /\ \A t \in Toggles : toggle[t].latest => toggle[t].at # "idle"
  /\ \A t, u \in Toggles : toggle[t].latest /\ toggle[u].latest => t = u

\* The change of a rule that is not misled is followed: the switch shows where
\* it goes, and what it was is known.
Followed ==
  \A t \in Toggles : LET r == toggle[t].on IN
    toggle[t].at # "idle" /\ r \notin misled =>
      /\ toggle[t].latest /\ overrides[r] = toggle[t].to
      /\ active[r] = IF toggle[t].at = "ok" THEN toggle[t].to ELSE toggle[t].was

\* A switch that was set and is not being changed is where its rule is.
SetRight ==
  \A r \in Rules \ misled :
    overrides[r] # "none" /\ (\A t \in Toggles : ~Follows(t, r)) => overrides[r] = active[r]

\* A list that tells otherwise is about to be asked for again.
ListRight ==
  \A r \in Rules \ misled :
    \/ invalid \/ Changed(r)
    \/ /\ \A l \in onItsWay : l[r] = active[r]
       /\ onItsWay # {} \/ rules[r] = active[r]

AutomationsInv == AutomationsTypeOK /\ ToggleShape /\ Followed /\ SetRight /\ ListRight

Changes == [on : Rules \cup {"none"}, to : OnOff, was : OnOff,
            at : {"idle", "sent", "ok", "failed"}, latest : BOOLEAN]

AutomationsTypes ==
  /\ active \in [Rules -> OnOff] /\ rules \in [Rules -> OnOff]
  /\ onItsWay \subseteq [Rules -> OnOff] /\ Cardinality(onItsWay) <= 1 /\ invalid \in BOOLEAN
  /\ overrides \in [Rules -> OnOff \cup {"none"}]
  /\ toggle \in [Toggles -> Changes] /\ misled \subseteq Rules

LEMMA AutomationsTypesAre ==
  (AutomationsTypes <=> AutomationsTypeOK) /\ (AutomationsTypes' <=> AutomationsTypeOK')
BY Zenon DEF AutomationsTypes, AutomationsTypeOK, Changes

LEMMA NoToggleOK == NoToggle \in Changes /\ NoToggle.at = "idle" /\ ~NoToggle.latest /\ NoToggle.on = "none"
BY DEF NoToggle, Changes, OnOff

\* The change that is moved, field by field.
LEMMA ChangeMoves ==
  ASSUME NEW rec \in Changes, NEW at \in {"idle", "sent", "ok", "failed"}
  PROVE  /\ [rec EXCEPT !.at = at] \in Changes /\ [rec EXCEPT !.at = at].at = at
         /\ [rec EXCEPT !.at = at].on = rec.on /\ [rec EXCEPT !.at = at].to = rec.to
         /\ [rec EXCEPT !.at = at].was = rec.was /\ [rec EXCEPT !.at = at].latest = rec.latest
BY DEF Changes

LEMMA AutomationsInvInit == AutomationsInit => AutomationsInv
<1>. SUFFICES ASSUME AutomationsInit  PROVE AutomationsInv
  OBVIOUS
<1>1. invalid \in BOOLEAN
  BY Zenon DEF AutomationsInit
<1>2. toggle \in [Toggles -> Changes] /\ \A t \in Toggles : toggle[t] = NoToggle
  BY NoToggleOK DEF AutomationsInit
<1>3. AutomationsTypes
  BY <1>1, <1>2, FewAtMost DEF AutomationsInit, AutomationsTypes, OnOff
<1>4. ToggleShape /\ Followed
  BY <1>2, NoToggleOK DEF ToggleShape, Followed
<1>5. SetRight /\ ListRight
  BY DEF AutomationsInit, SetRight, ListRight
<1>. QED  BY <1>3, <1>4, <1>5, AutomationsTypesAre DEF AutomationsInv

\* A click: on the list as it stands, or as a switch that is misled.
LEMMA AutomationsClicks ==
  ASSUME AutomationsInv, NEW t \in Toggles, NEW r \in Rules, handleToggle(t, r)
  PROVE  AutomationsInv'
<1>0. AutomationsTypes
  BY AutomationsTypesAre DEF AutomationsInv
<1>. DEFINE v == IF isActive(r) = "on" THEN "off" ELSE "on"
            new == [on |-> r, to |-> v, was |-> rules[r], at |-> "sent", latest |-> TRUE]
            old(u) == [toggle[u] EXCEPT !.latest = FALSE]
<1>1. /\ toggle[t].at = "idle" /\ (\A u \in Toggles : ~(toggle[u].latest /\ toggle[u].on = r))
      /\ overrides' = [overrides EXCEPT ![r] = v]
      /\ toggle' = [u \in Toggles |-> IF u = t THEN new ELSE old(u)]
      /\ misled' = misled \cup {toggle[u].on : u \in {u \in Toggles : toggle[u].latest}}
                     \cup (IF rules[r] = active[r] /\ onItsWay \subseteq {active} THEN {} ELSE {r})
      /\ UNCHANGED <<active, rules, onItsWay, invalid>>
  BY DEF handleToggle, Enabled_
<1>2. v \in OnOff
  BY DEF OnOff
<1>. HIDE DEF v
<1>3. new \in Changes /\ new.on = r /\ new.to = v /\ new.was = rules[r] /\ new.at = "sent" /\ new.latest
  BY <1>0, <1>2 DEF AutomationsTypes, Changes
<1>4. ASSUME NEW u \in Toggles
      PROVE  /\ old(u) \in Changes /\ old(u).on = toggle[u].on /\ old(u).to = toggle[u].to
             /\ old(u).was = toggle[u].was /\ old(u).at = toggle[u].at /\ ~old(u).latest
  BY <1>0 DEF AutomationsTypes, Changes
<1>. HIDE DEF new, old
<1>5. /\ misled \subseteq misled' /\ misled' \subseteq Rules
      /\ \A u \in Toggles : toggle[u].latest => toggle[u].on \in misled'
      /\ r \notin misled' => rules[r] = active[r]
  <2>1. \A u \in Toggles : toggle[u].latest => toggle[u].on \in Rules
    BY DEF AutomationsInv, ToggleShape
  <2>. QED  BY <1>0, <1>1, <2>1 DEF AutomationsTypes
<1>6. \A u \in Toggles : toggle[u].at # "idle" => toggle[u].on \in misled'
  BY <1>5 DEF AutomationsInv, Followed
<1>7. AutomationsTypes'
  BY <1>0, <1>1, <1>2, <1>3, <1>4, <1>5 DEF AutomationsTypes
<1>8. ToggleShape'
  BY <1>1, <1>3, <1>4 DEF AutomationsInv, ToggleShape
<1>9. Followed'
  BY <1>0, <1>1, <1>2, <1>3, <1>4, <1>5, <1>6 DEF AutomationsTypes, Followed
<1>10. SetRight'
  <2>1. Follows(t, r)'
    BY <1>1, <1>3 DEF Follows
  <2>2. ASSUME NEW s \in Rules \ misled', s # r
        PROVE  overrides'[s] = overrides[s] /\ \A u \in Toggles : ~Follows(u, s)
    BY <1>0, <1>1, <1>6, <2>2 DEF AutomationsTypes, Follows
  <2>. QED  BY <1>1, <1>5, <2>1, <2>2 DEF AutomationsInv, SetRight
<1>11. ListRight'
  <2>1. \A s \in Rules : Changed(s) => Changed(s)'
    BY <1>1, <1>4 DEF Changed
  <2>. QED  BY <1>1, <1>5, <2>1 DEF AutomationsInv, ListRight
<1>. QED  BY <1>7, <1>8, <1>9, <1>10, <1>11, AutomationsTypesAre DEF AutomationsInv

\* A change moves on, or its answer is lost: the switch stands as it was.
LEMMA AutomationsMoves ==
  ASSUME AutomationsInv, NEW t \in Toggles, toggled(t) \/ notToggled(t) \/ changeUnheard(t)
  PROVE  AutomationsInv'
<1>0. AutomationsTypes
  BY AutomationsTypesAre DEF AutomationsInv
<1>1. PICK at \in {"ok", "failed"} :
        /\ toggle' = [toggle EXCEPT ![t] = [toggle[t] EXCEPT !.at = at]]
        /\ toggle[t].at # "idle"
        /\ \/ at = "ok" /\ active' = [active EXCEPT ![toggle[t].on] = toggle[t].to] /\ misled' = misled
           \/ at = "failed" /\ toggle[t].at = "sent" /\ active' = active /\ misled' = misled
           \/ at = "failed" /\ active' = active /\ misled' = misled \cup {toggle[t].on}
        /\ UNCHANGED <<rules, onItsWay, invalid, overrides>>
  <2>1. CASE toggled(t)
    BY <2>1 DEF toggled
  <2>2. CASE notToggled(t)
    BY <2>2 DEF notToggled
  <2>3. CASE changeUnheard(t)
    BY <2>3 DEF changeUnheard
  <2>. QED  BY <2>1, <2>2, <2>3
<1>. DEFINE rec == [toggle[t] EXCEPT !.at = at]
            r == toggle[t].on
<1>2. /\ rec \in Changes /\ rec.at = at /\ rec.on = r /\ rec.to = toggle[t].to
      /\ rec.was = toggle[t].was /\ rec.latest = toggle[t].latest
      /\ toggle[t].to \in OnOff
  <2>1. toggle[t] \in Changes
    BY <1>0 DEF AutomationsTypes
  <2>2. toggle[t].to \in OnOff
    BY <2>1 DEF Changes
  <2>3. at \in {"idle", "sent", "ok", "failed"}
    OBVIOUS
  <2>. QED  BY <2>1, <2>2, <2>3, ChangeMoves, Zenon
<1>3. r \in Rules
  BY <1>1 DEF AutomationsInv, ToggleShape
<1>4. toggle' = [toggle EXCEPT ![t] = rec]
  BY <1>1
<1>. HIDE DEF rec, r
<1>5. /\ \A s \in Rules \ {r} : active'[s] = active[s]
      /\ active' \in [Rules -> OnOff] /\ misled \subseteq misled' /\ misled' \subseteq misled \cup {r}
      /\ r \notin misled' => active'[r] = IF at = "ok" THEN toggle[t].to ELSE active[r]
      /\ r \notin misled' /\ at = "failed" => active' = active /\ toggle[t].at = "sent"
  BY <1>0, <1>1, <1>2, <1>3 DEF AutomationsTypes, r
<1>6. AutomationsTypes'
  BY <1>0, <1>1, <1>2, <1>3, <1>4, <1>5 DEF AutomationsTypes
<1>7. ToggleShape'
  BY <1>0, <1>1, <1>2, <1>3, <1>4 DEF AutomationsTypes, AutomationsInv, ToggleShape
\* No other change is about the same rule.
<1>8. \A u \in Toggles : u # t /\ toggle[u].at # "idle" /\ r \notin misled' => toggle[u].on # r
  BY <1>1, <1>5 DEF AutomationsInv, Followed, ToggleShape, r
<1>9. Followed'
  <2>1. ASSUME NEW u \in Toggles, u # t, toggle'[u].at # "idle", toggle'[u].on \notin misled'
        PROVE  LET s == toggle'[u].on IN
               /\ toggle'[u].latest /\ overrides'[s] = toggle'[u].to
               /\ active'[s] = IF toggle'[u].at = "ok" THEN toggle'[u].to ELSE toggle'[u].was
    <3>1. toggle'[u] = toggle[u]
      BY <1>0, <1>4, <2>1 DEF AutomationsTypes
    <3>2. toggle[u].on # r /\ toggle[u].on \in Rules /\ toggle[u].on \notin misled
      BY <1>5, <1>8, <2>1, <3>1 DEF AutomationsInv, ToggleShape
    <3>. QED  BY <1>1, <1>5, <2>1, <3>1, <3>2 DEF AutomationsInv, Followed
  <2>2. toggle'[t] = rec
    BY <1>0, <1>4 DEF AutomationsTypes
  <2>3. r \notin misled' =>
          /\ rec.latest /\ overrides'[r] = rec.to
          /\ active'[r] = IF rec.at = "ok" THEN rec.to ELSE rec.was
    BY <1>1, <1>2, <1>5 DEF AutomationsInv, Followed, r
  <2>. QED  BY <1>2, <2>1, <2>2, <2>3 DEF Followed
<1>10. \A u \in Toggles, s \in Rules : Follows(u, s)' <=> Follows(u, s)
  BY <1>0, <1>1, <1>2, <1>4 DEF AutomationsTypes, Follows, r
<1>11. SetRight'
  <2>1. Follows(t, r)
    BY <1>1 DEF Follows, r
  <2>. QED  BY <1>1, <1>5, <1>10, <2>1 DEF AutomationsInv, SetRight
<1>12. ListRight'
  <2>1. ASSUME NEW s \in Rules \ misled'
        PROVE  \/ invalid \/ Changed(s)'
               \/ /\ \A l \in onItsWay : l[s] = active'[s]
                  /\ onItsWay # {} \/ rules[s] = active'[s]
    <3>1. CASE at = "ok" /\ s = r
      BY <1>0, <1>2, <1>4, <3>1 DEF AutomationsTypes, Changed
    <3>2. CASE at = "failed" /\ s = r
      <4>1. ~Changed(r)
        BY <1>1, <1>5, <1>8, <3>2 DEF Changed
      <4>. QED  BY <1>5, <3>2, <4>1 DEF AutomationsInv, ListRight
    <3>3. CASE s # r
      <4>1. Changed(s) => Changed(s)'
        BY <1>0, <1>4, <3>3 DEF AutomationsTypes, Changed, r
      <4>. QED  BY <1>5, <3>3, <4>1 DEF AutomationsInv, ListRight
    <3>. QED  BY <1>1, <3>1, <3>2, <3>3
  <2>. QED  BY <1>1, <2>1 DEF ListRight
<1>. QED  BY <1>6, <1>7, <1>9, <1>11, <1>12, AutomationsTypesAre DEF AutomationsInv

\* A change is over: what it leaves the switch at is where its rule is.
LEMMA AutomationsEnds ==
  ASSUME AutomationsInv, NEW t \in Toggles, toggleSucceeds(t) \/ toggleFails(t)
  PROVE  AutomationsInv'
<1>0. AutomationsTypes
  BY AutomationsTypesAre DEF AutomationsInv
<1>. DEFINE r == toggle[t].on
<1>1. /\ toggle' = [toggle EXCEPT ![t] = NoToggle] /\ toggle[t].at \in {"ok", "failed"}
      /\ UNCHANGED <<active, rules, onItsWay, misled>>
  BY DEF toggleSucceeds, toggleFails
<1>2. r \in Rules /\ toggle[t].was \in OnOff
  <2>1. toggle[t] \in Changes
    BY <1>0 DEF AutomationsTypes
  <2>. QED  BY <1>1, <2>1 DEF AutomationsInv, ToggleShape, Changes
<1>. HIDE DEF r
<1>3. invalid' \in BOOLEAN /\ (invalid => invalid') /\ (toggle[t].at = "ok" => invalid')
  <2>1. CASE toggleSucceeds(t)
    <3>1. invalid' = TRUE
      BY <2>1 DEF toggleSucceeds
    <3>. QED  BY <3>1
  <2>2. CASE toggleFails(t)
    BY <1>0, <2>2 DEF toggleFails, AutomationsTypes
  <2>. QED  BY <2>1, <2>2
<1>4. /\ overrides' \in [Rules -> OnOff \cup {"none"}]
      /\ \A s \in Rules \ {r} : overrides'[s] = overrides[s]
      /\ r \notin misled => overrides'[r] = active[r]
  <2>1. CASE toggleSucceeds(t)
    BY <1>0, <1>2, <2>1 DEF toggleSucceeds, AutomationsTypes, AutomationsInv, Followed, r
  <2>2. CASE toggleFails(t)
    BY <1>0, <1>2, <2>2 DEF toggleFails, Restored, AutomationsTypes, AutomationsInv, Followed, r
  <2>. QED  BY <2>1, <2>2
<1>5. AutomationsTypes'
  BY <1>0, <1>1, <1>3, <1>4, NoToggleOK DEF AutomationsTypes
<1>6. ToggleShape'
  BY <1>0, <1>1, NoToggleOK DEF AutomationsTypes, AutomationsInv, ToggleShape
<1>7. \A u \in Toggles : u # t /\ toggle[u].at # "idle" /\ r \notin misled => toggle[u].on # r
  BY <1>1 DEF AutomationsInv, Followed, ToggleShape, r
<1>8. Followed'
  <2>1. ASSUME NEW u \in Toggles, toggle'[u].at # "idle", toggle'[u].on \notin misled'
        PROVE  LET s == toggle'[u].on IN
               /\ toggle'[u].latest /\ overrides'[s] = toggle'[u].to
               /\ active'[s] = IF toggle'[u].at = "ok" THEN toggle'[u].to ELSE toggle'[u].was
    <3>1. u # t /\ toggle'[u] = toggle[u]
      BY <1>0, <1>1, <2>1, NoToggleOK DEF AutomationsTypes
    <3>2. toggle[u].on # r /\ toggle[u].on \in Rules /\ toggle[u].on \notin misled
      BY <1>1, <1>7, <2>1, <3>1 DEF AutomationsInv, ToggleShape
    <3>. QED  BY <1>1, <1>4, <2>1, <3>1, <3>2 DEF AutomationsInv, Followed
  <2>. QED  BY <2>1 DEF Followed
<1>9. SetRight'
  <2>1. \A u \in Toggles, s \in Rules \ {r} : Follows(u, s)' <=> Follows(u, s)
    BY <1>0, <1>1, NoToggleOK DEF AutomationsTypes, Follows, r
  <2>. QED  BY <1>1, <1>4, <2>1 DEF AutomationsInv, SetRight
<1>10. ListRight'
  <2>1. \A s \in Rules : Changed(s) => Changed(s)' \/ invalid'
    BY <1>0, <1>1, <1>3 DEF AutomationsTypes, Changed
  <2>. QED  BY <1>1, <1>3, <2>1 DEF AutomationsInv, ListRight
<1>. QED  BY <1>5, <1>6, <1>8, <1>9, <1>10, AutomationsTypesAre DEF AutomationsInv

\* The list is fetched and shown.
LEMMA AutomationsReads ==
  ASSUME AutomationsInv, refetchRules \/ rulesShown
  PROVE  AutomationsInv'
<1>0. AutomationsTypes
  BY AutomationsTypesAre DEF AutomationsInv
<1>1. UNCHANGED <<active, overrides, toggle, misled>>
  BY DEF refetchRules, rulesShown
<1>2. ToggleShape' /\ Followed' /\ SetRight'
  BY <1>1 DEF AutomationsInv, ToggleShape, Followed, SetRight, Follows
<1>3. \A s \in Rules : Changed(s)' <=> Changed(s)
  BY <1>1 DEF Changed
<1>4. CASE refetchRules
  <2>1. onItsWay' = {active} /\ rules' = rules /\ invalid' \in BOOLEAN
    BY <1>4 DEF refetchRules
  <2>2. AutomationsTypes'
    BY <1>0, <1>1, <2>1, FewAtMost DEF AutomationsTypes
  <2>3. ListRight'
    BY <1>1, <2>1 DEF ListRight
  <2>. QED  BY <1>2, <2>2, <2>3, AutomationsTypesAre DEF AutomationsInv
<1>5. CASE rulesShown
  <2>1. onItsWay' = {} /\ rules' \in onItsWay /\ invalid' = invalid
    BY <1>5 DEF rulesShown
  <2>2. AutomationsTypes'
    BY <1>0, <1>1, <2>1, FewAtMost DEF AutomationsTypes
  <2>3. ListRight'
    BY <1>1, <1>3, <2>1 DEF AutomationsInv, ListRight
  <2>. QED  BY <1>2, <2>2, <2>3, AutomationsTypesAre DEF AutomationsInv
<1>. QED  BY <1>4, <1>5

LEMMA AutomationsReopens ==
  ASSUME AutomationsInv, reopenPage
  PROVE  AutomationsInv'
<1>0. AutomationsTypes
  BY AutomationsTypesAre DEF AutomationsInv
<1>. DEFINE old(u) == [toggle[u] EXCEPT !.latest = FALSE]
<1>1. /\ overrides' = [r \in Rules |-> "none"] /\ toggle' = [u \in Toggles |-> old(u)]
      /\ misled' = misled \cup {toggle[t].on : t \in {t \in Toggles : toggle[t].at # "idle"}}
      /\ UNCHANGED <<active, rules, onItsWay, invalid>>
  BY DEF reopenPage
<1>2. ASSUME NEW u \in Toggles
      PROVE  /\ old(u) \in Changes /\ old(u).on = toggle[u].on /\ old(u).at = toggle[u].at
             /\ ~old(u).latest
  BY <1>0 DEF AutomationsTypes, Changes
<1>. HIDE DEF old
<1>3. /\ misled \subseteq misled' /\ misled' \subseteq Rules
      /\ \A u \in Toggles : toggle[u].at # "idle" => toggle[u].on \in misled'
  <2>1. \A u \in Toggles : toggle[u].at # "idle" => toggle[u].on \in Rules
    BY DEF AutomationsInv, ToggleShape
  <2>. QED  BY <1>0, <1>1, <2>1 DEF AutomationsTypes
<1>4. AutomationsTypes'
  BY <1>0, <1>1, <1>2, <1>3 DEF AutomationsTypes
<1>5. ToggleShape' /\ Followed'
  BY <1>1, <1>2, <1>3 DEF AutomationsInv, ToggleShape, Followed
<1>6. SetRight'
  BY <1>1 DEF SetRight
<1>7. ListRight'
  <2>1. \A s \in Rules : Changed(s) => Changed(s)'
    BY <1>1, <1>2 DEF Changed
  <2>. QED  BY <1>1, <1>3, <2>1 DEF AutomationsInv, ListRight
<1>. QED  BY <1>4, <1>5, <1>6, <1>7, AutomationsTypesAre DEF AutomationsInv

LEMMA AutomationsInvNext == AutomationsInv /\ [AutomationsNext]_automations => AutomationsInv'
<1>. SUFFICES ASSUME AutomationsInv, [AutomationsNext]_automations  PROVE AutomationsInv'
  OBVIOUS
<1>1. CASE UNCHANGED automations
  BY <1>1 DEF automations, AutomationsInv, AutomationsTypeOK, ToggleShape, Followed, SetRight,
              ListRight, Follows, Changed
<1>. QED  BY <1>1, AutomationsClicks, AutomationsMoves, AutomationsEnds, AutomationsReads,
             AutomationsReopens
          DEF AutomationsNext

LEMMA AutomationsAlways == Spec => [](AutomationsTypeOK /\ SwitchIsTrue)
<1>1. Init => AutomationsInv
  BY AutomationsInvInit DEF Init
<1>2. AutomationsInv /\ [Next]_webClient => AutomationsInv'
  BY AutomationsInvNext, PartStep
<1>3. AutomationsInv => AutomationsTypeOK /\ SwitchIsTrue
  BY DEF AutomationsInv, SetRight, ListRight, Follows, Changed, SwitchIsTrue, Settled_, isActive
<1>. QED  BY <1>1, <1>2, <1>3, PTL DEF Spec

-----------------------------------------------------------------------------
(* The contents page. *)

\* A query waits for one request at most, and for one of another user only
\* while it is excused.
ContentsInv ==
  /\ ContentsTypeOK
  /\ \A q, r \in Requests :
       request[q].current /\ request[r].current /\ request[q].what = request[r].what => q = r
  /\ \A w \in Queries : signedIn # Nobody /\ ~lately[w] =>
       /\ shown[w].of \in {"none", signedIn}
       /\ \A q \in Requests : request[q].current /\ request[q].what = w => request[q].by = signedIn

Gets == [what : Queries, by : Sources, at : {"idle", "sent"}, current : BOOLEAN]
Rows == [of : Sources, error : BOOLEAN]

ContentsTypes ==
  /\ signedIn \in Users \cup {Nobody} /\ shown \in [Queries -> Rows]
  /\ request \in [Requests -> Gets]
  /\ lately \in [Queries -> BOOLEAN] /\ filtered \in BOOLEAN
  /\ searchBar \in [long : BOOLEAN, focused : BOOLEAN]

LEMMA ContentsTypesAre ==
  (ContentsTypes <=> ContentsTypeOK) /\ (ContentsTypes' <=> ContentsTypeOK')
BY Zenon DEF ContentsTypes, ContentsTypeOK, Gets, Rows

LEMMA NoRequestOK == NoRequest \in Gets /\ NoRequest.current = FALSE
BY DEF NoRequest, Gets, Queries, Sources

LEMMA ContentsInvInit == ContentsInit => ContentsInv
<1>. SUFFICES ASSUME ContentsInit  PROVE ContentsInv
  OBVIOUS
<1>1. [of |-> "none", error |-> FALSE] \in Rows /\ [long |-> FALSE, focused |-> FALSE] \in [long : BOOLEAN, focused : BOOLEAN]
  BY DEF Rows, Sources
<1>2. filtered \in BOOLEAN
  BY Zenon DEF ContentsInit
<1>3. lately \in [Queries -> BOOLEAN]
  BY Zenon DEF ContentsInit
<1>4. ContentsTypes
  BY <1>1, <1>2, <1>3, NoRequestOK DEF ContentsInit, ContentsTypes
<1>. QED  BY <1>4, NoRequestOK, ContentsTypesAre DEF ContentsInit, ContentsInv

\* A query is asked: the requests it waited for are dropped.
LEMMA ContentsAsks ==
  ASSUME ContentsInv, NEW q \in Requests, NEW w \in Queries, Ask(q, w)
  PROVE  ContentsInv'
<1>0. ContentsTypes
  BY ContentsTypesAre DEF ContentsInv
<1>. DEFINE by == IF signedIn = Nobody THEN "standIn" ELSE signedIn
            new == [what |-> w, by |-> by, at |-> "sent", current |-> TRUE]
            old(r) == [request[r] EXCEPT !.current = (@ /\ request[r].what # w)]
<1>1. request' = [r \in Requests |-> IF r = q THEN new ELSE old(r)]
      /\ UNCHANGED <<signedIn, shown, filtered, searchBar, lately>>
  BY DEF Ask
<1>2. by \in Sources /\ (signedIn # Nobody => by = signedIn)
  BY <1>0 DEF ContentsTypes, Sources
<1>. HIDE DEF by
<1>3. new \in Gets /\ new.what = w /\ new.by = by /\ new.current
  BY <1>2 DEF Gets
<1>4. ASSUME NEW r \in Requests
      PROVE  /\ old(r) \in Gets /\ old(r).what = request[r].what /\ old(r).by = request[r].by
             /\ (old(r).current => request[r].current /\ request[r].what # w)
  BY <1>0 DEF ContentsTypes, Gets
<1>. HIDE DEF new, old
<1>5. ContentsTypes'
  BY <1>0, <1>1, <1>3, <1>4 DEF ContentsTypes
<1>. QED  BY <1>1, <1>2, <1>3, <1>4, <1>5, ContentsTypesAre DEF ContentsInv

LEMMA ContentsAnswers ==
  ASSUME ContentsInv, NEW q \in Requests, NEW ok \in BOOLEAN, answers(q, ok)
  PROVE  ContentsInv'
<1>0. ContentsTypes
  BY ContentsTypesAre DEF ContentsInv
<1>. DEFINE w == request[q].what
            rows == IF ok THEN [of |-> request[q].by, error |-> FALSE] ELSE FallsBack(q)
<1>1. /\ w \in Queries /\ request[q].by \in Sources /\ request[q].current \in BOOLEAN
      /\ request' = [request EXCEPT ![q] = NoRequest]
      /\ UNCHANGED <<signedIn, filtered, searchBar>>
  BY <1>0 DEF answers, ContentsTypes, Gets
<1>2. /\ shown' = IF ~request[q].current THEN shown ELSE [shown EXCEPT ![w] = rows]
      /\ lately' = IF ok /\ request[q].current /\ request[q].by = signedIn
                   THEN [lately EXCEPT ![w] = FALSE] ELSE lately
  BY DEF answers
<1>3. rows \in Rows /\ rows.of \in {request[q].by, shown[w].of}
  <2>1. CASE ok
    BY <1>1, <2>1 DEF Rows
  <2>2. CASE ~ok /\ request[q].by = "standIn"
    BY <1>1, <2>2 DEF Rows, FallsBack
  <2>3. CASE ~ok /\ request[q].by # "standIn"
    <3>1. [shown[w] EXCEPT !.error = TRUE] \in Rows
          /\ [shown[w] EXCEPT !.error = TRUE].of = shown[w].of
      BY <1>0, <1>1 DEF ContentsTypes, Rows
    <3>2. rows = [shown[w] EXCEPT !.error = TRUE]
      BY <2>3 DEF FallsBack
    <3>. HIDE DEF rows
    <3>. QED  BY <3>1, <3>2
  <2>. QED  BY <2>1, <2>2, <2>3
<1>4. ok => rows.of = request[q].by
  OBVIOUS
<1>. HIDE DEF w, rows
<1>5. /\ lately' \in [Queries -> BOOLEAN]
      /\ \A v \in Queries : v # w => lately'[v] = lately[v]
      /\ (ok /\ request[q].current /\ request[q].by = signedIn) \/ lately' = lately
  <2>1. [lately EXCEPT ![w] = FALSE] \in [Queries -> BOOLEAN]
    BY <1>0, Zenon DEF ContentsTypes
  <2>. QED  BY <1>0, <1>2, <2>1 DEF ContentsTypes
<1>6. ContentsTypes'
  BY <1>0, <1>1, <1>2, <1>3, <1>5, NoRequestOK DEF ContentsTypes
<1>7. \A r, s \in Requests :
        request'[r].current /\ request'[s].current /\ request'[r].what = request'[s].what => r = s
  BY <1>0, <1>1, NoRequestOK DEF ContentsTypes, ContentsInv
<1>8. ASSUME NEW v \in Queries, signedIn' # Nobody, ~lately'[v]
      PROVE  /\ shown'[v].of \in {"none", signedIn}
             /\ \A r \in Requests : request'[r].current /\ request'[r].what = v => request'[r].by = signedIn
  <2>1. CASE v # w \/ ~request[q].current
    BY <1>0, <1>1, <1>2, <1>5, <1>8, <2>1, NoRequestOK DEF ContentsTypes, ContentsInv
  <2>2. CASE v = w /\ request[q].current
    <3>1. \A r \in Requests : ~(request'[r].current /\ request'[r].what = v)
      BY <1>0, <1>1, <2>2, NoRequestOK DEF ContentsTypes, ContentsInv, w
    <3>2. shown'[v] = rows
      BY <1>0, <1>1, <1>2, <2>2 DEF ContentsTypes
    <3>3. CASE ok /\ request[q].by = signedIn
      BY <1>4, <3>1, <3>2, <3>3
    <3>4. CASE ~(ok /\ request[q].by = signedIn)
      BY <1>1, <1>3, <1>5, <1>8, <2>2, <3>1, <3>2, <3>4 DEF ContentsInv, w
    <3>. QED  BY <3>3, <3>4
  <2>. QED  BY <2>1, <2>2
<1>. QED  BY <1>1, <1>6, <1>7, <1>8, ContentsTypesAre DEF ContentsInv

\* Another user: whatever has rows or a request is excused.
LEMMA ContentsSigns ==
  ASSUME ContentsInv, NEW u \in Users \cup {Nobody}, signs(u)
  PROVE  ContentsInv'
<1>0. ContentsTypes
  BY ContentsTypesAre DEF ContentsInv
<1>1. /\ signedIn' = u /\ UNCHANGED <<shown, request, filtered, searchBar>>
      /\ lately' = [w \in Queries |-> lately[w] \/ shown[w].of # "none" \/ Asked(w)]
  BY DEF signs
<1>2. lately' \in [Queries -> BOOLEAN]
  BY <1>0, <1>1 DEF ContentsTypes
<1>3. ContentsTypes'
  BY <1>0, <1>1, <1>2 DEF ContentsTypes
<1>4. ASSUME NEW w \in Queries, ~lately'[w]
      PROVE  shown[w].of = "none" /\ \A q \in Requests : ~(request[q].current /\ request[q].what = w)
  BY <1>1, <1>4 DEF Asked
<1>. QED  BY <1>1, <1>3, <1>4, ContentsTypesAre DEF ContentsInv

LEMMA ContentsInvNext == ContentsInv /\ [ContentsNext]_contentsPage => ContentsInv'
<1>. SUFFICES ASSUME ContentsInv, [ContentsNext]_contentsPage  PROVE ContentsInv'
  OBVIOUS
<1>0. ContentsTypes
  BY ContentsTypesAre DEF ContentsInv
<1>1. ASSUME NEW q \in Requests, useContents(q) \/ useSearchContents(q)
      PROVE  ContentsInv'
  BY <1>1, ContentsAsks DEF useContents, useSearchContents, Queries
<1>2. CASE setFilter \/ (\E long, focused \in BOOLEAN : setSearch(long, focused)) \/ UNCHANGED contentsPage
  <2>1. UNCHANGED <<signedIn, shown, request, lately>>
    BY <1>2 DEF setFilter, setSearch, contentsPage
  <2>2. filtered' \in BOOLEAN /\ searchBar' \in [long : BOOLEAN, focused : BOOLEAN]
    <3>1. CASE setFilter
      BY <1>0, <3>1 DEF setFilter, ContentsTypes
    <3>2. ASSUME NEW long \in BOOLEAN, NEW focused \in BOOLEAN, setSearch(long, focused)
          PROVE  filtered' \in BOOLEAN /\ searchBar' \in [long : BOOLEAN, focused : BOOLEAN]
      BY <1>0, <3>2 DEF setSearch, ContentsTypes
    <3>3. CASE UNCHANGED contentsPage
      BY <1>0, <3>3 DEF contentsPage, ContentsTypes
    <3>. QED  BY <1>2, <3>1, <3>2, <3>3
  <2>3. ContentsTypes'
    BY <1>0, <2>1, <2>2 DEF ContentsTypes
  <2>. QED  BY <2>1, <2>3, ContentsTypesAre DEF ContentsInv
<1>. QED  BY <1>1, <1>2, ContentsAnswers, ContentsSigns DEF ContentsNext

LEMMA ContentsAlways == Spec => [](ContentsTypeOK /\ RowsAreTheUsers)
<1>1. Init => ContentsInv
  BY ContentsInvInit DEF Init
<1>2. ContentsInv /\ [Next]_webClient => ContentsInv'
  BY ContentsInvNext, PartStep
<1>3. ContentsInv => ContentsTypeOK /\ RowsAreTheUsers
  BY DEF ContentsInv, RowsAreTheUsers
<1>. QED  BY <1>1, <1>2, <1>3, PTL DEF Spec

-----------------------------------------------------------------------------
(* The activity feed. *)

Items == [event : 0..MaxBroadcasts, nth : 0..MaxBroadcasts]

FeedShape ==
  /\ adapter \in BOOLEAN /\ tick \in 0..MaxBroadcasts
  /\ broadcasts \in Seq([kind : Kinds, from : Replicas]) /\ Len(broadcasts) = tick
  /\ wire \in Seq(1..MaxBroadcasts) /\ \A i \in 1..Len(wire) : wire[i] <= tick
  /\ conn \in [to : Replicas \cup {"none"}, left : 0..Attempts, nth : 0..MaxBroadcasts]
  /\ status \in BOOLEAN /\ heardAt \in 0..tick
  /\ liveItems \in Seq(Items) /\ Len(liveItems) <= Kept
  /\ \A i \in 1..Len(liveItems) : liveItems[i].event <= tick /\ liveItems[i].nth <= conn.nth

\* What is on the wire comes in the order of the server, after all that is
\* listed, and what is listed is in that order and heard.
InOrder ==
  /\ \A i, j \in 1..Len(wire) : i < j => wire[i] < wire[j]
  /\ \A i \in 1..Len(wire), j \in 1..Len(liveItems) : liveItems[j].event < wire[i]
  /\ \A i, j \in 1..Len(liveItems) :
       i < j /\ liveItems[i].event # 0 /\ liveItems[j].event # 0 => liveItems[i].event > liveItems[j].event
  /\ \A i \in 1..Len(liveItems) : liveItems[i].event # 0 => broadcasts[liveItems[i].event].kind \in Heard

\* An event due is listed, on its way, or fell off the end of a full list: what
\* is still to come is newer.
IsListed(n) == \E i \in 1..Len(liveItems) : liveItems[i].event = n /\ liveItems[i].nth = conn.nth
IsComing(n) == \E i \in 1..Len(wire) : wire[i] = n
FellOff(n) ==
  /\ Len(liveItems) = Kept
  /\ \A i \in 1..Len(liveItems) : liveItems[i].event = 0 \/ liveItems[i].event >= n
  /\ \A i \in 1..Len(wire) : wire[i] > n

NoneMissing ==
  conn.to # "none" => \A n \in heardAt + 1 .. tick : Due(n) => IsListed(n) \/ IsComing(n) \/ FellOff(n)

FeedInv == FeedShape /\ InOrder /\ NoneMissing

LEMMA FeedInvInit == FeedInit => FeedInv
<1>. SUFFICES ASSUME FeedInit  PROVE FeedInv
  OBVIOUS
<1>1. /\ <<>> \in Seq([kind : Kinds, from : Replicas]) /\ <<>> \in Seq(1..MaxBroadcasts)
      /\ <<>> \in Seq(Items) /\ Len(<<>>) = 0
  BY EmptySeq
<1>2. adapter \in BOOLEAN
  BY Zenon DEF FeedInit
<1>3. status \in BOOLEAN
  BY Zenon DEF FeedInit
<1>4. /\ conn \in [to : Replicas \cup {"none"}, left : 0..Attempts, nth : 0..MaxBroadcasts]
      /\ conn.to = "none"
  BY ActivityFeedAssumption DEF FeedInit
<1>5. FeedShape
  BY <1>1, <1>2, <1>3, <1>4, ActivityFeedAssumption DEF FeedInit, FeedShape
<1>6. InOrder
  BY <1>1 DEF FeedInit, InOrder
<1>7. NoneMissing
  BY <1>4 DEF NoneMissing
<1>. QED  BY <1>5, <1>6, <1>7 DEF FeedInv

\* What is left of a sequence without its head, element by element.
LEMMA TailOf ==
  ASSUME NEW S, NEW s \in Seq(S), s # <<>>, NEW t, t = Tail(s)
  PROVE  /\ 1 \in 1..Len(s) /\ Head(s) = s[1] /\ Head(s) \in S /\ t \in Seq(S) /\ Len(t) \in Nat
         /\ \A i \in 1..Len(t) : i + 1 \in 1..Len(s) /\ t[i] = s[i + 1]
         /\ \A i \in 1..Len(s) : i = 1 \/ (i - 1 \in 1..Len(t) /\ t[i - 1] = s[i])
<1>1. Len(s) \in Nat \ {0}
  BY EmptySeq
<1>2. /\ Head(s) \in S /\ t \in Seq(S) /\ Len(t) = Len(s) - 1
      /\ \A i \in 1..Len(t) : t[i] = s[i + 1]
  BY HeadTailProperties
<1>3. Head(s) = s[1]
  OBVIOUS
<1>4. PICK m \in Nat, n \in Nat : m = Len(t) /\ n = Len(s) /\ m = n - 1 /\ n # 0
  <2>1. Len(t) \in Nat /\ Len(s) \in Nat /\ Len(t) = Len(s) - 1 /\ Len(s) # 0
    BY <1>1, <1>2
  <2>. QED  BY <2>1, Zenon
<1>5. \A i \in 1..m : i + 1 \in 1..n
  BY <1>4
<1>6. \A i \in 1..n : i = 1 \/ (i - 1 \in 1..m /\ (i - 1) + 1 = i)
  BY <1>4
<1>7. \A i \in 1..n : i = 1 \/ (i - 1 \in 1..m /\ t[i - 1] = s[i])
  <2>1. \A i \in 1..m : t[i] = s[i + 1]
    BY <1>2, <1>4
  <2>. QED  BY <1>6, <2>1
<1>8. 1 \in 1..n
  BY <1>4
<1>. QED  BY <1>2, <1>3, <1>4, <1>5, <1>7, <1>8

\* A new item goes first, and the last one of a full list falls off.
LEMMA PrependIs ==
  ASSUME FeedShape, NEW item \in Items
  PROVE  /\ Prepend(item) \in Seq(Items)
         /\ Len(Prepend(item)) = IF Len(liveItems) < Kept THEN Len(liveItems) + 1 ELSE Kept
         /\ Prepend(item)[1] = item
         /\ \A i \in 2..Len(Prepend(item)) : Prepend(item)[i] = liveItems[i - 1]
<1>. DEFINE n == IF Len(liveItems) < Kept THEN Len(liveItems) + 1 ELSE Kept
            all == <<item>> \o liveItems
<1>1. liveItems \in Seq(Items) /\ Len(liveItems) \in Nat /\ Len(liveItems) <= Kept
  BY LenProperties DEF FeedShape
<1>2. n \in 1..Len(liveItems) + 1
  BY <1>1, ActivityFeedAssumption
<1>3. <<item>> \in Seq(Items) /\ Len(<<item>>) = 1 /\ <<item>>[1] = item
  OBVIOUS
<1>. HIDE DEF n
<1>4. /\ all \in Seq(Items) /\ Len(all) = 1 + Len(liveItems)
      /\ \A i \in 1..1 + Len(liveItems) : all[i] = IF i <= 1 THEN item ELSE liveItems[i - 1]
  BY <1>1, <1>3, ConcatProperties
<1>. HIDE DEF all
<1>5. \A i \in 1..n : all[i] \in Items
  BY <1>1, <1>2, <1>4, ElementOfSeq
<1>6. 1 \in Int /\ n \in Int
  BY <1>2
<1>7. /\ SubSeq(all, 1, n) \in Seq(Items)
      /\ Len(SubSeq(all, 1, n)) = IF 1 <= n THEN n - 1 + 1 ELSE 0
      /\ \A i \in 1..n - 1 + 1 : SubSeq(all, 1, n)[i] = all[1 + i - 1]
  BY <1>5, <1>6, SubSeqProperties
<1>8. Prepend(item) = SubSeq(all, 1, n)
  BY DEF Prepend, all, n
<1>9. /\ Len(Prepend(item)) = n /\ Prepend(item) \in Seq(Items)
      /\ \A i \in 1..n : Prepend(item)[i] = all[i]
  BY <1>2, <1>7, <1>8
<1>. QED  BY <1>1, <1>2, <1>4, <1>9 DEF n

\* An item that is made up, or the next on the wire, is listed.
LEMMA FeedLists ==
  ASSUME FeedInv, NEW item \in Items, liveItems' = Prepend(item),
         item.event <= tick, item.nth = conn.nth,
         UNCHANGED <<adapter, tick, broadcasts, conn, status, heardAt>>,
         \/ item.event = 0 /\ wire' = wire
         \/ /\ wire # <<>> /\ wire' = Tail(wire) /\ item.event = Head(wire)
            /\ broadcasts[item.event].kind \in Heard
  PROVE  FeedInv'
<1>0. FeedShape /\ InOrder /\ Len(liveItems) \in Nat /\ Len(wire) \in Nat /\ tick \in Nat /\ Kept \in Nat \ {0}
  BY LenProperties, ActivityFeedAssumption DEF FeedInv, FeedShape
<1>1. /\ liveItems' \in Seq(Items)
      /\ Len(liveItems') = IF Len(liveItems) < Kept THEN Len(liveItems) + 1 ELSE Kept
      /\ liveItems'[1] = item
      /\ \A i \in 2..Len(liveItems') : liveItems'[i] = liveItems[i - 1]
  BY <1>0, PrependIs
<1>2. Len(liveItems') \in 1..Len(liveItems) + 1 /\ Len(liveItems') <= Kept
  BY <1>0, <1>1 DEF FeedShape
<1>3. \A i \in 2..Len(liveItems') : i - 1 \in 1..Len(liveItems)
  BY <1>0, <1>2
<1>4. /\ wire' \in Seq(1..MaxBroadcasts) /\ Len(wire') \in Nat
      /\ \A i \in 1..Len(wire') : \E j \in 1..Len(wire) :
           wire'[i] = wire[j] /\ (item.event # 0 => wire[1] = item.event /\ j = i + 1)
      /\ \A i \in 1..Len(wire) : wire[i] \in 1..MaxBroadcasts
      /\ \A i \in 1..Len(wire) : (i = 1 /\ wire[1] = item.event) \/ \E j \in 1..Len(wire') : wire'[j] = wire[i]
      /\ item.event # 0 => 1 \in 1..Len(wire) /\ wire[1] = item.event
      /\ \A i, j \in 1..Len(wire') : i < j => wire'[i] < wire'[j]
  <2>0. wire \in Seq(1..MaxBroadcasts)
    BY <1>0 DEF FeedShape
  <2>1. \A i \in 1..Len(wire) : wire[i] \in 1..MaxBroadcasts
    BY <2>0, ElementOfSeq
  <2>2. CASE item.event = 0 /\ wire' = wire
    BY <1>0, <2>0, <2>1, <2>2 DEF InOrder
  <2>3. CASE wire # <<>> /\ wire' = Tail(wire) /\ item.event = Head(wire)
    <3>1. /\ 1 \in 1..Len(wire) /\ Head(wire) = wire[1]
          /\ wire' \in Seq(1..MaxBroadcasts) /\ Len(wire') \in Nat
          /\ \A i \in 1..Len(wire') : i + 1 \in 1..Len(wire) /\ wire'[i] = wire[i + 1]
          /\ \A i \in 1..Len(wire) : i = 1 \/ (i - 1 \in 1..Len(wire') /\ wire'[i - 1] = wire[i])
      BY <2>0, <2>3, TailOf
    <3>6. \A i, j \in 1..Len(wire') : i < j => wire'[i] < wire'[j]
      <4>1. SUFFICES ASSUME NEW i \in 1..Len(wire'), NEW j \in 1..Len(wire'), i < j
                     PROVE  wire'[i] < wire'[j]
        OBVIOUS
      <4>2. i + 1 < j + 1
        BY <4>1
      <4>. QED  BY <1>0, <3>1, <4>2 DEF InOrder
    <3>. QED  BY <2>1, <2>3, <3>1, <3>6
  <2>. QED  BY <2>2, <2>3
<1>5. \A i \in 1..Len(liveItems) : liveItems[i] \in Items
  BY <1>0, ElementOfSeq DEF FeedShape
<1>6. item.event \in 0..tick /\ item.nth <= conn.nth
  <2>1. item.event \in Nat /\ item.nth \in Nat
    BY ActivityFeedAssumption DEF Items
  <2>. QED  BY <1>0, <2>1
<1>7. \A i \in 1..Len(liveItems') :
        \/ i = 1 /\ liveItems'[i] = item
        \/ i - 1 \in 1..Len(liveItems) /\ liveItems'[i] = liveItems[i - 1]
  <2>1. \A i \in 1..Len(liveItems') : i = 1 \/ i \in 2..Len(liveItems')
    BY <1>2
  <2>. QED  BY <1>1, <1>3, <2>1
<1>8. FeedShape'
  <2>1. \A i \in 1..Len(wire') : wire'[i] <= tick
    BY <1>0, <1>4 DEF FeedShape
  <2>2. \A i \in 1..Len(liveItems') : liveItems'[i].event <= tick /\ liveItems'[i].nth <= conn.nth
    BY <1>0, <1>6, <1>7 DEF FeedShape
  <2>. QED  BY <1>0, <1>1, <1>2, <1>4, <2>1, <2>2 DEF FeedShape
<1>9. \A j \in 1..Len(liveItems) : item.event # 0 => liveItems[j].event < item.event
  BY <1>0, <1>4 DEF InOrder
<1>10. \A i \in 1..Len(wire') : item.event < wire'[i]
  <2>1. SUFFICES ASSUME NEW i \in 1..Len(wire')  PROVE item.event < wire'[i]
    OBVIOUS
  <2>2. PICK j \in 1..Len(wire) :
          wire'[i] = wire[j] /\ (item.event # 0 => wire[1] = item.event /\ j = i + 1)
    BY <1>4
  <2>3. CASE item.event = 0
    <3>1. wire[j] \in 1..MaxBroadcasts
      BY <1>4
    <3>. QED  BY <2>2, <2>3, <3>1
  <2>4. CASE item.event # 0
    <3>1. j = i + 1 /\ wire[1] = item.event /\ 1 \in 1..Len(wire) /\ 1 < j
      BY <1>4, <2>2, <2>4
    <3>. QED  BY <1>0, <2>2, <3>1 DEF InOrder
  <2>. QED  BY <2>3, <2>4
<1>11. InOrder'
  <2>1. \A i \in 1..Len(wire'), j \in 1..Len(liveItems') : liveItems'[j].event < wire'[i]
    BY <1>0, <1>4, <1>7, <1>10 DEF InOrder
  <2>2. ASSUME NEW i \in 1..Len(liveItems'), NEW j \in 1..Len(liveItems'), i < j,
               liveItems'[i].event # 0, liveItems'[j].event # 0
        PROVE  liveItems'[i].event > liveItems'[j].event
    <3>0. j \in Nat /\ j # 1 /\ i \in Nat \ {0}
      BY <1>2, <2>2
    <3>1. j - 1 \in 1..Len(liveItems) /\ liveItems'[j] = liveItems[j - 1] /\ liveItems[j - 1].event \in Nat
      <4>1. j - 1 \in 1..Len(liveItems) /\ liveItems'[j] = liveItems[j - 1]
        BY <1>7, <3>0
      <4>2. liveItems[j - 1] \in Items
        BY <1>5, <4>1
      <4>. QED  BY <4>1, <4>2, ActivityFeedAssumption DEF Items
    <3>2. CASE i = 1
      BY <1>1, <1>6, <1>9, <2>2, <3>1, <3>2
    <3>3. CASE i # 1
      <4>1. i - 1 \in 1..Len(liveItems) /\ liveItems'[i] = liveItems[i - 1] /\ i - 1 < j - 1
        BY <1>7, <2>2, <3>3
      <4>. QED  BY <1>0, <2>2, <3>1, <4>1 DEF InOrder
    <3>. QED  BY <3>2, <3>3
  <2>3. \A i \in 1..Len(liveItems') : liveItems'[i].event # 0 => broadcasts[liveItems'[i].event].kind \in Heard
    <3>1. item.event # 0 => broadcasts[item.event].kind \in Heard
      OBVIOUS
    <3>. QED  BY <1>0, <1>7, <3>1 DEF InOrder
  <2>. QED  BY <1>4, <2>1, <2>2, <2>3 DEF InOrder
<1>12. NoneMissing'
  <2>. SUFFICES ASSUME conn.to # "none", NEW n \in heardAt + 1 .. tick, Due(n)
                PROVE  IsListed(n)' \/ IsComing(n)' \/ FellOff(n)'
    BY DEF NoneMissing, Due
  <2>0. n \in Nat \ {0}
    BY <1>0 DEF FeedShape
  <2>1. IsListed(n) \/ IsComing(n) \/ FellOff(n)
    BY DEF FeedInv, NoneMissing
  <2>2. CASE IsComing(n)
    <3>1. PICK i \in 1..Len(wire) : wire[i] = n
      BY <2>2 DEF IsComing
    <3>2. CASE i = 1 /\ wire[1] = item.event
      <4>1. 1 \in 1..Len(liveItems') /\ liveItems'[1].event = n /\ liveItems'[1].nth = conn.nth
        BY <1>1, <1>2, <3>1, <3>2
      <4>. QED  BY <4>1 DEF IsListed
    <3>3. CASE \E j \in 1..Len(wire') : wire'[j] = wire[i]
      BY <3>1, <3>3 DEF IsComing
    <3>. QED  BY <1>4, <3>2, <3>3
  <2>3. CASE FellOff(n)
    <3>1. Len(liveItems') = Kept
      BY <1>0, <1>1, <2>3 DEF FellOff
    <3>2. item.event = 0 \/ item.event > n
      BY <1>4, <2>3 DEF FellOff
    <3>3. \A i \in 1..Len(liveItems') : liveItems'[i].event = 0 \/ liveItems'[i].event >= n
      BY <1>6, <1>7, <2>0, <2>3, <3>2 DEF FellOff
    <3>4. \A i \in 1..Len(wire') : wire'[i] > n
      BY <1>4, <2>3 DEF FellOff
    <3>. QED  BY <3>1, <3>3, <3>4 DEF FellOff
  <2>4. CASE IsListed(n)
    <3>1. PICK i \in 1..Len(liveItems) : liveItems[i].event = n /\ liveItems[i].nth = conn.nth
      BY <2>4 DEF IsListed
    <3>2. CASE i + 1 \in 1..Len(liveItems')
      <4>1. liveItems'[i + 1] = liveItems[i]
        BY <1>1, <3>2
      <4>. QED  BY <3>1, <3>2, <4>1 DEF IsListed
    <3>3. CASE i + 1 \notin 1..Len(liveItems')
      <4>1. i = Kept /\ Len(liveItems) = Kept /\ Len(liveItems') = Kept
        BY <1>0, <1>1, <3>3 DEF FeedShape
      <4>2. item.event = 0 \/ item.event > n
        BY <1>9, <3>1, <1>6, <2>0
      <4>3. \A j \in 1..Len(liveItems) : j < i => liveItems[j].event = 0 \/ liveItems[j].event > n
        BY <1>0, <2>0, <3>1 DEF InOrder
      <4>4. \A j \in 1..Len(liveItems') : liveItems'[j].event = 0 \/ liveItems'[j].event >= n
        <5>1. SUFFICES ASSUME NEW j \in 1..Len(liveItems')
                       PROVE  liveItems'[j].event = 0 \/ liveItems'[j].event >= n
          OBVIOUS
        <5>2. CASE j = 1
          BY <1>1, <1>6, <2>0, <4>2, <5>2
        <5>3. CASE j # 1
          <6>1. j - 1 \in 1..Len(liveItems) /\ j - 1 < i /\ liveItems'[j] = liveItems[j - 1]
            BY <1>7, <4>1, <5>3
          <6>2. liveItems[j - 1].event \in Nat
            BY <1>5, <6>1, ActivityFeedAssumption DEF Items
          <6>. QED  BY <2>0, <4>3, <6>1, <6>2
        <5>. QED  BY <5>2, <5>3
      <4>5. \A j \in 1..Len(wire') : wire'[j] > n
        BY <1>0, <1>4, <3>1, <2>0 DEF InOrder
      <4>. QED  BY <4>1, <4>4, <4>5 DEF FellOff
    <3>. QED  BY <3>2, <3>3
  <2>. QED  BY <2>1, <2>2, <2>3, <2>4
<1>. QED  BY <1>8, <1>11, <1>12 DEF FeedInv

\* What the client does not listen to goes by.
LEMMA FeedSkips ==
  ASSUME FeedInv, wire # <<>>, wire' = Tail(wire), broadcasts[Head(wire)].kind \notin Heard,
         UNCHANGED <<adapter, tick, broadcasts, conn, status, liveItems, heardAt>>
  PROVE  FeedInv'
<1>0. FeedShape /\ InOrder /\ wire \in Seq(1..MaxBroadcasts)
  BY DEF FeedInv, FeedShape
<1>1. /\ Head(wire) = wire[1] /\ wire' \in Seq(1..MaxBroadcasts) /\ Len(wire') \in Nat
      /\ \A i \in 1..Len(wire') : i + 1 \in 1..Len(wire) /\ wire'[i] = wire[i + 1]
      /\ \A i \in 1..Len(wire) : i = 1 \/ (i - 1 \in 1..Len(wire') /\ wire'[i - 1] = wire[i])
  BY <1>0, TailOf
<1>2. \A i, j \in 1..Len(wire') : i < j => i + 1 < j + 1
  OBVIOUS
<1>3. FeedShape'
  BY <1>0, <1>1, <1>2 DEF FeedShape
<1>4. InOrder'
  BY <1>0, <1>1, <1>2 DEF InOrder
<1>5. NoneMissing'
  <2>. SUFFICES ASSUME conn.to # "none", NEW n \in heardAt + 1 .. tick, Due(n)
                PROVE  IsListed(n)' \/ IsComing(n)' \/ FellOff(n)'
    BY DEF NoneMissing, Due
  <2>1. IsListed(n) \/ IsComing(n) \/ FellOff(n)
    BY DEF FeedInv, NoneMissing
  <2>2. n # wire[1]
    BY <1>1 DEF Due
  <2>3. IsComing(n) => IsComing(n)'
    BY <1>1, <2>2 DEF IsComing
  <2>4. (IsListed(n) => IsListed(n)') /\ (FellOff(n) => FellOff(n)')
    BY <1>1 DEF IsListed, FellOff
  <2>. QED  BY <2>1, <2>3, <2>4
<1>. QED  BY <1>3, <1>4, <1>5 DEF FeedInv

\* A broadcast is the newest, and reaches the sockets it is due to.
LEMMA FeedBroadcasts ==
  ASSUME FeedInv, NEW r \in Replicas, NEW kind \in Kinds, broadcast(r, kind)
  PROVE  FeedInv'
<1>0. /\ FeedShape /\ InOrder /\ tick \in 0..MaxBroadcasts - 1 /\ Len(wire) \in Nat
      /\ UNCHANGED <<adapter, conn, status, liveItems, heardAt>> /\ tick' = tick + 1
  BY LenProperties, ActivityFeedAssumption DEF FeedInv, FeedShape, broadcast
<1>. DEFINE sent == [kind |-> kind, from |-> r]
<1>1. sent \in [kind : Kinds, from : Replicas] /\ sent.kind = kind /\ sent.from = r
  OBVIOUS
<1>2. broadcasts' = Append(broadcasts, sent)
  BY DEF broadcast
<1>. HIDE DEF sent
<1>3. /\ broadcasts' \in Seq([kind : Kinds, from : Replicas]) /\ Len(broadcasts') = tick + 1
      /\ \A n \in 1..tick : broadcasts'[n] = broadcasts[n]
      /\ broadcasts'[tick + 1] = sent
  BY <1>0, <1>1, <1>2, AppendProperties DEF FeedShape
<1>4. /\ wire' \in Seq(1..MaxBroadcasts) /\ Len(wire') \in Nat
      /\ \A i \in 1..Len(wire) : i \in 1..Len(wire') /\ wire'[i] = wire[i]
      /\ \A i \in 1..Len(wire') : i \in 1..Len(wire) \/ (i = Len(wire) + 1 /\ wire'[i] = tick + 1)
      /\ Reaches(r) => \E i \in 1..Len(wire') : wire'[i] = tick + 1
  <2>1. tick + 1 \in 1..MaxBroadcasts
    BY <1>0, ActivityFeedAssumption
  <2>2. CASE Reaches(r)
    <3>0. wire' = Append(wire, tick + 1) /\ wire \in Seq(1..MaxBroadcasts)
      BY <1>0, <2>2 DEF broadcast, FeedShape
    <3>1. /\ wire' \in Seq(1..MaxBroadcasts) /\ Len(wire') = Len(wire) + 1
          /\ \A i \in 1..Len(wire) : wire'[i] = wire[i]
          /\ wire'[Len(wire) + 1] = tick + 1
      BY <2>1, <3>0, AppendProperties
    <3>2. PICK m \in Nat : m = Len(wire)
      BY <1>0
    <3>3. Len(wire') = m + 1 /\ m + 1 \in 1..m + 1 /\ (\A i \in 1..m : i \in 1..m + 1)
          /\ (\A i \in 1..m + 1 : i \in 1..m \/ i = m + 1)
      BY <3>1, <3>2
    <3>. QED  BY <3>1, <3>2, <3>3
  <2>3. CASE ~Reaches(r)
    <3>1. wire' = wire
      BY <2>3 DEF broadcast
    <3>. QED  BY <1>0, <2>3, <3>1 DEF FeedShape
  <2>. QED  BY <2>2, <2>3
<1>5. \A i \in 1..Len(liveItems) : liveItems[i] \in Items /\ liveItems[i].event \in 0..tick
  <2>1. \A i \in 1..Len(liveItems) : liveItems[i] \in Items
    BY <1>0, ElementOfSeq DEF FeedShape
  <2>2. \A i \in 1..Len(liveItems) : liveItems[i].event <= tick
    BY <1>0 DEF FeedShape
  <2>3. tick \in Nat /\ MaxBroadcasts \in Nat
    BY <1>0, ActivityFeedAssumption
  <2>4. \A item \in Items : item.event \in Nat
    BY <2>3 DEF Items
  <2>. QED  BY <2>1, <2>2, <2>3, <2>4
<1>6. \A i \in 1..Len(wire) : wire[i] \in 1..tick
  <2>1. \A i \in 1..Len(wire) : wire[i] \in 1..MaxBroadcasts
    BY <1>0, ElementOfSeq DEF FeedShape
  <2>. QED  BY <1>0, <2>1, ActivityFeedAssumption DEF FeedShape
<1>7. FeedShape'
  <2>1. tick' \in 0..MaxBroadcasts /\ tick < tick' /\ tick \in Nat
    BY <1>0, ActivityFeedAssumption
  <2>2. \A i \in 1..Len(wire') : wire'[i] <= tick'
    BY <1>0, <1>4, <1>6, <2>1
  <2>3. \A i \in 1..Len(liveItems) : liveItems[i].event <= tick' /\ liveItems[i].nth <= conn.nth
    BY <1>0, <1>5, <2>1 DEF FeedShape
  <2>4. heardAt \in 0..tick'
    BY <1>0, <2>1 DEF FeedShape
  <2>. QED  BY <1>0, <1>3, <1>4, <2>1, <2>2, <2>3, <2>4 DEF FeedShape
<1>8. InOrder'
  <2>1. ASSUME NEW i \in 1..Len(wire'), NEW j \in 1..Len(wire'), i < j
        PROVE  wire'[i] < wire'[j]
    <3>0. Len(wire) \in Nat /\ tick \in Nat
      BY <1>0, ActivityFeedAssumption
    <3>1. i \in 1..Len(wire) /\ wire'[i] = wire[i]
      BY <1>4, <2>1, <3>0
    <3>2. CASE j \in 1..Len(wire)
      BY <1>0, <1>4, <2>1, <3>1, <3>2 DEF InOrder
    <3>3. CASE wire'[j] = tick + 1
      BY <1>6, <3>0, <3>1, <3>3
    <3>. QED  BY <1>4, <3>2, <3>3
  <2>2. ASSUME NEW i \in 1..Len(wire'), NEW j \in 1..Len(liveItems)
        PROVE  liveItems[j].event < wire'[i]
    <3>1. CASE i \in 1..Len(wire)
      BY <1>0, <1>4, <3>1 DEF InOrder
    <3>2. CASE wire'[i] = tick + 1
      BY <1>0, <1>5, <3>2
    <3>. QED  BY <1>4, <3>1, <3>2
  <2>3. \A i \in 1..Len(liveItems) : liveItems[i].event # 0 => broadcasts'[liveItems[i].event].kind \in Heard
    BY <1>0, <1>3, <1>5 DEF InOrder
  <2>. QED  BY <1>0, <2>1, <2>2, <2>3 DEF InOrder
<1>9. NoneMissing'
  <2>. SUFFICES ASSUME conn.to # "none", NEW n \in heardAt + 1 .. tick + 1, Due(n)'
                PROVE  IsListed(n)' \/ IsComing(n)' \/ FellOff(n)'
    BY <1>0 DEF NoneMissing
  <2>1. CASE n = tick + 1
    <3>1. Reaches(r)
      BY <1>0, <1>1, <1>3, <2>1 DEF Due, Reaches
    <3>. QED  BY <1>4, <2>1, <3>1 DEF IsComing
  <2>2. CASE n # tick + 1
    <3>1. n \in heardAt + 1 .. tick /\ n \in 1..tick
      BY <1>0, <2>2 DEF FeedShape
    <3>2. Due(n)
      BY <1>0, <1>3, <3>1 DEF Due
    <3>3. IsListed(n) \/ IsComing(n) \/ FellOff(n)
      BY <3>1, <3>2 DEF FeedInv, NoneMissing
    <3>4. IsListed(n) => IsListed(n)'
      BY <1>0 DEF IsListed
    <3>5. IsComing(n) => IsComing(n)'
      BY <1>4 DEF IsComing
    <3>6. FellOff(n) => FellOff(n)'
      BY <1>0, <1>4, <3>1 DEF FellOff
    <3>. QED  BY <3>3, <3>4, <3>5, <3>6
  <2>. QED  BY <2>1, <2>2
<1>. QED  BY <1>7, <1>8, <1>9 DEF FeedInv

\* The socket: nothing is on the wire of another connection, and nothing is
\* due before one is made.
LEMMA FeedSocket ==
  ASSUME FeedInv, UNCHANGED <<adapter, tick, broadcasts>>,
         \/ (\E r \in Replicas : connect(r)) \/ connectFails \/ disconnect \/ remount
  PROVE  FeedInv'
<1>0. FeedShape /\ InOrder
  BY DEF FeedInv
<1>1. <<>> \in Seq(1..MaxBroadcasts) /\ <<>> \in Seq(Items) /\ Len(<<>>) = 0
  BY EmptySeq
<1>2. /\ conn' \in [to : Replicas \cup {"none"}, left : 0..Attempts, nth : 0..MaxBroadcasts]
      /\ conn.nth <= conn'.nth /\ conn'.nth \in Nat /\ conn.nth \in Nat
      /\ conn'.to = "none" \/ heardAt' = tick
  <2>0. conn \in [to : Replicas \cup {"none"}, left : 0..Attempts, nth : 0..MaxBroadcasts] /\ conn.nth \in Nat
    BY <1>0, ActivityFeedAssumption DEF FeedShape
  <2>1. CASE \E r \in Replicas : connect(r)
    BY <2>0, <2>1, ActivityFeedAssumption DEF connect
  <2>2. CASE connectFails
    BY <2>0, <2>2, ActivityFeedAssumption DEF connectFails
  <2>3. CASE disconnect
    BY <2>0, <2>3 DEF disconnect
  <2>4. CASE remount
    <3>1. conn' = [conn EXCEPT !.to = "none", !.left = Attempts] /\ Attempts \in 0..Attempts
      BY <2>4, ActivityFeedAssumption DEF remount
    <3>2. /\ conn' \in [to : Replicas \cup {"none"}, left : 0..Attempts, nth : 0..MaxBroadcasts]
          /\ conn'.nth = conn.nth /\ conn'.to = "none"
      BY <2>0, <3>1
    <3>. QED  BY <2>0, <3>2
  <2>. QED  BY <2>1, <2>2, <2>3, <2>4
<1>3. heardAt' \in 0..tick /\ (wire' = wire \/ wire' = <<>>) /\ (liveItems' = liveItems \/ liveItems' = <<>>)
  BY <1>0 DEF connect, connectFails, disconnect, remount, FeedShape
<1>4. status' \in BOOLEAN
  <2>1. CASE remount
    BY <2>1, Zenon DEF remount
  <2>2. CASE ~remount
    BY <1>0, <2>2 DEF connect, connectFails, disconnect, FeedShape
  <2>. QED  BY <2>1, <2>2
<1>5. \A i \in 1..Len(liveItems) : liveItems[i].nth \in Nat
  <2>1. \A i \in 1..Len(liveItems) : liveItems[i] \in Items
    BY <1>0, ElementOfSeq DEF FeedShape
  <2>. QED  BY <2>1, ActivityFeedAssumption DEF Items
<1>6. FeedShape'
  <2>1. \A i \in 1..Len(liveItems) : liveItems[i].nth <= conn'.nth
    BY <1>0, <1>2, <1>5 DEF FeedShape
  <2>2. wire' \in Seq(1..MaxBroadcasts) /\ \A i \in 1..Len(wire') : wire'[i] <= tick
    <3>1. CASE wire' = wire
      BY <1>0, <3>1 DEF FeedShape
    <3>2. CASE wire' = <<>>
      <4>1. wire' \in Seq(1..MaxBroadcasts) /\ Len(wire') = 0
        BY <1>1, <3>2
      <4>. QED  BY <4>1
    <3>. QED  BY <1>3, <3>1, <3>2
  <2>3. /\ liveItems' \in Seq(Items) /\ Len(liveItems') <= Kept
        /\ \A i \in 1..Len(liveItems') : liveItems'[i].event <= tick /\ liveItems'[i].nth <= conn'.nth
    <3>1. CASE liveItems' = liveItems
      BY <1>0, <2>1, <3>1 DEF FeedShape
    <3>2. CASE liveItems' = <<>>
      <4>1. liveItems' \in Seq(Items) /\ Len(liveItems') = 0
        BY <1>1, <3>2
      <4>. QED  BY <4>1, ActivityFeedAssumption
    <3>. QED  BY <1>3, <3>1, <3>2
  <2>. QED  BY <1>0, <1>2, <1>3, <1>4, <2>2, <2>3 DEF FeedShape
<1>7. InOrder'
  BY <1>0, <1>1, <1>3 DEF InOrder
<1>8. NoneMissing'
  BY <1>0, <1>2, <1>3 DEF NoneMissing, FeedShape
<1>. QED  BY <1>6, <1>7, <1>8 DEF FeedInv

LEMMA FeedInvNext == FeedInv /\ [FeedNext]_feed => FeedInv'
<1>. SUFFICES ASSUME FeedInv, [FeedNext]_feed  PROVE FeedInv'
  OBVIOUS
<1>0. FeedShape
  BY DEF FeedInv
<1>1. CASE (\E r \in Replicas : connect(r)) \/ connectFails \/ disconnect \/ remount
  <2>1. UNCHANGED <<adapter, tick, broadcasts>>
    BY <1>1 DEF connect, connectFails, disconnect, remount
  <2>. QED  BY <1>1, <2>1, FeedSocket
<1>2. CASE statusChanges \/ UNCHANGED feed
  <2>1. UNCHANGED <<adapter, tick, broadcasts, wire, conn, liveItems, heardAt>>
    BY <1>2 DEF statusChanges, feed
  <2>2. status' \in BOOLEAN
    BY <1>0, <1>2 DEF statusChanges, feed, FeedShape
  <2>3. FeedShape'
    BY <1>0, <2>1, <2>2 DEF FeedShape
  <2>4. InOrder' /\ NoneMissing'
    BY <2>1 DEF FeedInv, InOrder, NoneMissing, Due, IsListed, IsComing, FellOff
  <2>. QED  BY <2>3, <2>4 DEF FeedInv
<1>3. CASE onEvent_
  <2>0. wire # <<>> /\ wire' = Tail(wire) /\ UNCHANGED <<adapter, tick, broadcasts, conn, status, heardAt>>
    BY <1>3 DEF onEvent_
  <2>1. CASE broadcasts[Head(wire)].kind \in Heard
    <3>. DEFINE item == [event |-> Head(wire), nth |-> conn.nth]
    <3>1. Head(wire) \in 1..MaxBroadcasts /\ Head(wire) <= tick
      <4>1. wire \in Seq(1..MaxBroadcasts) /\ \A i \in 1..Len(wire) : wire[i] <= tick
        BY <1>0 DEF FeedShape
      <4>2. 1 \in 1..Len(wire) /\ Head(wire) = wire[1] /\ Head(wire) \in 1..MaxBroadcasts
        BY <2>0, <4>1, TailOf
      <4>. QED  BY <4>1, <4>2
    <3>2. item \in Items /\ item.event = Head(wire) /\ item.nth = conn.nth
      BY <1>0, <3>1 DEF FeedShape, Items
    <3>3. liveItems' = Prepend(item)
      BY <1>3, <2>1 DEF onEvent_, Listed
    <3>. HIDE DEF item
    <3>. QED  BY <2>0, <2>1, <3>1, <3>2, <3>3, FeedLists
  <2>2. CASE broadcasts[Head(wire)].kind \notin Heard
    <3>1. liveItems' = liveItems
      BY <1>3, <2>2 DEF onEvent_, Listed
    <3>. QED  BY <2>0, <2>2, <3>1, FeedSkips
  <2>. QED  BY <2>1, <2>2
<1>4. CASE makeUp
  <2>. DEFINE item == [event |-> 0, nth |-> conn.nth]
  <2>1. item \in Items /\ item.event = 0 /\ item.nth = conn.nth /\ item.event <= tick
    BY <1>0, ActivityFeedAssumption DEF FeedShape, Items
  <2>2. /\ liveItems' = Prepend(item) /\ wire' = wire
        /\ UNCHANGED <<adapter, tick, broadcasts, conn, status, heardAt>>
    BY <1>4 DEF makeUp
  <2>. HIDE DEF item
  <2>. QED  BY <2>1, <2>2, FeedLists
<1>. QED  BY <1>1, <1>2, <1>3, <1>4, FeedBroadcasts DEF FeedNext

LEMMA FeedIs == FeedInv => FeedTypeOK /\ FeedIsWhole
<1>. SUFFICES ASSUME FeedInv  PROVE FeedTypeOK /\ FeedIsWhole
  OBVIOUS
<1>0. FeedShape /\ InOrder /\ DOMAIN wire = 1..Len(wire) /\ DOMAIN liveItems = 1..Len(liveItems)
  BY LenProperties DEF FeedInv, FeedShape
<1>1. /\ \A i \in 1..Len(wire) : wire[i] \in 1..tick
      /\ \A i \in 1..Len(liveItems) : liveItems[i].event \in 0..tick /\ liveItems[i].nth \in 0..conn.nth
  <2>1. \A i \in 1..Len(wire) : wire[i] \in 1..MaxBroadcasts
    BY <1>0, ElementOfSeq DEF FeedShape
  <2>2. \A i \in 1..Len(liveItems) : liveItems[i] \in Items
    BY <1>0, ElementOfSeq DEF FeedShape
  <2>. QED  BY <1>0, <2>1, <2>2, ActivityFeedAssumption DEF FeedShape, Items
<1>2. \A n \in 1..tick : broadcasts[n] \in [kind : Kinds, from : Replicas]
  BY <1>0, ElementOfSeq DEF FeedShape
<1>3. FeedTypeOK
  BY <1>0, <1>1, <1>2 DEF FeedShape, FeedTypeOK
<1>. DEFINE Now == {liveItems[i].event : i \in {j \in DOMAIN liveItems : liveItems[j].nth = conn.nth}} \ {0}
            Coming == {wire[i] : i \in DOMAIN wire}
<1>4. ASSUME conn.to # "none", NEW n \in heardAt + 1 .. tick, Due(n)
      PROVE  \/ n \in Now \cup Coming
             \/ Len(liveItems) = Kept /\ \A i \in DOMAIN liveItems : liveItems[i].event \in {0} \cup n..tick
  <2>1. n # 0
    BY <1>0 DEF FeedShape
  <2>2. IsListed(n) \/ IsComing(n) \/ FellOff(n)
    BY <1>4 DEF FeedInv, NoneMissing
  <2>3. IsListed(n) => n \in Now
    BY <1>0, <2>1 DEF IsListed
  <2>4. IsComing(n) => n \in Coming
    BY <1>0 DEF IsComing
  <2>5. FellOff(n) => Len(liveItems) = Kept /\ \A i \in DOMAIN liveItems : liveItems[i].event \in {0} \cup n..tick
    BY <1>0, <1>1 DEF FellOff, FeedShape
  <2>. QED  BY <2>2, <2>3, <2>4, <2>5
<1>5. FeedIsWhole
  BY <1>0, <1>4 DEF InOrder, FeedIsWhole
<1>. QED  BY <1>3, <1>5

LEMMA FeedAlways == Spec => [](FeedTypeOK /\ FeedIsWhole)
<1>1. Init => FeedInv
  BY FeedInvInit DEF Init
<1>2. FeedInv /\ [Next]_webClient => FeedInv'
  BY FeedInvNext, PartStep
<1>. QED  BY <1>1, <1>2, FeedIs, PTL DEF Spec

-----------------------------------------------------------------------------
(* The mobile pages. *)

\* A submission after n steps of the pipeline.
Stage(n) == IF n = 0 THEN Absent ELSE [step |-> allSteps[n], history |-> SubSeq(allSteps, 1, n)]

\* Every copy has every submission at a stage.
Copies == [Submissions -> {Stage(n) : n \in 0..5}]

MobileShape ==
  /\ memory \in [Tabs -> Copies] /\ stored \in Copies
  /\ screen \in [Tabs -> Submissions \cup {"closed", "contenus", "publish"}]
  /\ tabForm \in [Tabs -> [title : BOOLEAN, body : BOOLEAN]]
  /\ forms \in 0..MaxForms /\ made \subseteq Submissions /\ behind \in BOOLEAN

\* What was never submitted is in no copy.
NoneUnmade ==
  \A s \in Submissions \ made : stored[s] = Absent /\ \A t \in Tabs : memory[t][s] = Absent

\* Whoever writes wrote last has read what was written before.
NoneLost ==
  ~behind =>
    \A s \in Submissions :
      /\ s \in made => stored[s].step # "none"
      /\ \A t \in Tabs : Len(memory[t][s].history) <= Len(stored[s].history)

MobileInv == MobileShape /\ NoneUnmade /\ NoneLost

\* What a stage is: the first steps of the pipeline.
LEMMA StageIs ==
  ASSUME NEW n \in 0..5
  PROVE  /\ n = 0 => Stage(n) = Absent /\ Stage(n).step = "none" /\ Len(Stage(n).history) = 0
         /\ n # 0 => /\ Stage(n).step = allSteps[n]
                     /\ Stage(n).history = SubSeq(allSteps, 1, n)
                     /\ Stage(n).step \in Steps_
         /\ Len(Stage(n).history) = n
         /\ Stage(n).step = "none" <=> n = 0
         /\ Stage(n) \in Submission
<1>1. CASE n = 0
  <2>1. Stage(n) = Absent
    BY <1>1 DEF Stage
  <2>2. Absent.step = "none" /\ Absent.history = <<>> /\ Len(Absent.history) = 0
    BY DEF Absent
  <2>3. <<>> \in [1..0 -> Steps_]
    OBVIOUS
  <2>4. <<>> \in UNION {[1..k -> Steps_] : k \in 0..5}
    BY <2>3
  <2>5. Absent \in Submission
    BY <2>4 DEF Absent, Submission
  <2>. QED  BY <1>1, <2>1, <2>2, <2>5
<1>2. CASE n # 0
  <2>1. n \in 1..5 /\ \A i \in 1..n : allSteps[i] \in Steps_
    BY <1>2 DEF Steps_
  <2>2. /\ SubSeq(allSteps, 1, n) \in Seq(Steps_) /\ Len(SubSeq(allSteps, 1, n)) = n
    BY <2>1, SubSeqProperties
  <2>3. SubSeq(allSteps, 1, n) \in [1..n -> Steps_]
    BY <2>2, LenProperties
  <2>4. SubSeq(allSteps, 1, n) \in UNION {[1..k -> Steps_] : k \in 0..5}
    BY <2>3
  <2>5. Stage(n) = [step |-> allSteps[n], history |-> SubSeq(allSteps, 1, n)]
    BY <1>2 DEF Stage
  <2>6. allSteps[n] # "none"
    BY <2>1 DEF allSteps
  <2>7. allSteps[n] \in Steps_
    BY <2>1
  <2>. HIDE DEF Stage
  <2>8. /\ Stage(n).step = allSteps[n] /\ Stage(n).history = SubSeq(allSteps, 1, n)
        /\ Stage(n) \in Submission
    BY <2>4, <2>5, <2>7 DEF Submission
  <2>. QED  BY <1>2, <2>2, <2>6, <2>7, <2>8
<1>. QED  BY <1>1, <1>2

\* An approval takes a submission from one stage to the next.
LEMMA StageAdvances ==
  ASSUME NEW n \in 1..4
  PROVE  Advanced(Stage(n)) = Stage(n + 1)
<1>1. nextStep_(allSteps[n]) = allSteps[n + 1]
  BY DEF nextStep_, allSteps
<1>2. Append(SubSeq(allSteps, 1, n), allSteps[n + 1]) = SubSeq(allSteps, 1, n + 1)
  <2>1. \A i \in 1..n + 1 : allSteps[i] \in Steps_
    BY DEF Steps_
  <2>2. /\ SubSeq(allSteps, 1, n) \in Seq(Steps_) /\ Len(SubSeq(allSteps, 1, n)) = n
        /\ \A i \in 1..n : SubSeq(allSteps, 1, n)[i] = allSteps[i]
        /\ SubSeq(allSteps, 1, n + 1) \in Seq(Steps_) /\ Len(SubSeq(allSteps, 1, n + 1)) = n + 1
        /\ \A i \in 1..n + 1 : SubSeq(allSteps, 1, n + 1)[i] = allSteps[i]
    <3>1. \A i \in 1..n : allSteps[i] \in Steps_
      BY <2>1
    <3>2. /\ SubSeq(allSteps, 1, n) \in Seq(Steps_) /\ Len(SubSeq(allSteps, 1, n)) = n
          /\ \A i \in 1..n : SubSeq(allSteps, 1, n)[i] = allSteps[1 + i - 1]
      BY <3>1, SubSeqProperties
    <3>3. /\ SubSeq(allSteps, 1, n + 1) \in Seq(Steps_) /\ Len(SubSeq(allSteps, 1, n + 1)) = n + 1
          /\ \A i \in 1..n + 1 : SubSeq(allSteps, 1, n + 1)[i] = allSteps[1 + i - 1]
      BY <2>1, SubSeqProperties
    <3>4. \A i \in 1..n + 1 : 1 + i - 1 = i
      OBVIOUS
    <3>. QED  BY <3>2, <3>3, <3>4
  <2>. DEFINE a == SubSeq(allSteps, 1, n)
              b == SubSeq(allSteps, 1, n + 1)
              c == Append(a, allSteps[n + 1])
  <2>3. /\ c \in Seq(Steps_) /\ Len(c) = n + 1 /\ c[n + 1] = allSteps[n + 1]
        /\ \A i \in 1..n : c[i] = a[i]
    BY <2>1, <2>2, AppendProperties
  <2>. HIDE DEF a, b, c
  <2>4. \A i \in 1..Len(c) : c[i] = b[i]
    BY <2>2, <2>3 DEF a, b
  <2>5. c = b
    BY <2>2, <2>3, <2>4, SeqEqual DEF b
  <2>. QED  BY <2>5 DEF a, b, c
<1>3. Stage(n).step = allSteps[n] /\ Stage(n).history = SubSeq(allSteps, 1, n)
  <2>1. n \in 0..5 /\ n # 0
    OBVIOUS
  <2>. QED  BY <2>1, StageIs
<1>4. Stage(n + 1) = [step |-> allSteps[n + 1], history |-> SubSeq(allSteps, 1, n + 1)]
  BY DEF Stage
<1>. QED  BY <1>1, <1>2, <1>3, <1>4 DEF Advanced

\* Of one copy: where a submission is, and how long its history.
LEMMA CopyIs ==
  ASSUME NEW copy \in Copies, NEW s \in Submissions
  PROVE  \E n \in 0..5 : copy[s] = Stage(n) /\ Len(copy[s].history) = n
<1>1. PICK n \in 0..5 : copy[s] = Stage(n)
  BY DEF Copies
<1>. QED  BY <1>1, StageIs

LEMMA EmptyIs == Empty \in Copies /\ \A s \in Submissions : Empty[s] = Absent
BY DEF Empty, Copies, Stage

LEMMA MobileInvInit == MobileInit => MobileInv
<1>. SUFFICES ASSUME MobileInit  PROVE MobileInv
  OBVIOUS
<1>1. behind \in BOOLEAN
  BY Zenon DEF MobileInit
<1>2. NoForm \in [title : BOOLEAN, body : BOOLEAN]
  BY DEF NoForm
<1>3. MobileShape
  BY <1>1, <1>2, EmptyIs, MobileAppAssumption DEF MobileInit, MobileShape
<1>4. NoneUnmade
  BY EmptyIs DEF MobileInit, NoneUnmade
<1>5. NoneLost
  BY EmptyIs DEF MobileInit, NoneLost, Absent
<1>. QED  BY <1>3, <1>4, <1>5 DEF MobileInv

\* A tab writes all it has, with one submission at another stage: no earlier,
\* if it was made before.
LEMMA MobileWrites ==
  ASSUME MobileInv, NEW t \in Tabs, NEW s \in Submissions, NEW n \in 1..5,
         Set_(t, [memory[t] EXCEPT ![s] = Stage(n)]),
         made' = made \cup {s},
         s \in made => Len(memory[t][s].history) <= n,
         screen' \in [Tabs -> Submissions \cup {"closed", "contenus", "publish"}],
         tabForm' \in [Tabs -> [title : BOOLEAN, body : BOOLEAN]], forms' = forms
  PROVE  MobileInv'
<1>0. MobileShape /\ memory[t] \in Copies
  BY DEF MobileInv, MobileShape
<1>. DEFINE copy == [memory[t] EXCEPT ![s] = Stage(n)]
<1>1. /\ copy \in Copies /\ copy[s] = Stage(n) /\ \A r \in Submissions \ {s} : copy[r] = memory[t][r]
  <2>1. Stage(n) \in {Stage(m) : m \in 0..5}
    OBVIOUS
  <2>. HIDE DEF Stage
  <2>. QED  BY <1>0, <2>1 DEF Copies
<1>2. /\ memory' = [memory EXCEPT ![t] = copy] /\ stored' = copy
      /\ behind' = (behind \/ stored # memory[t])
  BY DEF Set_
<1>3. Stage(n).step # "none" /\ Len(Stage(n).history) = n
  <2>1. n \in 0..5 /\ n # 0
    OBVIOUS
  <2>. QED  BY <2>1, StageIs
<1>. HIDE DEF copy, Copies
<1>4. behind' \in BOOLEAN /\ (~behind' => ~behind /\ stored = memory[t])
  BY <1>0, <1>2 DEF MobileShape
<1>5. MobileShape'
  BY <1>0, <1>1, <1>2, <1>4 DEF MobileShape
<1>6. NoneUnmade'
  <2>. SUFFICES ASSUME NEW r \in Submissions \ made'
                PROVE  stored'[r] = Absent /\ \A u \in Tabs : memory'[u][r] = Absent
    BY DEF NoneUnmade
  <2>1. r # s /\ r \notin made
    OBVIOUS
  <2>2. copy[r] = Absent
    BY <1>1, <2>1 DEF MobileInv, NoneUnmade
  <2>3. ASSUME NEW u \in Tabs
        PROVE  memory'[u][r] = Absent
    <3>1. CASE u = t
      BY <1>0, <1>2, <2>2, <3>1 DEF MobileShape
    <3>2. CASE u # t
      BY <1>0, <1>2, <2>1, <3>2 DEF MobileShape, MobileInv, NoneUnmade
    <3>. QED  BY <3>1, <3>2
  <2>. QED  BY <1>2, <2>2, <2>3
<1>7. NoneLost'
  <2>. SUFFICES ASSUME ~behind', NEW r \in Submissions
                PROVE  /\ r \in made' => stored'[r].step # "none"
                       /\ \A u \in Tabs : Len(memory'[u][r].history) <= Len(stored'[r].history)
    BY DEF NoneLost
  <2>1. /\ r \in made => stored[r].step # "none"
        /\ \A u \in Tabs : Len(memory[u][r].history) <= Len(stored[r].history)
        /\ stored = memory[t]
    BY <1>4 DEF MobileInv, NoneLost
  <2>2. r \in made' => copy[r].step # "none"
    BY <1>1, <1>3, <2>1
  <2>3. Len(stored[r].history) <= Len(copy[r].history)
    <3>1. CASE r # s
      <4>1. PICK m \in 0..5 : Len(stored[r].history) = m
        BY <1>0, CopyIs DEF MobileShape
      <4>. QED  BY <1>1, <2>1, <3>1, <4>1
    <3>2. CASE r = s /\ s \in made
      BY <1>1, <1>3, <2>1, <3>2
    <3>3. CASE r = s /\ s \notin made
      <4>1. stored[s] = Absent /\ Len(Absent.history) = 0
        BY <3>3 DEF MobileInv, NoneUnmade, Absent
      <4>. QED  BY <1>1, <1>3, <3>3, <4>1
    <3>. QED  BY <3>1, <3>2, <3>3
  <2>4. ASSUME NEW u \in Tabs
        PROVE  Len(memory'[u][r].history) <= Len(copy[r].history)
    <3>1. PICK m \in 0..5 : Len(copy[r].history) = m
      BY <1>1, CopyIs
    <3>2. PICK l \in 0..5 : Len(stored[r].history) = l
      BY <1>0, CopyIs DEF MobileShape
    <3>3. memory[u] \in Copies
      BY <1>0 DEF MobileShape
    <3>4. PICK k \in 0..5 : Len(memory[u][r].history) = k
      BY <3>3, CopyIs
    <3>5. CASE u = t
      BY <1>0, <1>2, <3>1, <3>5 DEF MobileShape
    <3>6. CASE u # t
      <4>1. memory'[u] = memory[u]
        BY <1>0, <1>2, <3>6 DEF MobileShape
      <4>. QED  BY <2>1, <2>3, <3>1, <3>2, <3>4, <4>1
    <3>. QED  BY <3>5, <3>6
  <2>. QED  BY <1>2, <2>2, <2>4
<1>. QED  BY <1>5, <1>6, <1>7 DEF MobileInv

LEMMA MobileSubmits ==
  ASSUME MobileInv, NEW t \in Tabs, NEW s \in Submissions, handleSubmit_(t, s)
  PROVE  MobileInv'
<1>0. MobileShape
  BY DEF MobileInv
<1>1. Stage(1) = [step |-> "submitted", history |-> <<"submitted">>]
  <2>1. allSteps[1] = "submitted"
    BY DEF allSteps
  <2>2. SubSeq(allSteps, 1, 1) = <<"submitted">>
    <3>1. \A i \in 1..1 : allSteps[i] \in {"submitted"}
      BY <2>1
    <3>2. /\ SubSeq(allSteps, 1, 1) \in Seq({"submitted"}) /\ Len(SubSeq(allSteps, 1, 1)) = 1
          /\ \A i \in 1..1 : SubSeq(allSteps, 1, 1)[i] \in {"submitted"}
      BY <3>1, SubSeqProperties, ElementOfSeq
    <3>3. <<"submitted">> \in Seq({"submitted"}) /\ Len(<<"submitted">>) = 1
          /\ <<"submitted">>[1] = "submitted"
      OBVIOUS
    <3>. DEFINE a == SubSeq(allSteps, 1, 1)
                b == <<"submitted">>
    <3>4. \A i \in 1..Len(a) : a[i] = b[i]
      BY <3>2, <3>3
    <3>. QED  BY <3>2, <3>3, <3>4, SeqEqual
  <2>. QED  BY <2>1, <2>2 DEF Stage
<1>2. /\ Set_(t, [memory[t] EXCEPT ![s] = Stage(1)]) /\ made' = made \cup {s} /\ s \notin made
      /\ screen' = [screen EXCEPT ![t] = s] /\ tabForm' = [tabForm EXCEPT ![t] = NoForm]
      /\ forms' = forms
  BY <1>1 DEF handleSubmit_, submit
<1>3. /\ screen' \in [Tabs -> Submissions \cup {"closed", "contenus", "publish"}]
      /\ tabForm' \in [Tabs -> [title : BOOLEAN, body : BOOLEAN]]
  BY <1>0, <1>2 DEF MobileShape, NoForm
<1>4. 1 \in 1..5
  OBVIOUS
<1>. HIDE DEF Stage
<1>. QED  BY <1>2, <1>3, <1>4, MobileWrites

LEMMA MobileAdvances ==
  ASSUME MobileInv, NEW t \in Tabs, NEW s \in Submissions, handleAdvance_(t, s)
  PROVE  MobileInv'
<1>0. MobileShape /\ memory[t] \in Copies
  BY DEF MobileInv, MobileShape
<1>1. PICK n \in 0..5 : memory[t][s] = Stage(n) /\ Len(memory[t][s].history) = n
  BY <1>0, CopyIs
<1>2. n \in 1..4
  <2>1. Stage(n).step \notin {"none", "published"}
    BY <1>1 DEF handleAdvance_
  <2>2. n # 0
    BY <2>1, StageIs
  <2>3. Stage(n).step = allSteps[n]
    BY <2>2, StageIs
  <2>4. n # 5
    BY <2>1, <2>3 DEF allSteps
  <2>. QED  BY <2>2, <2>4
<1>3. Set_(t, [memory[t] EXCEPT ![s] = Advanced(@)]) /\ UNCHANGED <<screen, tabForm, forms, made>>
  BY DEF handleAdvance_, advance
<1>4. [memory[t] EXCEPT ![s] = Advanced(@)] = [memory[t] EXCEPT ![s] = Stage(n + 1)]
  <2>1. Advanced(memory[t][s]) = Stage(n + 1)
    BY <1>1, <1>2, StageAdvances
  <2>. QED  BY <2>1, Zenon
<1>5. s \in made
  <2>1. Stage(n) # Absent
    BY <1>2, StageIs DEF Absent
  <2>. QED  BY <1>1, <2>1 DEF MobileInv, NoneUnmade
<1>6. made' = made \cup {s} /\ n + 1 \in 1..5 /\ Len(memory[t][s].history) <= n + 1
  BY <1>1, <1>2, <1>3, <1>5
<1>7. Set_(t, [memory[t] EXCEPT ![s] = Stage(n + 1)])
  BY <1>3, <1>4
<1>. QED  BY <1>0, <1>3, <1>6, <1>7, MobileWrites DEF MobileShape

\* The pages, which write nothing.
LEMMA MobilePages ==
  ASSUME MobileInv, NEW t \in Tabs,
         \/ load(t) \/ close(t)
         \/ \E page \in Submissions \cup {"contenus", "publish"} : goTo(t, page)
         \/ \E field \in {"title", "body"} : setField(t, field)
  PROVE  MobileInv'
<1>0. MobileShape
  BY DEF MobileInv
<1>1. NoForm \in [title : BOOLEAN, body : BOOLEAN]
  BY DEF NoForm
<1>2. /\ stored' = stored /\ made' = made /\ behind' = behind
      /\ memory' = memory \/ memory' = [memory EXCEPT ![t] = stored]
  BY DEF load, close, goTo, setField, Stay
<1>3. /\ screen' \in [Tabs -> Submissions \cup {"closed", "contenus", "publish"}]
      /\ tabForm' \in [Tabs -> [title : BOOLEAN, body : BOOLEAN]]
      /\ forms' \in 0..MaxForms
  <2>1. CASE load(t)
    BY <1>0, <1>1, <2>1 DEF load, MobileShape
  <2>2. CASE close(t)
    BY <1>0, <1>1, <2>2 DEF close, MobileShape
  <2>3. ASSUME NEW page \in Submissions \cup {"contenus", "publish"}, goTo(t, page)
        PROVE  /\ screen' \in [Tabs -> Submissions \cup {"closed", "contenus", "publish"}]
               /\ tabForm' \in [Tabs -> [title : BOOLEAN, body : BOOLEAN]]
               /\ forms' \in 0..MaxForms
    <3>1. forms' \in 0..MaxForms
      BY <1>0, <2>3, MobileAppAssumption DEF goTo, MobileShape
    <3>. QED  BY <1>0, <1>1, <2>3, <3>1 DEF goTo, MobileShape
  <2>4. ASSUME NEW field \in {"title", "body"}, setField(t, field)
        PROVE  /\ screen' \in [Tabs -> Submissions \cup {"closed", "contenus", "publish"}]
               /\ tabForm' \in [Tabs -> [title : BOOLEAN, body : BOOLEAN]]
               /\ forms' \in 0..MaxForms
    <3>1. UNCHANGED <<screen, forms>> /\ tabForm' = [tabForm EXCEPT ![t][field] = ~@]
      BY <2>4 DEF setField
    <3>2. tabForm[t] \in [title : BOOLEAN, body : BOOLEAN]
      BY <1>0 DEF MobileShape
    <3>3. [tabForm[t] EXCEPT ![field] = ~@] \in [title : BOOLEAN, body : BOOLEAN]
      BY <3>2
    <3>. QED  BY <1>0, <3>1, <3>3 DEF MobileShape
  <2>. QED  BY <2>1, <2>2, <2>3, <2>4
<1>4. MobileShape'
  BY <1>0, <1>2, <1>3 DEF MobileShape
<1>5. ASSUME NEW u \in Tabs
      PROVE  memory'[u] \in {memory[u], stored}
  BY <1>0, <1>2 DEF MobileShape
<1>6. NoneUnmade'
  <2>. SUFFICES ASSUME NEW r \in Submissions \ made, NEW u \in Tabs
                PROVE  stored[r] = Absent /\ memory'[u][r] = Absent
    BY <1>2 DEF MobileInv, NoneUnmade
  <2>. QED  BY <1>5 DEF MobileInv, NoneUnmade
<1>7. NoneLost'
  <2>. SUFFICES ASSUME ~behind, NEW r \in Submissions
                PROVE  /\ r \in made => stored[r].step # "none"
                       /\ \A u \in Tabs : Len(memory'[u][r].history) <= Len(stored[r].history)
    BY <1>2 DEF NoneLost
  <2>1. PICK l \in 0..5 : Len(stored[r].history) = l
    BY <1>0, CopyIs DEF MobileShape
  <2>. QED  BY <1>5, <2>1 DEF MobileInv, NoneLost
<1>. QED  BY <1>4, <1>6, <1>7 DEF MobileInv

LEMMA MobileInvNext == MobileInv /\ [MobileNext]_mobile => MobileInv'
<1>. SUFFICES ASSUME MobileInv, [MobileNext]_mobile  PROVE MobileInv'
  OBVIOUS
<1>1. CASE UNCHANGED mobile
  BY <1>1 DEF mobile, MobileInv, MobileShape, NoneUnmade, NoneLost
<1>2. CASE MobileNext
  BY <1>2, MobilePages, MobileSubmits, MobileAdvances DEF MobileNext
<1>. QED  BY <1>1, <1>2

LEMMA MobileSays == MobileInv => MobileTypeOK /\ SubmissionsAreWhole
<1>. SUFFICES ASSUME MobileInv  PROVE MobileTypeOK /\ SubmissionsAreWhole
  OBVIOUS
<1>0. MobileShape
  BY DEF MobileInv
<1>1. ASSUME NEW copy \in Copies, NEW s \in Submissions
      PROVE  /\ copy[s] \in Submission
             /\ copy[s].step # "none" =>
                  /\ copy[s].history = SubSeq(allSteps, 1, Len(copy[s].history))
                  /\ copy[s].step = allSteps[Len(copy[s].history)]
  <2>1. PICK n \in 0..5 : copy[s] = Stage(n) /\ Len(copy[s].history) = n
    BY CopyIs
  <2>. HIDE DEF Stage
  <2>. QED  BY <2>1, StageIs
<1>2. MobileTypeOK
  BY <1>0, <1>1 DEF MobileShape, MobileTypeOK
<1>3. {stored} \cup {memory[t] : t \in Tabs} \subseteq Copies
  BY <1>0 DEF MobileShape
<1>. QED  BY <1>1, <1>2, <1>3 DEF MobileInv, NoneLost, SubmissionsAreWhole

LEMMA MobileAlways == Spec => [](MobileTypeOK /\ SubmissionsAreWhole)
<1>1. Init => MobileInv
  BY MobileInvInit DEF Init
<1>2. MobileInv /\ [Next]_webClient => MobileInv'
  BY MobileInvNext, PartStep
<1>. QED  BY <1>1, <1>2, MobileSays, PTL DEF Spec

-----------------------------------------------------------------------------
(* The AI panel. *)

\* A request is of a text the form has had, and asks for a result that is not
\* on show; a panel that is gone has neither.
PanelInv ==
  /\ PanelTypeOK /\ PanelIsOfTheText
  /\ \A a \in Asks : mutation[a].at # "idle" => mounted /\ mutation[a].of <= body

AskState == [at : {"idle", "sent", "replied"}, of : 0..NoResult, reply : {"none", "bare", "whole"}]

LEMMA Idle_OK == Idle_ \in AskState /\ Idle_.at = "idle"
BY EditorPanelAssumption DEF Idle_, AskState, NoResult

LEMMA PanelTypeIs ==
  /\ PanelTypeOK <=> /\ mounted \in BOOLEAN /\ body \in 0..MaxTexts /\ platforms \in BOOLEAN
                     /\ mutation \in [Asks -> AskState] /\ result \in [Asks -> 0..NoResult]
  /\ PanelTypeOK' <=> /\ mounted' \in BOOLEAN /\ body' \in 0..MaxTexts /\ platforms' \in BOOLEAN
                      /\ mutation' \in [Asks -> AskState] /\ result' \in [Asks -> 0..NoResult]
BY Zenon DEF PanelTypeOK, AskState

LEMMA PanelInvInit == PanelInit => PanelInv
<1>. SUFFICES ASSUME PanelInit  PROVE PanelInv
  OBVIOUS
<1>1. PanelTypeOK
  <2>1. mounted \in BOOLEAN /\ platforms \in BOOLEAN
    BY Zenon DEF PanelInit
  <2>. QED  BY <2>1, PanelTypeIs, Idle_OK, EditorPanelAssumption DEF PanelInit, NoResult
<1>. QED  BY <1>1, Idle_OK DEF PanelInit, PanelInv, PanelIsOfTheText

LEMMA PanelInvNext == PanelInv /\ [PanelNext]_panel => PanelInv'
<1>. SUFFICES ASSUME PanelInv, [PanelNext]_panel  PROVE PanelInv'
  OBVIOUS
<1>. USE EditorPanelAssumption
<1>0. /\ mounted \in BOOLEAN /\ body \in 0..MaxTexts /\ platforms \in BOOLEAN
      /\ mutation \in [Asks -> AskState] /\ result \in [Asks -> 0..NoResult]
  BY PanelTypeIs DEF PanelInv
<1>1. CASE mount
  <2>1. PanelTypeOK'
    BY <1>0, <1>1, PanelTypeIs, Idle_OK DEF mount, NoResult
  <2>. QED  BY <1>1, <2>1, Idle_OK DEF mount, PanelInv, PanelIsOfTheText
<1>2. CASE editBody \/ pickTitle
  <2>1. body' = body + 1 /\ body' \in 0..MaxTexts /\ UNCHANGED <<mounted, platforms, mutation, result>>
    BY <1>0, <1>2 DEF editBody, pickTitle
  <2>2. PanelTypeOK'
    BY <1>0, <2>1, PanelTypeIs
  <2>. QED  BY <1>0, <2>1, <2>2 DEF PanelInv, PanelIsOfTheText, AskState, NoResult
<1>3. CASE togglePlatform
  <2>1. PanelTypeOK'
    BY <1>0, <1>3, PanelTypeIs DEF togglePlatform
  <2>. QED  BY <1>3, <2>1 DEF togglePlatform, PanelInv, PanelIsOfTheText
<1>4. ASSUME NEW a \in Asks, ask(a)
      PROVE  PanelInv'
  <2>. DEFINE rec == [at |-> "sent", of |-> body, reply |-> "none"]
  <2>1. rec \in AskState /\ rec.of = body
    BY <1>0 DEF AskState, NoResult
  <2>2. /\ mounted /\ mutation' = [mutation EXCEPT ![a] = rec]
        /\ result' = [result EXCEPT ![a] = NoResult]
        /\ UNCHANGED <<mounted, body, platforms>>
    BY <1>4 DEF ask, DroppedResult
  <2>. HIDE DEF rec
  <2>3. PanelTypeOK'
    BY <1>0, <2>1, <2>2, PanelTypeIs DEF NoResult
  <2>. QED  BY <1>0, <2>1, <2>2, <2>3 DEF PanelInv, PanelIsOfTheText
<1>5. ASSUME NEW a \in Asks, chatReplies(a)
      PROVE  PanelInv'
  <2>1. PICK reply \in {"none", "bare", "whole"} :
          mutation' = [mutation EXCEPT ![a] = [mutation[a] EXCEPT !.at = "replied", !.reply = reply]]
    BY <1>0, <1>5 DEF chatReplies
  <2>. DEFINE rec == [mutation[a] EXCEPT !.at = "replied", !.reply = reply]
  <2>2. rec \in AskState /\ rec.of = mutation[a].of
    BY <1>0 DEF AskState
  <2>3. mutation' = [mutation EXCEPT ![a] = rec] /\ mutation[a].at # "idle"
        /\ UNCHANGED <<mounted, body, platforms, result>>
    BY <1>5, <2>1 DEF chatReplies
  <2>. HIDE DEF rec
  <2>4. PanelTypeOK'
    BY <1>0, <2>2, <2>3, PanelTypeIs
  <2>. QED  BY <1>0, <2>2, <2>3, <2>4 DEF PanelInv, PanelIsOfTheText
<1>6. ASSUME NEW a \in Asks, NEW heard \in BOOLEAN, mutated(a, heard)
      PROVE  PanelInv'
  <2>1. /\ mutation' = [mutation EXCEPT ![a] = Idle_] /\ mutation[a].at # "idle"
        /\ result' \in {[result EXCEPT ![a] = mutation[a].of], result}
        /\ UNCHANGED <<mounted, body, platforms>>
    BY <1>6 DEF mutated
  <2>2. mutation[a].of \in 0..NoResult
    BY <1>0 DEF AskState
  <2>3. PanelTypeOK'
    BY <1>0, <2>1, <2>2, PanelTypeIs, Idle_OK
  <2>. QED  BY <1>0, <2>1, <2>2, <2>3, Idle_OK DEF PanelInv, PanelIsOfTheText
<1>7. CASE UNCHANGED panel
  BY <1>7 DEF panel, PanelInv, PanelTypeOK, PanelIsOfTheText
<1>. QED  BY <1>1, <1>2, <1>3, <1>4, <1>5, <1>6, <1>7 DEF PanelNext

LEMMA PanelAlways == Spec => [](PanelTypeOK /\ PanelIsOfTheText)
<1>1. Init => PanelInv
  BY PanelInvInit DEF Init
<1>2. PanelInv /\ [Next]_webClient => PanelInv'
  BY PanelInvNext, PartStep
<1>3. PanelInv => PanelTypeOK /\ PanelIsOfTheText
  BY DEF PanelInv
<1>. QED  BY <1>1, <1>2, <1>3, PTL DEF Spec

-----------------------------------------------------------------------------
(* The dialog. *)

\* A timer runs for a draft the user was told of, so no bound is passed.
DialogInv ==
  /\ dialogOpen \in BOOLEAN /\ creating \in {"no", "sent", "made", "failed"} /\ opened \in BOOLEAN
  /\ opens \in Nat /\ drafts \in 0..MaxDrafts /\ told \in Nat /\ unheard \in Nat
  /\ opens <= told /\ DraftsAreTold

LEMMA DialogInvInit == DialogInit => DialogInv
<1>. SUFFICES ASSUME DialogInit  PROVE DialogInv
  OBVIOUS
<1>1. dialogOpen \in BOOLEAN /\ opened \in BOOLEAN
  BY Zenon DEF DialogInit
<1>. QED  BY <1>1, NewContentDialogAssumption DEF DialogInit, DialogInv, DraftsAreTold

LEMMA DialogInvNext == DialogInv /\ [DialogNext]_dialog => DialogInv'
<1>. SUFFICES ASSUME DialogInv, [DialogNext]_dialog  PROVE DialogInv'
  OBVIOUS
<1>. USE NewContentDialogAssumption DEF DialogInv, DraftsAreTold
<1>1. CASE onOpenChange
  BY <1>1 DEF onOpenChange
<1>2. CASE handleCreate
  BY <1>2 DEF handleCreate
<1>3. ASSUME NEW ok \in BOOLEAN, createAnswers(ok)
      PROVE  DialogInv'
  BY <1>3 DEF createAnswers, draftCreated
<1>4. CASE createUnheard
  BY <1>4 DEF createUnheard
<1>5. CASE created
  <2>1. dialogOpen' \in BOOLEAN
    BY <1>5, Zenon DEF created
  <2>. QED  BY <1>5, <2>1 DEF created
<1>6. CASE notCreated
  BY <1>6 DEF notCreated
<1>7. CASE draftOpens
  <2>1. dialogOpen' \in BOOLEAN /\ opened' \in BOOLEAN
    BY <1>7, Zenon DEF draftOpens
  <2>. QED  BY <1>7, <2>1 DEF draftOpens
<1>8. CASE backToContents
  BY <1>8 DEF backToContents
<1>9. CASE UNCHANGED dialog
  BY <1>9 DEF dialog
<1>. QED  BY <1>1, <1>2, <1>3, <1>4, <1>5, <1>6, <1>7, <1>8, <1>9 DEF DialogNext

LEMMA DialogAlways == Spec => [](DialogTypeOK /\ DraftsAreTold)
<1>1. Init => DialogInv
  BY DialogInvInit DEF Init
<1>2. DialogInv /\ [Next]_webClient => DialogInv'
  BY DialogInvNext, PartStep
<1>3. DialogInv => DialogTypeOK /\ DraftsAreTold
  BY NewContentDialogAssumption DEF DialogInv, DialogTypeOK, DraftsAreTold
<1>. QED  BY <1>1, <1>2, <1>3, PTL DEF Spec

-----------------------------------------------------------------------------
(* The media page. *)

MediasInv == MediasTypeOK /\ MediaIsTrue

\* The two tables agree, at each permission.
LEMMA OffersAreGuarded ==
  ASSUME NEW who \in allRoles
  PROVE  \A p \in DOMAIN Offered : can(effectiveRole(who), p) <=> who \in Guarded[p]
<1>1. who \in Role /\ effectiveRole(who) = who
  BY DEF allRoles, effectiveRole
<1>2. /\ who \in Ranked("editor") <=> who \in editorialDesk
      /\ who \in Ranked("admin") <=> who = "admin"
      /\ who \in Ranked("journalist")
  BY DEF Ranked, RolesAllow, RANK, allRoles, Role, editorialDesk
<1>3. /\ who \in Deciding("editor") <=> who \in editorialDesk
      /\ who \in Deciding("chief") <=> who \in seniorEditorial
      /\ who \in Deciding("direction") <=> who \in {"direction", "admin"}
  BY DEF Deciding, MayDecide, requiredRoleFor, Ranked, RolesAllow, RANK, allRoles, Role,
         editorialDesk, seniorEditorial
<1>4. /\ who \in Offered["workflows"] <=> who \in Guarded["workflows"]
      /\ who \in Offered["advance"] <=> who \in Guarded["advance"]
      /\ who \in Offered["automations"] <=> who \in Guarded["automations"]
      /\ who \in Offered["users"] <=> who \in Guarded["users"]
      /\ who \in Offered["audit"] <=> who \in Guarded["audit"]
      /\ who \in Offered["create"] <=> who \in Guarded["create"]
  BY <1>2 DEF Offered, Guarded
<1>5. /\ who \in Offered["diffusion"] <=> who \in Guarded["diffusion"]
      /\ who \in Offered["analytics"] <=> who \in Guarded["analytics"]
      /\ who \in Offered["upload"] <=> who \in Guarded["upload"]
  BY DEF Offered, Guarded, digitalDesk, diffusionRoles, analyticsRoles, uploadRoles
<1>6. /\ who \in Offered["editor"] <=> who \in Guarded["editor"]
      /\ who \in Offered["chief"] <=> who \in Guarded["chief"]
      /\ who \in Offered["direction"] <=> who \in Guarded["direction"]
  BY <1>3 DEF Offered, Guarded
<1>7. DOMAIN Offered = {"workflows", "advance", "automations", "users", "audit", "diffusion",
                        "analytics", "create", "upload", "editor", "chief", "direction"}
  BY DEF Offered
<1>. QED  BY <1>1, <1>4, <1>5, <1>6, <1>7 DEF can

LEMMA MediasInvInit == MediasInit => MediasInv
<1>. SUFFICES ASSUME MediasInit  PROVE MediasInv
  OBVIOUS
<1>1. hover \in BOOLEAN
  BY Zenon DEF MediasInit
<1>2. MediasTypeOK
  BY <1>1, MediaLibraryAssumption DEF MediasInit, MediasTypeOK, Absent_
<1>. QED  BY <1>2, OffersAreGuarded DEF MediasInit, MediasInv, MediaIsTrue

\* The zone, which the library knows nothing of.
LEMMA MediasZone ==
  ASSUME MediasInv, Zone, items' \in [Files -> 0..Absent_], hover' \in BOOLEAN
  PROVE  MediasInv'
BY OffersAreGuarded DEF MediasInv, MediasTypeOK, MediaIsTrue, Zone

LEMMA MediasInvNext == MediasInv /\ [MediasNext]_medias => MediasInv'
<1>. SUFFICES ASSUME MediasInv, [MediasNext]_medias  PROVE MediasInv'
  OBVIOUS
<1>. USE MediaLibraryAssumption
<1>0. /\ items \in [Files -> 0..Absent_] /\ hover \in BOOLEAN
      /\ url \in [Keys -> {"none", "valid", "expired"}] /\ object \subseteq Keys
      /\ asset \in [Keys -> 0..MaxRows]
      /\ upload \in [Keys -> {"idle", "presigned", "registered", "ended"}] /\ again \subseteq Keys
      /\ viewer \in Role \cup {"none"}
  BY DEF MediasInv, MediasTypeOK
<1>1. CASE tick_
  <2>1. PICK by \in [Files -> 1..2] : items' = [f \in Files |-> Stepped(f, by[f])]
    BY <1>1 DEF tick_
  <2>2. \A f \in Files : Stepped(f, by[f]) \in 0..Absent_
    BY <1>0 DEF Stepped, Absent_
  <2>3. Zone /\ hover' = hover
    BY <1>1 DEF tick_
  <2>. QED  BY <1>0, <2>1, <2>2, <2>3, MediasZone
<1>2. CASE onDrag
  BY <1>0, <1>2, MediasZone DEF onDrag
<1>3. CASE leaveMedias
  <2>1. hover' \in BOOLEAN
    BY <1>3, Zenon DEF leaveMedias
  <2>. QED  BY <1>3, <2>1, MediasZone DEF leaveMedias, Absent_
<1>4. ASSUME NEW files \in SUBSET Files, addFiles(files)
      PROVE  MediasInv'
  <2>1. hover' \in BOOLEAN
    BY <1>4, Zenon DEF addFiles
  <2>. QED  BY <1>0, <1>4, <2>1, MediasZone DEF addFiles, Absent_
<1>5. ASSUME NEW f \in Files, remove(f)
      PROVE  MediasInv'
  BY <1>0, <1>5, MediasZone DEF remove, Absent_
<1>6. ASSUME NEW k \in Keys,
             \/ presign(k) \/ urlExpires(k) \/ put(k)
             \/ finalize(k) \/ finalizeHeard(k) \/ finalizeLost(k)
      PROVE  MediasInv'
  <2>1. UNCHANGED <<viewer, items, hover>> /\ again \subseteq again' /\ again' \subseteq again \cup {k}
    BY <1>6 DEF presign, urlExpires, put, finalize, finalizeHeard, finalizeLost, Api
  <2>2. /\ url' \in [Keys -> {"none", "valid", "expired"}] /\ object' \subseteq Keys
        /\ upload' \in [Keys -> {"idle", "presigned", "registered", "ended"}]
    BY <1>0, <1>6 DEF presign, urlExpires, put, finalize, finalizeHeard, finalizeLost, Api
  <2>3. asset' \in [Keys -> 0..MaxRows]
    BY <1>0, <1>6 DEF presign, urlExpires, put, finalize, finalizeHeard, finalizeLost, Api
  <2>4. \A j \in Keys \ {k} : upload'[j] = upload[j] /\ asset'[j] = asset[j]
    BY <1>0, <1>6 DEF presign, urlExpires, put, finalize, finalizeHeard, finalizeLost, Api
  <2>5. k \notin again' => asset'[k] = IF upload'[k] \in {"registered", "ended"} THEN 1 ELSE 0
    <3>1. k \notin again => asset[k] = IF upload[k] \in {"registered", "ended"} THEN 1 ELSE 0
      BY DEF MediasInv, MediaIsTrue
    <3>. QED  BY <1>0, <1>6, <3>1
              DEF presign, urlExpires, put, finalize, finalizeHeard, finalizeLost, Api
  <2>6. MediasTypeOK'
    BY <1>0, <2>1, <2>2, <2>3 DEF MediasTypeOK
  <2>. QED  BY <2>1, <2>4, <2>5, <2>6 DEF MediasInv, MediaIsTrue
<1>7. CASE UNCHANGED medias
  BY <1>7 DEF medias, MediasInv, MediasTypeOK, MediaIsTrue
<1>. QED  BY <1>1, <1>2, <1>3, <1>4, <1>5, <1>6, <1>7 DEF MediasNext

LEMMA MediasAlways == Spec => [](MediasTypeOK /\ MediaIsTrue)
<1>1. Init => MediasInv
  BY MediasInvInit DEF Init
<1>2. MediasInv /\ [Next]_webClient => MediasInv'
  BY MediasInvNext, PartStep
<1>3. MediasInv => MediasTypeOK /\ MediaIsTrue
  BY DEF MediasInv
<1>. QED  BY <1>1, <1>2, <1>3, PTL DEF Spec

-----------------------------------------------------------------------------
(* The whole client. *)

LEMMA EditorShapeTypes == EditorShape => EditorTypeOK
<1>. SUFFICES ASSUME EditorShape  PROVE EditorTypeOK
  OBVIOUS
<1>1. /\ row.text \in Texts \cup {"own"} /\ row.submitted \in BOOLEAN
      /\ form.text \in Texts \cup {"own"} /\ form.open \in BOOLEAN /\ form.dirty \in BOOLEAN
      /\ redirects \in BOOLEAN /\ touched \in BOOLEAN /\ overlapped \in BOOLEAN
  BY DEF EditorShape
<1>2. ASSUME NEW h \in Clicks
      PROVE  /\ click[h].does \in {"none", "save", "autosave", "submit"}
             /\ click[h].at \in {"idle", "sent", "ok", "refused"}
             /\ click[h].text \in Texts \cup {"own"} /\ click[h].mine \in BOOLEAN
  BY DEF EditorShape
<1>. QED  BY <1>1, <1>2 DEF EditorTypeOK

\* The types of the parts whose theorem is above.
LEMMA EditorTypesAlways == Spec => []EditorTypeOK
<1>1. Init => EditorInv
  BY EditorInvInit DEF Init
<1>2. EditorInv /\ [Next]_webClient => EditorInv'
  BY EditorInvNext, PartStep
<1>3. EditorInv => EditorTypeOK
  BY EditorShapeTypes DEF EditorInv
<1>. QED  BY <1>1, <1>2, <1>3, PTL DEF Spec

LEMMA DeskTypesAlways == Spec => []DeskTypeOK
<1>1. Init => DeskInv
  BY DeskInvInit DEF Init
<1>2. DeskInv /\ [Next]_webClient => DeskInv'
  BY DeskInvNext, PartStep
<1>3. DeskInv => DeskTypeOK
  BY DEF DeskInv
<1>. QED  BY <1>1, <1>2, <1>3, PTL DEF Spec

\* For any number of clicks, requests, answers, events and submissions: what a
\* screen shows is what it is about, whatever was clicked while answers were on
\* their way.
THEOREM ScreenIsTrueAlways == Spec => []ScreenIsTrue
<1>1. Init => part \in Parts
  BY DEF Init
<1>2. part \in Parts /\ [Next]_webClient => (part \in Parts)'
  BY PartStep
<1>3. SessionInv => SessionTypeOK
  BY DEF SessionInv
<1>. DEFINE Each ==
       /\ part \in Parts /\ SessionTypeOK /\ EditorTypeOK /\ DeskTypeOK
       /\ (LiveTypeOK /\ PreviewIsTrue) /\ (AssistantTypeOK /\ AnswersAreWhole)
       /\ (AutomationsTypeOK /\ SwitchIsTrue) /\ (ContentsTypeOK /\ RowsAreTheUsers)
       /\ (FeedTypeOK /\ FeedIsWhole) /\ (MobileTypeOK /\ SubmissionsAreWhole)
       /\ (PanelTypeOK /\ PanelIsOfTheText) /\ (DialogTypeOK /\ DraftsAreTold)
       /\ (MediasTypeOK /\ MediaIsTrue)
<1>4. Each => ScreenIsTrue
  BY Zenon DEF ScreenIsTrue, TypeOK
<1>5. Spec => []Each
  BY <1>1, <1>2, <1>3, SessionAlways, EditorTypesAlways, DeskTypesAlways, LiveAlways,
     AssistantAlways, AutomationsAlways, ContentsAlways, FeedAlways, MobileAlways, PanelAlways,
     DialogAlways, MediasAlways, PTL DEF Spec
<1>. HIDE DEF Each
<1>. QED  BY <1>4, <1>5, PTL
=============================================================================
