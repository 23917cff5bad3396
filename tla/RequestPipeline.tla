--------------------------- MODULE RequestPipeline ---------------------------
(***************************************************************************)
(* One API process and the requests it serves: the idempotency interceptor *)
(* around the timeout interceptor around the handler (common.module.ts).   *)
(* Handlers are of two kinds: "write", any handler that changes rows and   *)
(* then answers; "ai", POST /ai/ask, which goes to Claude through the      *)
(* breaker, or POST /ai/ask/stream, which does not use the breaker.        *)
(*                                                                         *)
(* A timeout answers the client and nothing else: the handler's promise    *)
(* runs on.  So reply[r], what the client got, and task[r], where the      *)
(* handler is, are separate.                                               *)
(***************************************************************************)
EXTENDS CircuitBreaker, FiniteSets

CONSTANTS
  Requests, Keys,
  NoKey,        \* no Idempotency-Key header
  KeyOf,        \* caller, method, path and header of each request
  Kind,
  None, Pending,
  EvictAt,      \* evictExpired does nothing below this size, 1000
  MaxCrashes    \* bound: restarts of the process

ASSUME KeyAssumption ==
  /\ NoKey \notin Keys
  /\ KeyOf \in [Requests -> Keys \cup {NoKey}]
  /\ None \notin Requests /\ Pending \notin Requests /\ None # Pending

ASSUME KindAssumption == Kind \in [Requests -> {"write", "ai"}]

ASSUME CrashesAssumption == MaxCrashes \in Nat

Reply == {"none", "waiting", "ok", "replay", "conflict", "timeout", "error", "lost"}

Task == {"off", "started", "committed", "snapshot", "call", "streaming", "ended"}

VARIABLES
  reply, task,
  store,        \* cache: the request whose answer is kept for a key
  stale,        \* keys whose entry is past its expiresAt
  acted,        \* requests that changed rows, or called Claude
  forgotten,    \* requests whose kept answer was evicted
  crashes

cache == <<store, stale, forgotten>>
vars == <<breaker, reply, task, cache, acted, crashes>>

Init ==
  /\ BreakerInit
  /\ reply = [r \in Requests |-> "none"]
  /\ task = [r \in Requests |-> "off"]
  /\ store = [k \in Keys |-> None]
  /\ stale = {}
  /\ acted = {}
  /\ forgotten = {}
  /\ crashes = 0

-----------------------------------------------------------------------------
(* IdempotencyInterceptor *)

Evicted ==
  IF Cardinality({k \in Keys : store[k] # None}) < EvictAt THEN {}
  ELSE {k \in stale : store[k] # Pending}

\* Slip: an evicted entry stays marked as expired.
EvictAndSetStale(k, e) ==
  /\ store' = [x \in Keys |-> IF x = k THEN e ELSE IF x \in Evicted THEN None ELSE store[x]]
  /\ forgotten' = forgotten \cup {store[x] : x \in Evicted}
  /\ UNCHANGED stale

\* evictExpired, then the entry of the request's key becomes e.
EvictAndSet(k, e) ==
  /\ store' = [x \in Keys |-> IF x = k THEN e ELSE IF x \in Evicted THEN None ELSE store[x]]
  /\ stale' = stale \ Evicted
  /\ forgotten' = forgotten \cup {store[x] : x \in Evicted}

\* Slip: a request in flight is no obstacle.
FoundAnswer(k) == IF k \in Evicted \/ store[k] = Pending THEN None ELSE store[k]

\* The entry found after evictExpired.
Found(k) == IF k \in Evicted THEN None ELSE store[k]

intercept(r) ==
  LET k == KeyOf[r] IN
  /\ reply[r] = "none"
  /\ \/ /\ k = NoKey
        /\ UNCHANGED cache
     \/ /\ k # NoKey /\ Found(k) = None
        /\ EvictAndSet(k, Pending)
  /\ reply' = [reply EXCEPT ![r] = "waiting"]
  /\ task' = [task EXCEPT ![r] = "started"]
  /\ UNCHANGED <<breaker, acted, crashes>>

\* An expired entry is replayed all the same if it was not evicted.
replayOrConflict(r) ==
  LET k == KeyOf[r] IN
  /\ reply[r] = "none"
  /\ k # NoKey /\ Found(k) # None
  /\ EvictAndSet(k, store[k])
  /\ reply' = [reply EXCEPT ![r] = IF store[k] = Pending THEN "conflict" ELSE "replay"]
  /\ UNCHANGED <<breaker, task, acted, crashes>>

expire(k) ==
  /\ store[k] \in Requests
  /\ stale' = stale \cup {k}
  /\ UNCHANGED <<breaker, reply, task, store, forgotten, acted, crashes>>

\* The tap behind the handler; a failure is not kept.
SetEntry(k, e) ==
  /\ store' = IF k = NoKey THEN store ELSE [store EXCEPT ![k] = e]
  /\ stale' = stale \ {k}
  /\ UNCHANGED forgotten

-----------------------------------------------------------------------------
(* TimeoutInterceptor *)

\* Slip: whatever the handler ends with is kept, subscribed or not.
HandlerEndsLate(r, answer) ==
  /\ task' = [task EXCEPT ![r] = "ended"]
  /\ reply' = [reply EXCEPT ![r] = IF @ = "waiting" THEN answer ELSE @]
  /\ SetEntry(KeyOf[r], IF answer = "ok" THEN r ELSE None)

\* The handler returns or throws.  After a timeout nobody is subscribed: its
\* result reaches neither the client nor the store.
HandlerEnds(r, answer) ==
  /\ task' = [task EXCEPT ![r] = "ended"]
  /\ IF reply[r] # "waiting" THEN UNCHANGED <<reply, cache>>
     ELSE /\ reply' = [reply EXCEPT ![r] = answer]
          /\ SetEntry(KeyOf[r], IF answer = "ok" THEN r ELSE None)

\* Slip: the timeout covers write handlers only.
TimedWritesOnly(r) == reply[r] = "waiting" /\ Kind[r] = "write"

Timed(r) == reply[r] = "waiting"

\* 408.  The stream is no exception, although its headers are out by then.
timeout(r) ==
  /\ Timed(r)
  /\ reply' = [reply EXCEPT ![r] = "timeout"]
  /\ SetEntry(KeyOf[r], None)
  /\ UNCHANGED <<breaker, task, acted, crashes>>

-----------------------------------------------------------------------------
(* A handler that writes: rows first, then what follows them, then the answer. *)

writeCommits(r) ==
  /\ Kind[r] = "write" /\ task[r] = "started"
  /\ task' = [task EXCEPT ![r] = "committed"]
  /\ acted' = acted \cup {r}
  /\ UNCHANGED <<breaker, reply, cache, crashes>>

writeReturns(r) ==
  /\ task[r] = "committed"
  /\ HandlerEnds(r, "ok")
  /\ UNCHANGED <<breaker, acted, crashes>>

writeThrows(r) ==
  /\ Kind[r] = "write" /\ task[r] \in {"started", "committed"}
  /\ HandlerEnds(r, "error")
  /\ UNCHANGED <<breaker, acted, crashes>>

-----------------------------------------------------------------------------
(* AiController.ask and ClaudeService.ask.  Every failure of Claude ends in *)
(* the heuristic answer, so "ok" covers both engines.                       *)

\* isAvailable says no.
askHeuristic(r) ==
  /\ Kind[r] = "ai" /\ task[r] = "started"
  /\ getState = "OPEN"
  /\ StateRead
  /\ HandlerEnds(r, "ok")
  /\ UNCHANGED <<acted, crashes>>

askSnapshot(r) ==
  /\ Kind[r] = "ai" /\ task[r] = "started"
  /\ getState # "OPEN"
  /\ StateRead
  /\ task' = [task EXCEPT ![r] = "snapshot"]
  /\ UNCHANGED <<reply, cache, acted, crashes>>

\* buildSnapshot fails, outside the breaker: no failure is counted.
snapshotFails(r) ==
  /\ task[r] = "snapshot"
  /\ HandlerEnds(r, "ok")
  /\ UNCHANGED <<breaker, acted, crashes>>

\* The breaker opened while the snapshot was built: CircuitOpenError.
execRejects(r) ==
  /\ task[r] = "snapshot"
  /\ getState = "OPEN"
  /\ StateRead
  /\ HandlerEnds(r, "ok")
  /\ UNCHANGED <<acted, crashes>>

execCalls(r) ==
  /\ task[r] = "snapshot"
  /\ getState # "OPEN"
  /\ StateRead
  /\ task' = [task EXCEPT ![r] = "call"]
  /\ acted' = acted \cup {r}
  /\ UNCHANGED <<reply, cache, crashes>>

claudeAnswers(r) ==
  /\ task[r] = "call"
  /\ onSuccess
  /\ HandlerEnds(r, "ok")
  /\ UNCHANGED <<acted, crashes>>

claudeFails(r) ==
  /\ task[r] = "call"
  /\ onFailure
  /\ HandlerEnds(r, "ok")
  /\ UNCHANGED <<acted, crashes>>

-----------------------------------------------------------------------------
(* AiController.askStream: the breaker is read and never told.  Its clients *)
(* send no key.                                                             *)

streamStarts(r) ==
  /\ Kind[r] = "ai" /\ KeyOf[r] = NoKey /\ task[r] = "started"
  /\ StateRead
  /\ task' = [task EXCEPT ![r] = "streaming"]
  /\ UNCHANGED <<reply, cache, acted, crashes>>

\* Errors are written to the stream, so the handler itself never throws.
streamEnds(r) ==
  /\ task[r] = "streaming"
  /\ HandlerEnds(r, "ok")
  /\ UNCHANGED <<breaker, acted, crashes>>

\* GET /ai/checks asks isAvailable, which is enough to half-open the breaker.
checks ==
  /\ getState # state
  /\ StateRead
  /\ UNCHANGED <<reply, task, cache, acted, crashes>>

resetTimeElapses ==
  /\ resetElapses
  /\ UNCHANGED <<reply, task, cache, acted, crashes>>

\* The process restarts: its maps and breaker are new, its requests are gone.
Crash ==
  /\ crashes < MaxCrashes
  /\ crashes' = crashes + 1
  /\ reply' = [r \in Requests |-> IF reply[r] = "waiting" THEN "lost" ELSE reply[r]]
  /\ task' = [r \in Requests |-> IF task[r] = "off" THEN "off" ELSE "ended"]
  /\ store' = [k \in Keys |-> None]
  /\ stale' = {}
  /\ forgotten' = forgotten \cup {r \in Requests : \E k \in Keys : store[k] = r}
  /\ state' = "CLOSED" /\ failures' = 0 /\ elapsed' = FALSE
  /\ UNCHANGED acted

Handler(r) ==
  \/ writeCommits(r) \/ writeReturns(r) \/ writeThrows(r)
  \/ askHeuristic(r) \/ askSnapshot(r) \/ snapshotFails(r)
  \/ execRejects(r) \/ execCalls(r) \/ claudeAnswers(r) \/ claudeFails(r)
  \/ streamStarts(r) \/ streamEnds(r)

Next ==
  \/ \E r \in Requests : intercept(r) \/ replayOrConflict(r) \/ timeout(r) \/ Handler(r)
  \/ \E k \in Keys : expire(k)
  \/ checks \/ resetTimeElapses \/ Crash

Spec == Init /\ [][Next]_vars

\* Timers fire.  Nothing is asked of the handlers, the database or Claude.
FairSpec == Spec /\ \A r \in Requests : WF_vars(timeout(r))

-----------------------------------------------------------------------------
TypeOK ==
  /\ BreakerTypeOK
  /\ reply \in [Requests -> Reply]
  /\ task \in [Requests -> Task]
  /\ store \in [Keys -> Requests \cup {None, Pending}]
  /\ stale \subseteq {k \in Keys : store[k] \in Requests}
  /\ acted \subseteq Requests
  /\ forgotten \subseteq Requests
  /\ crashes \in 0..MaxCrashes

Waiting(k) == {r \in Requests : KeyOf[r] = k /\ reply[r] = "waiting"}

\* No key stays in flight without a request in flight, which would refuse its
\* retries for ever, and never two requests of one key are; a kept answer is
\* one that its own client was given (idempotency.interceptor.ts 56-72, with
\* timeouts and late handlers).
StoreIsTrue ==
  \A k \in Keys :
    /\ store[k] = Pending <=> Waiting(k) # {}
    /\ \A r, s \in Waiting(k) : r = s
    /\ store[k] \in Requests => KeyOf[store[k]] = k /\ reply[store[k]] = "ok"

\* "a network retry never creates duplicate resources" (interceptor comment
\* at 14): two requests with one key both act only if the first one was not
\* answered, or its answer is no longer kept.
Unsettled(r) == reply[r] \in {"timeout", "error", "lost"} \/ r \in forgotten

ActsOncePerKey ==
  \A r, s \in acted :
    r # s /\ KeyOf[r] = KeyOf[s] /\ KeyOf[r] # NoKey => Unsettled(r) \/ Unsettled(s)

\* Every request is answered or lost with its process, although Claude may
\* never answer (timeout.interceptor.ts 15-18).
EveryRequestEnds == \A r \in Requests : reply[r] = "waiting" ~> reply[r] # "waiting"
=============================================================================
