------------------------ MODULE RequestPipelineProofs ------------------------
(***************************************************************************)
(* Proofs about RequestPipeline for any requests, keys, size of the store  *)
(* and threshold of the breaker, and any number of restarts.               *)
(***************************************************************************)
EXTENDS RequestPipeline, TLAPS

\* What StoreIsTrue says of a request: while it is waiting its key is in
\* flight, and what it was answered is kept until it is forgotten.
Backed ==
  \A r \in Requests : KeyOf[r] # NoKey =>
    /\ reply[r] = "waiting" => store[KeyOf[r]] = Pending
    /\ reply[r] = "ok" /\ r \notin forgotten => store[KeyOf[r]] = r

\* Only a handler acts, and one that runs was let through by the interceptor.
ActedRan ==
  \A r \in Requests :
    /\ reply[r] \in {"none", "replay", "conflict"} => task[r] = "off"
    /\ r \in acted => task[r] # "off"

IInv == TypeOK /\ BreakerCounts /\ StoreIsTrue /\ Backed /\ ActedRan

-----------------------------------------------------------------------------
(* The breaker. *)

LEMMA BreakerStep ==
  ASSUME BreakerTypeOK, BreakerCounts,
         \/ StateRead \/ onSuccess \/ onFailure \/ resetElapses \/ UNCHANGED breaker
  PROVE  BreakerTypeOK' /\ BreakerCounts'
<1>. USE ThresholdAssumption DEF BreakerTypeOK, BreakerCounts, CircuitState
<1>1. CASE StateRead
  BY <1>1 DEF StateRead, getState
<1>2. CASE onSuccess
  BY <1>2 DEF onSuccess
<1>3. CASE onFailure
  <2>1. failures \in Nat /\ Threshold \in Nat /\ failures' = failures + 1
    BY <1>3 DEF onFailure
  <2>2. CASE state = "HALF_OPEN" \/ failures' >= Threshold
    <3>1. state' = "OPEN" /\ elapsed' = FALSE
      BY <1>3, <2>2 DEF onFailure
    <3>2. failures >= Threshold \/ failures' >= Threshold
      BY <2>1, <2>2
    <3>3. failures' \in Nat /\ ~(failures' < Threshold)
      BY <2>1, <3>2
    <3>. QED  BY <3>1, <3>3
  <2>3. CASE ~(state = "HALF_OPEN" \/ failures' >= Threshold)
    <3>1. UNCHANGED <<state, elapsed>>
      BY <1>3, <2>3 DEF onFailure
    <3>2. failures < Threshold /\ failures' < Threshold
      BY <2>1, <2>3
    <3>. QED  BY <2>1, <3>1, <3>2
  <2>. QED  BY <2>2, <2>3
<1>4. CASE resetElapses
  BY <1>4 DEF resetElapses
<1>5. CASE UNCHANGED breaker
  BY <1>5 DEF breaker
<1>. QED  BY <1>1, <1>2, <1>3, <1>4, <1>5

-----------------------------------------------------------------------------
(* What each kind of step does to the request and to the store. *)

\* Whatever step of its handler: the task goes on or ends, and if it ends
\* while somebody waits, the answer is given and kept.
Answered(r, answer) ==
  /\ reply[r] = "waiting"
  /\ reply' = [reply EXCEPT ![r] = answer]
  /\ SetEntry(KeyOf[r], IF answer = "ok" THEN r ELSE None)

LEMMA HandlerEndsEffect ==
  ASSUME NEW r \in Requests, NEW answer \in {"ok", "error"}, HandlerEnds(r, answer)
  PROVE  /\ task' = [task EXCEPT ![r] = "ended"]
         /\ UNCHANGED <<reply, cache>> \/ Answered(r, answer)
BY DEF HandlerEnds, Answered

LEMMA HandlerEffect ==
  ASSUME NEW r \in Requests, Handler(r)
  PROVE  /\ task[r] # "off"
         /\ \E t \in Task \ {"off"} : task' = [task EXCEPT ![r] = t]
         /\ acted' \in {acted, acted \cup {r}}
         /\ crashes' = crashes
         /\ \/ UNCHANGED <<reply, cache>>
            \/ \E answer \in {"ok", "error"} : Answered(r, answer)
         /\ StateRead \/ onSuccess \/ onFailure \/ UNCHANGED breaker
<1>. USE DEF Task
<1>1. CASE writeCommits(r)
  BY <1>1 DEF writeCommits
<1>2. CASE writeReturns(r)
  BY <1>2, HandlerEndsEffect DEF writeReturns
<1>3. CASE writeThrows(r)
  BY <1>3, HandlerEndsEffect DEF writeThrows
<1>4. CASE askHeuristic(r)
  BY <1>4, HandlerEndsEffect DEF askHeuristic
<1>5. CASE askSnapshot(r)
  BY <1>5 DEF askSnapshot
<1>6. CASE snapshotFails(r)
  BY <1>6, HandlerEndsEffect DEF snapshotFails
<1>7. CASE execRejects(r)
  BY <1>7, HandlerEndsEffect DEF execRejects
<1>8. CASE execCalls(r)
  BY <1>8 DEF execCalls
<1>9. CASE claudeAnswers(r)
  BY <1>9, HandlerEndsEffect DEF claudeAnswers
<1>10. CASE claudeFails(r)
  BY <1>10, HandlerEndsEffect DEF claudeFails
<1>11. CASE streamStarts(r)
  BY <1>11 DEF streamStarts
<1>12. CASE streamEnds(r)
  BY <1>12, HandlerEndsEffect DEF streamEnds
<1>. QED  BY <1>1, <1>2, <1>3, <1>4, <1>5, <1>6, <1>7, <1>8, <1>9, <1>10, <1>11, <1>12
          DEF Handler

\* What is evicted is an answer.
LEMMA EvictedIsAnswer ==
  ASSUME TypeOK
  PROVE  Evicted \subseteq stale /\ \A k \in Evicted : k \in Keys /\ store[k] \in Requests
BY DEF Evicted, TypeOK

-----------------------------------------------------------------------------
LEMMA IInvInit == Init => IInv
<1>. SUFFICES ASSUME Init PROVE IInv
  OBVIOUS
<1>. USE KeyAssumption, ThresholdAssumption DEF Init
<1>0. crashes \in 0..MaxCrashes
  BY CrashesAssumption
<1>1. TypeOK
  BY <1>0 DEF TypeOK, BreakerInit, BreakerTypeOK, CircuitState, Reply, Task
<1>2. BreakerCounts
  BY DEF BreakerInit, BreakerCounts
<1>3. StoreIsTrue
  BY DEF StoreIsTrue, Waiting
<1>4. Backed /\ ActedRan
  BY DEF Backed, ActedRan
<1>. QED  BY <1>1, <1>2, <1>3, <1>4 DEF IInv

\* A waiting request is answered, by its handler or by the clock.
LEMMA IInvAnswered ==
  ASSUME IInv, NEW r \in Requests, NEW answer \in {"ok", "error", "timeout"},
         Answered(r, answer)
  PROVE  /\ reply' \in [Requests -> Reply]
         /\ store' \in [Keys -> Requests \cup {None, Pending}]
         /\ stale' \subseteq {k \in Keys : store'[k] \in Requests}
         /\ forgotten' = forgotten
         /\ StoreIsTrue' /\ Backed'
<1>. DEFINE key == KeyOf[r]
            entry == IF answer = "ok" THEN r ELSE None
<1>. USE KeyAssumption DEF IInv, TypeOK
<1>1. /\ reply[r] = "waiting" /\ reply' = [reply EXCEPT ![r] = answer]
      /\ store' = IF key = NoKey THEN store ELSE [store EXCEPT ![key] = entry]
      /\ stale' = stale \ {key} /\ forgotten' = forgotten
  BY DEF Answered, SetEntry
<1>2. reply' \in [Requests -> Reply]
  BY <1>1 DEF Reply
<1>3. key \in Keys \cup {NoKey} /\ entry \in Requests \cup {None} /\ entry # Pending
  OBVIOUS
<1>4. store' \in [Keys -> Requests \cup {None, Pending}]
  BY <1>1, <1>3
<1>5. stale' \subseteq {k \in Keys : store'[k] \in Requests}
  BY <1>1, <1>3
<1>6. \A s \in Requests : s # r => reply'[s] = reply[s]
  BY <1>1
<1>7. ASSUME NEW s \in Requests, KeyOf[s] = key, key # NoKey, reply[s] = "waiting"
      PROVE  s = r
  BY <1>1, <1>3, <1>7 DEF StoreIsTrue, Waiting
<1>8. Backed'
  <2>. SUFFICES ASSUME NEW s \in Requests, KeyOf[s] # NoKey
                PROVE  /\ reply'[s] = "waiting" => store'[KeyOf[s]] = Pending
                       /\ reply'[s] = "ok" /\ s \notin forgotten => store'[KeyOf[s]] = s
    BY <1>1 DEF Backed
  <2>1. CASE s = r
    BY <2>1, <1>1, <1>3
  <2>2. CASE s # r /\ KeyOf[s] # key
    BY <2>2, <1>1, <1>3, <1>6 DEF Backed
  <2>3. CASE s # r /\ KeyOf[s] = key
    BY <2>3, <1>1, <1>3, <1>6, <1>7 DEF Backed
  <2>. QED  BY <2>1, <2>2, <2>3
<1>9. StoreIsTrue'
  <2>. SUFFICES ASSUME NEW k \in Keys
                PROVE  /\ store'[k] = Pending <=> Waiting(k)' # {}
                       /\ \A x, y \in Waiting(k)' : x = y
                       /\ store'[k] \in Requests => KeyOf[store'[k]] = k /\ reply'[store'[k]] = "ok"
    BY DEF StoreIsTrue
  <2>0. /\ store[k] = Pending <=> Waiting(k) # {}
        /\ \A x, y \in Waiting(k) : x = y
        /\ store[k] \in Requests => KeyOf[store[k]] = k /\ reply[store[k]] = "ok"
    BY DEF StoreIsTrue
  <2>1. CASE k = key
    <3>1. Waiting(k)' = {}
      BY <2>1, <1>1, <1>6, <1>7 DEF Waiting
    <3>2. store'[k] = entry
      BY <2>1, <1>1
    <3>3. entry \in Requests => entry = r /\ reply'[r] = "ok"
      BY <1>1
    <3>. QED  BY <3>1, <3>2, <3>3, <2>1, <1>3
  <2>2. CASE k # key
    <3>1. Waiting(k)' = Waiting(k)
      BY <2>2, <1>1 DEF Waiting
    <3>2. store'[k] = store[k]
      BY <2>2, <1>1, <1>3
    <3>3. store[k] \in Requests => store[k] # r
      BY <2>0, <1>1
    <3>. QED  BY <3>1, <3>2, <3>3, <2>0, <1>6
  <2>. QED  BY <2>1, <2>2
<1>. QED  BY <1>1, <1>2, <1>4, <1>5, <1>8, <1>9

\* The entry of key becomes e, after an eviction, on behalf of r.
LEMMA IInvEvict ==
  ASSUME IInv, NEW r \in Requests, NEW answer \in Reply \ {"ok"}, NEW e \in Requests \cup {Pending},
         KeyOf[r] # NoKey, EvictAndSet(KeyOf[r], e), reply[r] = "none",
         reply' = [reply EXCEPT ![r] = answer],
         \/ answer = "waiting" /\ e = Pending /\ Found(KeyOf[r]) = None
         \/ answer # "waiting" /\ e = store[KeyOf[r]] /\ Found(KeyOf[r]) # None
  PROVE  /\ reply' \in [Requests -> Reply]
         /\ store' \in [Keys -> Requests \cup {None, Pending}]
         /\ stale' \subseteq {k \in Keys : store'[k] \in Requests}
         /\ forgotten' \subseteq Requests
         /\ StoreIsTrue' /\ Backed'
<1>. DEFINE key == KeyOf[r]
<1>. USE KeyAssumption DEF IInv, TypeOK
<1>1. /\ key \in Keys
      /\ store' = [x \in Keys |-> IF x = key THEN e ELSE IF x \in Evicted THEN None ELSE store[x]]
      /\ stale' = stale \ Evicted
      /\ forgotten' = forgotten \cup {store[x] : x \in Evicted}
  BY DEF EvictAndSet
<1>2. Evicted \subseteq stale /\ \A k \in Evicted : k \in Keys /\ store[k] \in Requests
  BY EvictedIsAnswer
<1>3. reply' \in [Requests -> Reply] /\ \A s \in Requests : s # r => reply'[s] = reply[s]
  OBVIOUS
<1>4. store' \in [Keys -> Requests \cup {None, Pending}]
  BY <1>1
<1>5. answer = "waiting" => store[key] = None \/ key \in Evicted
  BY DEF Found
<1>6. answer # "waiting" => store[key] # None /\ key \notin Evicted
  BY DEF Found
<1>7. stale' \subseteq {k \in Keys : store'[k] \in Requests}
  BY <1>1, <1>2, <1>5, <1>6
<1>8. forgotten' \subseteq Requests
  BY <1>1, <1>2
<1>9. Backed'
  <2>. SUFFICES ASSUME NEW s \in Requests, KeyOf[s] # NoKey
                PROVE  /\ reply'[s] = "waiting" => store'[KeyOf[s]] = Pending
                       /\ reply'[s] = "ok" /\ s \notin forgotten' => store'[KeyOf[s]] = s
    BY DEF Backed
  <2>1. CASE s = r
    BY <2>1, <1>1
  <2>2. CASE s # r
    <3>1. /\ reply[s] = "waiting" => store[KeyOf[s]] = Pending
          /\ reply[s] = "ok" /\ s \notin forgotten => store[KeyOf[s]] = s
      BY DEF Backed
    <3>2. KeyOf[s] \in Keys
      OBVIOUS
    <3>3. store[KeyOf[s]] = Pending => KeyOf[s] \notin Evicted
      BY <1>2
    <3>4. store[KeyOf[s]] = s /\ s \notin forgotten' => KeyOf[s] \notin Evicted
      BY <1>1
    <3>. QED  BY <2>2, <3>1, <3>2, <3>3, <3>4, <1>1, <1>3, <1>5, <1>6
  <2>. QED  BY <2>1, <2>2
<1>10. StoreIsTrue'
  <2>. SUFFICES ASSUME NEW k \in Keys
                PROVE  /\ store'[k] = Pending <=> Waiting(k)' # {}
                       /\ \A x, y \in Waiting(k)' : x = y
                       /\ store'[k] \in Requests => KeyOf[store'[k]] = k /\ reply'[store'[k]] = "ok"
    BY DEF StoreIsTrue
  <2>0. /\ store[k] = Pending <=> Waiting(k) # {}
        /\ \A x, y \in Waiting(k) : x = y
        /\ store[k] \in Requests => store[k] # r /\ KeyOf[store[k]] = k /\ reply[store[k]] = "ok"
    BY DEF StoreIsTrue
  <2>1. CASE k = key /\ answer = "waiting"
    <3>1. Waiting(k) = {}
      BY <2>0, <2>1, <1>2, <1>5
    <3>2. Waiting(k)' = {r}
      BY <3>1, <2>1, <1>3 DEF Waiting
    <3>. QED  BY <3>2, <2>1, <1>1
  <2>2. CASE k = key /\ answer # "waiting"
    <3>1. Waiting(k)' = Waiting(k)
      BY <2>2, <1>3 DEF Waiting
    <3>. QED  BY <3>1, <2>0, <2>2, <1>1, <1>3
  <2>3. CASE k # key
    <3>1. Waiting(k)' = Waiting(k)
      BY <2>3, <1>3 DEF Waiting
    <3>2. store'[k] = IF k \in Evicted THEN None ELSE store[k]
      BY <2>3, <1>1
    <3>. QED  BY <3>1, <3>2, <2>0, <1>2, <1>3
  <2>. QED  BY <2>1, <2>2, <2>3
<1>. QED  BY <1>1, <1>3, <1>4, <1>7, <1>8, <1>9, <1>10

\* The process restarts.
LEMMA IInvCrash ==
  ASSUME IInv, Crash
  PROVE  IInv'
<1>. USE KeyAssumption, ThresholdAssumption DEF IInv, Crash
<1>1. TypeOK'
  <2>1. crashes' \in 0..MaxCrashes
    BY CrashesAssumption DEF TypeOK
  <2>. QED  BY <2>1 DEF TypeOK, BreakerTypeOK, CircuitState, Reply, Task
<1>2. BreakerCounts'
  BY DEF BreakerCounts
<1>3. \A s \in Requests : reply'[s] # "waiting" /\ (reply'[s] = "ok" => reply[s] = "ok")
  BY DEF TypeOK
<1>4. StoreIsTrue'
  BY <1>3 DEF StoreIsTrue, Waiting
<1>5. Backed'
  <2>. SUFFICES ASSUME NEW s \in Requests, KeyOf[s] # NoKey, reply'[s] = "ok", s \notin forgotten'
                PROVE  FALSE
    BY <1>3 DEF Backed
  <2>1. store[KeyOf[s]] = s
    BY <1>3 DEF Backed, TypeOK
  <2>. QED  BY <2>1
<1>6. ActedRan'
  BY DEF ActedRan, TypeOK
<1>. QED  BY <1>1, <1>2, <1>4, <1>5, <1>6

\* Steps that leave what was answered and what is kept alone.
LEMMA IInvQuiet ==
  ASSUME StoreIsTrue, Backed, UNCHANGED <<reply, store, forgotten>>
  PROVE  StoreIsTrue' /\ Backed'
BY DEF StoreIsTrue, Backed, Waiting

LEMMA IInvNext ==
  ASSUME IInv, [Next]_vars
  PROVE  IInv'
<1>. USE KeyAssumption
<1>1. ASSUME NEW r \in Requests, intercept(r)
      PROVE  IInv'
  <2>1. /\ reply[r] = "none" /\ reply' = [reply EXCEPT ![r] = "waiting"]
        /\ task' = [task EXCEPT ![r] = "started"]
        /\ UNCHANGED <<breaker, acted, crashes>>
    BY <1>1 DEF intercept
  <2>2. ActedRan'
    BY <2>1 DEF IInv, TypeOK, ActedRan
  <2>3. BreakerTypeOK' /\ BreakerCounts'
    BY <2>1, BreakerStep DEF IInv, TypeOK
  <2>4. CASE KeyOf[r] = NoKey
    <3>1. UNCHANGED cache
      BY <2>4, <1>1 DEF intercept
    <3>2. Backed'
      BY <2>1, <2>4, <3>1 DEF IInv, TypeOK, Backed, cache
    <3>3. StoreIsTrue'
      <4>1. \A k \in Keys : Waiting(k)' = Waiting(k)
        BY <2>1, <2>4 DEF Waiting, IInv, TypeOK
      <4>. QED  BY <4>1, <2>1, <3>1 DEF IInv, TypeOK, StoreIsTrue, cache
    <3>4. TypeOK'
      BY <2>1, <2>3, <3>1 DEF IInv, TypeOK, cache, Reply, Task
    <3>. QED  BY <2>2, <2>3, <3>2, <3>3, <3>4 DEF IInv
  <2>5. CASE KeyOf[r] # NoKey
    <3>1. EvictAndSet(KeyOf[r], Pending) /\ Found(KeyOf[r]) = None
      BY <2>5, <1>1 DEF intercept
    <3>2. /\ reply' \in [Requests -> Reply]
          /\ store' \in [Keys -> Requests \cup {None, Pending}]
          /\ stale' \subseteq {k \in Keys : store'[k] \in Requests}
          /\ forgotten' \subseteq Requests
          /\ StoreIsTrue' /\ Backed'
      BY <2>1, <2>5, <3>1, IInvEvict DEF Reply
    <3>3. TypeOK'
      BY <2>1, <2>3, <3>2 DEF IInv, TypeOK, Task
    <3>. QED  BY <2>2, <2>3, <3>2, <3>3 DEF IInv
  <2>. QED  BY <2>4, <2>5
<1>2. ASSUME NEW r \in Requests, replayOrConflict(r)
      PROVE  IInv'
  <2>. DEFINE answer == IF store[KeyOf[r]] = Pending THEN "conflict" ELSE "replay"
  <2>1. /\ reply[r] = "none" /\ reply' = [reply EXCEPT ![r] = answer]
        /\ KeyOf[r] # NoKey /\ Found(KeyOf[r]) # None
        /\ EvictAndSet(KeyOf[r], store[KeyOf[r]])
        /\ UNCHANGED <<breaker, task, acted, crashes>>
    BY <1>2 DEF replayOrConflict
  <2>2. store[KeyOf[r]] \in Requests \cup {Pending}
    BY <2>1 DEF Found, IInv, TypeOK
  <2>3. /\ reply' \in [Requests -> Reply]
        /\ store' \in [Keys -> Requests \cup {None, Pending}]
        /\ stale' \subseteq {k \in Keys : store'[k] \in Requests}
        /\ forgotten' \subseteq Requests
        /\ StoreIsTrue' /\ Backed'
    BY <2>1, <2>2, IInvEvict DEF Reply
  <2>4. BreakerTypeOK' /\ BreakerCounts'
    BY <2>1, BreakerStep DEF IInv, TypeOK
  <2>5. ActedRan'
    BY <2>1 DEF IInv, TypeOK, ActedRan
  <2>6. TypeOK'
    BY <2>1, <2>3, <2>4 DEF IInv, TypeOK
  <2>. QED  BY <2>3, <2>4, <2>5, <2>6 DEF IInv
<1>3. ASSUME NEW r \in Requests, timeout(r)
      PROVE  IInv'
  <2>1. Answered(r, "timeout") /\ UNCHANGED <<breaker, task, acted, crashes>>
    BY <1>3 DEF timeout, Timed, Answered
  <2>2. /\ reply' \in [Requests -> Reply]
        /\ store' \in [Keys -> Requests \cup {None, Pending}]
        /\ stale' \subseteq {k \in Keys : store'[k] \in Requests}
        /\ forgotten' = forgotten
        /\ StoreIsTrue' /\ Backed'
    BY <2>1, IInvAnswered
  <2>3. BreakerTypeOK' /\ BreakerCounts'
    BY <2>1, BreakerStep DEF IInv, TypeOK
  <2>4. ActedRan'
    BY <2>1 DEF IInv, TypeOK, ActedRan, Answered
  <2>5. TypeOK'
    BY <2>1, <2>2, <2>3 DEF IInv, TypeOK
  <2>. QED  BY <2>2, <2>3, <2>4, <2>5 DEF IInv
<1>4. ASSUME NEW r \in Requests, Handler(r)
      PROVE  IInv'
  <2>1. PICK t \in Task \ {"off"} : task' = [task EXCEPT ![r] = t]
    BY <1>4, HandlerEffect
  <2>2. /\ task[r] # "off" /\ acted' \in {acted, acted \cup {r}} /\ crashes' = crashes
        /\ \/ UNCHANGED <<reply, cache>>
           \/ \E answer \in {"ok", "error"} : Answered(r, answer)
        /\ StateRead \/ onSuccess \/ onFailure \/ UNCHANGED breaker
    BY <1>4, HandlerEffect
  <2>3. /\ reply' \in [Requests -> Reply]
        /\ store' \in [Keys -> Requests \cup {None, Pending}]
        /\ stale' \subseteq {k \in Keys : store'[k] \in Requests}
        /\ forgotten' = forgotten
        /\ StoreIsTrue' /\ Backed'
    <3>1. CASE UNCHANGED <<reply, cache>>
      BY <3>1, IInvQuiet DEF IInv, TypeOK, cache
    <3>2. CASE \E answer \in {"ok", "error"} : Answered(r, answer)
      BY <3>2, IInvAnswered
    <3>. QED  BY <2>2, <3>1, <3>2
  <2>4. BreakerTypeOK' /\ BreakerCounts'
    BY <2>2, BreakerStep DEF IInv, TypeOK
  <2>5. ActedRan'
    <3>1. \A s \in Requests : reply'[s] \in {"none", "replay", "conflict"} => reply'[s] = reply[s]
      BY <2>2 DEF Answered, IInv, TypeOK, cache
    <3>. QED  BY <2>1, <2>2, <3>1 DEF IInv, TypeOK, ActedRan
  <2>6. TypeOK'
    BY <2>1, <2>2, <2>3, <2>4 DEF IInv, TypeOK
  <2>. QED  BY <2>3, <2>4, <2>5, <2>6 DEF IInv
<1>5. ASSUME NEW k \in Keys, expire(k)
      PROVE  IInv'
  BY <1>5, IInvQuiet, BreakerStep DEF expire, IInv, TypeOK, ActedRan
<1>6. CASE checks \/ resetTimeElapses
  <2>1. UNCHANGED <<reply, task, cache, acted, crashes>> /\ (StateRead \/ resetElapses)
    BY <1>6 DEF checks, resetTimeElapses
  <2>2. BreakerTypeOK' /\ BreakerCounts'
    BY <2>1, BreakerStep DEF IInv, TypeOK
  <2>. QED  BY <2>1, <2>2, IInvQuiet DEF IInv, TypeOK, ActedRan, cache
<1>7. CASE UNCHANGED vars
  <2>1. BreakerTypeOK' /\ BreakerCounts'
    BY <1>7, BreakerStep DEF IInv, TypeOK, vars
  <2>. QED  BY <1>7, <2>1, IInvQuiet DEF IInv, TypeOK, ActedRan, vars, cache
<1>. QED  BY <1>1, <1>2, <1>3, <1>4, <1>5, <1>6, <1>7, IInvCrash DEF Next

LEMMA IInvAlways == Spec => []IInv
BY IInvInit, IInvNext, PTL DEF Spec

\* Requests, tasks, the store and the breaker keep their types; an entry past
\* its time is an answer (idempotency.interceptor.ts 75-81).
THEOREM TypeCorrect == Spec => []TypeOK
BY IInvAlways, PTL DEF IInv

\* A key is in flight exactly while one request of it is waiting, and what is
\* kept for it was given to its client, for any timeouts, late handlers,
\* evictions and restarts (idempotency.interceptor.ts 33-72).
THEOREM StoreIsTrueAlways == Spec => []StoreIsTrue
BY IInvAlways, PTL DEF IInv

\* Two requests of one key both act only if one was not answered, or its
\* answer was forgotten (idempotency.interceptor.ts 14).
THEOREM ActsOncePerKeyAlways == Spec => []ActsOncePerKey
<1>1. IInv => ActsOncePerKey
  <2>. SUFFICES ASSUME IInv, NEW r \in acted, NEW s \in acted,
                       r # s, KeyOf[r] = KeyOf[s], KeyOf[r] # NoKey,
                       ~Unsettled(r), ~Unsettled(s)
                PROVE  FALSE
    BY DEF ActsOncePerKey
  <2>1. ASSUME NEW x \in {r, s}
        PROVE  /\ x \in Requests /\ x \notin forgotten
               /\ reply[x] \in {"waiting", "ok"}
    BY DEF IInv, TypeOK, ActedRan, Unsettled, Reply
  <2>2. ASSUME NEW x \in {r, s}, NEW y \in {r, s}, reply[x] = "ok"
        PROVE  store[KeyOf[y]] = x
    BY <2>1, <2>2 DEF IInv, Backed
  <2>3. reply[r] = "waiting" \/ reply[s] = "waiting"
    BY <2>1, <2>2
  <2>4. store[KeyOf[r]] = Pending
    BY <2>1, <2>3 DEF IInv, Backed
  <2>5. reply[r] = "waiting" /\ reply[s] = "waiting"
    BY <2>1, <2>2, <2>4, KeyAssumption
  <2>6. KeyOf[r] \in Keys
    BY <2>1, KeyAssumption
  <2>. QED  BY <2>1, <2>5, <2>6 DEF IInv, StoreIsTrue, Waiting
<1>. QED  BY <1>1, IInvAlways, PTL

\* The breaker is closed exactly while fewer than Threshold failures were
\* reported since the last success (circuit-breaker.ts 66-85).
THEOREM BreakerCountsAlways == Spec => []BreakerCounts
BY IInvAlways, PTL DEF IInv
=============================================================================
