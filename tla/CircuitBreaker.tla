--------------------------- MODULE CircuitBreaker ---------------------------
(***************************************************************************)
(* common/circuit-breaker.ts: the state that claude.service.ts keeps, per  *)
(* process, in front of the model provider.  The methods are operators     *)
(* over the state before and after; RequestPipeline calls them where the   *)
(* code does.  exec is two steps there, as its await is: other calls start *)
(* and report in between.                                                  *)
(***************************************************************************)
EXTENDS Naturals

CONSTANT Threshold      \* failureThreshold, 5 for Claude

ASSUME ThresholdAssumption == Threshold \in Nat \ {0}

VARIABLES
  state,
  failures,
  elapsed               \* Date.now() - openedAt >= resetMs

breaker == <<state, failures, elapsed>>

CircuitState == {"CLOSED", "OPEN", "HALF_OPEN"}

BreakerTypeOK ==
  /\ state \in CircuitState
  /\ failures \in Nat
  /\ elapsed \in BOOLEAN

BreakerInit ==
  /\ state = "CLOSED"
  /\ failures = 0
  /\ elapsed = FALSE

\* A read that moves: whoever asks first after the reset time half-opens it.
getState == IF state = "OPEN" /\ elapsed THEN "HALF_OPEN" ELSE state

StateRead ==
  /\ state' = getState
  /\ UNCHANGED <<failures, elapsed>>

\* Slip: the counter survives a success.
onSuccessKeepsCount ==
  /\ state' = "CLOSED"
  /\ UNCHANGED <<failures, elapsed>>

\* Whatever the state by now: a call that started before the breaker opened
\* closes it.
onSuccess ==
  /\ state' = "CLOSED"
  /\ failures' = 0
  /\ UNCHANGED elapsed

onFailure ==
  /\ failures' = failures + 1
  /\ IF state = "HALF_OPEN" \/ failures' >= Threshold
     THEN state' = "OPEN" /\ elapsed' = FALSE
     ELSE UNCHANGED <<state, elapsed>>

resetElapses ==
  /\ state = "OPEN" /\ ~elapsed
  /\ elapsed' = TRUE
  /\ UNCHANGED <<state, failures>>

\* The breaker lets calls through exactly as long as fewer than Threshold
\* failures were reported since the last success, in whatever order the
\* calls that were under way report (circuit-breaker.ts 66-77).
BreakerCounts == state = "CLOSED" <=> failures < Threshold
=============================================================================
