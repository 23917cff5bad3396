-------------------------- MODULE MCRequestPipeline --------------------------
(* A write and its retry under one key, two questions.                     *)
EXTENDS RequestPipeline

CONSTANTS w1, w2, a1, a2, key

TheKeys == [r \in Requests |-> IF Kind[r] = "write" THEN key ELSE NoKey]

TheKinds ==
  [r \in Requests |-> IF r \in {w1, w2} THEN "write" ELSE "ai"]
=============================================================================
