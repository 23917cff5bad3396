---------------------------- MODULE MCAuditChain ----------------------------
(* Two writers on replicas whose clocks are one millisecond apart.         *)
EXTENDS AuditChain

CONSTANTS w1, w2

OneMillisecondApart == [w \in Writers |-> IF w = w1 THEN 0 ELSE 1]
=============================================================================
