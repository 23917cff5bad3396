------------------------------ MODULE MCWebClient ------------------------------
(* Two of everything.  Parts never meet, so they can share their values:    *)
(* x1 and x2 stand for the calls, clicks, questions, requests, tabs ... of  *)
(* a part, y1 and y2 for what those are about, c1 and c2 for the cameras (c1 *)
(* also for the key of an object).                                          *)
EXTENDS WebClient, TLC

CONSTANTS x1, x2, y1, y2, c1, c2

Symmetry == Permutations({x1, x2}) \cup Permutations({y1, y2})
=============================================================================
