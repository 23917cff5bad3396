------------------------ MODULE MCEditorialWorkflow ------------------------
(***************************************************************************)
(* One content; a journalist j, an editor e (who may sign the first two    *)
(* levels), a director d and an administrator a (who may sign all four).   *)
(* Contents share no row, so one is enough.                                *)
(***************************************************************************)
EXTENDS EditorialWorkflow, TLC

CONSTANTS j, e, d, a

\* Two callers who may sign, for the runs with overlapping requests.
Signers == {e, d}
RoleOfSigners == [u \in Signers |-> IF u = e THEN "editor" ELSE "direction"]
ByEditor == [c \in Contents |-> e]

\* Everybody, for the run where requests do not overlap.
Everybody == {j, e, a}
RoleOfEverybody == [u \in Everybody |-> CASE u = j -> "journalist"
                                          [] u = e -> "editor"
                                          [] u = a -> "admin"]
ByJournalist == [c \in Contents |-> j]

\* Handlers are interchangeable: no property names one.
MCSymmetry == Permutations(Handlers)
=============================================================================
