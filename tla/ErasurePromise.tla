--------------------------- MODULE ErasurePromise ---------------------------
(***************************************************************************)
(* What the owner of an account is promised: an account that is asked to   *)
(* be deleted never opens again, and once deleted it never comes back.     *)
(***************************************************************************)
VARIABLE status     \* "open", "closing" (deletion accepted), "erased"

Init == status = "open"

Accept == status = "open" /\ status' = "closing"

Erase == status = "closing" /\ status' = "erased"

Next == Accept \/ Erase

Spec == Init /\ [][Next]_status

\* A deletion that was accepted is also carried out.
FairSpec == Spec /\ WF_status(Erase)
=============================================================================
