---------------------------- MODULE DerivedIndex ----------------------------
(***************************************************************************)
(* What the embedding pipeline promises about one record and the data      *)
(* derived from it: the derived data is written only while the derivation  *)
(* is unsettled, only an announcement unsettles it, and a derivation that  *)
(* settles with every save announced agrees with the source.               *)
(***************************************************************************)
CONSTANTS
  Sources,        \* what the source may hold
  Derivations,    \* what may be derived from it
  Nothing,        \* no derived data
  Agrees(_, _)    \* does the derived data match the source?

VARIABLES
  source, derived,
  announced,      \* has the last save been announced?
  settled         \* has the derivation come to rest?

vars == <<source, derived, announced, settled>>

Init ==
  /\ source \in Sources /\ derived = Nothing
  /\ announced = FALSE /\ settled = FALSE

Save ==
  /\ source' \in Sources /\ announced' = FALSE
  /\ UNCHANGED <<derived, settled>>

Announce ==
  /\ announced' = TRUE /\ settled' = FALSE
  /\ UNCHANGED <<source, derived>>

Write ==
  /\ ~settled
  /\ derived' \in Derivations \cup {Nothing}
  /\ UNCHANGED <<source, announced, settled>>

Settle ==
  /\ ~settled /\ settled' = TRUE
  /\ announced => Agrees(source, derived)
  /\ UNCHANGED <<source, derived, announced>>

Next == Save \/ Announce \/ Write \/ Settle

Spec == Init /\ [][Next]_vars
=============================================================================
