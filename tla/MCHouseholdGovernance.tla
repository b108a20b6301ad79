----------------------- MODULE MCHouseholdGovernance -----------------------
(***************************************************************************)
(* Two people, an outside address, one household, three links.  The seat   *)
(* limit leaves room for an owner and two links, so a third that comes     *)
(* back to life is one too many; a link lives two ticks, so that a call    *)
(* can read the clock on its last tick and write after it.                 *)
(***************************************************************************)
EXTENDS HouseholdGovernance, TLC

CONSTANTS p1, p2, x1, h1, i1, i2, i3

People == {p1, p2}
Addresses == People \cup {x1}
OneHousehold == {h1}
Links == {i1, i2, i3}

Symmetric == Permutations(People) \cup Permutations(Links)

\* No step and no property reads more of an invitation that is not pending than
\* its state (AdmittedByLiveLink and SettledRow look at the rest of pending rows).
RowSeen(row) == IF row = None \/ row.state = "pending" THEN row ELSE row.state
Seen == <<now, accounts, status, member, confirmed,
          [i \in Invitation |-> RowSeen(invitation[i])], calls>>
=============================================================================
