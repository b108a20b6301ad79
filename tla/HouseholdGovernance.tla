------------------------ MODULE HouseholdGovernance ------------------------
(***************************************************************************)
(* Household workspaces: who is in one, who governs it, who is invited     *)
(* into it, and how it ends.                                               *)
(*                                                                         *)
(* Governance finds the caller's household, locks its row, reads the       *)
(* roster again under the lock and writes in the same transaction: one     *)
(* step.  What is read before a lock is in `calls`: an owner who sends,    *)
(* resends or cancels is known to be one, and has looked at the clock,     *)
(* before the household is locked; a recipient loads the invitation by     *)
(* its secret before; a founder's three statements have no lock at all.    *)
(* Governance reads the clock before its lock too, but all that hangs on   *)
(* it is whether a link taken back is called canceled or expired.          *)
(***************************************************************************)
EXTENDS Naturals, FiniteSets

CONSTANTS
  Person,       \* user accounts, each with its own address
  Address,      \* addresses an owner may type
  Household,    \* ids of workspace rows
  Invitation,   \* ids of invitation rows
  SeatLimit,    \* HOUSEHOLD_SEAT_LIMIT
  Ttl,          \* HOUSEHOLD_INVITATION_TTL_DAYS
  None,
  MaxTime, MaxCalls, MaxSecret    \* bounds: clock, calls under way, resends

ASSUME GovernanceAssumption ==
  /\ Person \subseteq Address /\ IsFiniteSet(Person) /\ IsFiniteSet(Invitation)
  /\ None \notin Person \cup Household \cup Invitation
  /\ SeatLimit \in Nat \ {0} /\ Ttl \in Nat \ {0}
  /\ MaxTime \in Nat /\ MaxCalls \in Nat /\ MaxSecret \in Nat

VARIABLES
  now,
  accounts,     \* the users whose rows exist
  status,       \* of each workspace row: none, active or dissolved
  member,       \* household_memberships, one row for a household and a user
  confirmed,    \* household_dissolution_confirmations: who has confirmed
  invitation,   \* household_invitations
  calls         \* calls that have read something and not yet written

vars == <<now, accounts, status, member, confirmed, invitation, calls>>

MemberStatus == {"none", "active", "removed"}
Membership == [status : MemberStatus, role : {"owner", "member"}, offered : BOOLEAN]
Absent == [status |-> "none", role |-> "member", offered |-> FALSE]

InvitationState == {"pending", "accepted", "declined", "canceled", "expired"}
InvitationRow == [home : Household, by : Person \cup {None}, to : Address,
                  state : InvitationState, expires : Nat, secret : Nat]

ASSUME RowAssumption == None \notin InvitationRow

CallKind == {"send", "resend", "cancel", "accept", "decline", "create", "found"}
Call == [kind : CallKind, by : Person, home : Household \cup {None},
         inv : Invitation \cup {None}, secret : Nat, at : Nat]

-----------------------------------------------------------------------------
(* The roster and the rules of the domain's governance seam.               *)

Active(h, p) == member[h][p].status = "active"
ActiveMembers(h) == {p \in Person : Active(h, p)}
ActiveOwners(h) == {p \in ActiveMembers(h) : member[h][p].role = "owner"}
Homes(p) == {h \in Household : Active(h, p)}

IsLastActiveOwner(h, p) == ActiveOwners(h) = {p}

\* householdDissolutionProgress
Awaiting(h, votes) == ActiveOwners(h) \ votes
AnyUnanimous(h, votes) == votes # {}              \* variant: one owner is enough
Unanimous(h, votes) == ActiveOwners(h) # {} /\ Awaiting(h, votes) = {}

Exists(i) == invitation[i] # None
Live(row, at) == row.state = "pending" /\ at < row.expires
LiveIn(h, at) ==
  {i \in Invitation : Exists(i) /\ invitation[i].home = h /\ Live(invitation[i], at)}

\* householdSeatUsage: active members plus live invitations.
Occupied(h, at) == Cardinality(ActiveMembers(h)) + Cardinality(LiveIn(h, at))

SeatAvailable(h, at) == Occupied(h, at) < SeatLimit

\* What a pending invitation becomes when it is taken back or found lapsed.
Ended(row, at) == [row EXCEPT !.state = IF Live(row, at) THEN "canceled" ELSE "expired"]

\* settleLapsedInvitations: the lapse of every pending invitation is persisted.
SettledRow(row, h, at) ==
  IF row # None /\ row.home = h /\ row.state = "pending" /\ ~Live(row, at)
  THEN Ended(row, at) ELSE row

NotSettled(h, at) == invitation                   \* variant: reads decide anyway
Settled(h, at) == [i \in Invitation |-> SettledRow(invitation[i], h, at)]

\* cancelLiveInvitations, of one sender or of all of them.
CanceledOf(rows, h, senders, at) ==
  [i \in Invitation |->
     IF rows[i] # None /\ rows[i].home = h /\ rows[i].state = "pending"
          /\ rows[i].by \in senders
     THEN Ended(rows[i], at) ELSE rows[i]]
Anyone == Person \cup {None}

-----------------------------------------------------------------------------
Init ==
  /\ now = 0
  /\ accounts = Person
  /\ status = [h \in Household |-> "none"]
  /\ member = [h \in Household |-> [p \in Person |-> Absent]]
  /\ confirmed = [h \in Household |-> {}]
  /\ invitation = [i \in Invitation |-> None]
  /\ calls = {}

\* acceptInvitation holds the row of its user from its first statement on.
UserLocked(p) == \E c \in calls : c.kind = "accept" /\ c.by = p

NewCall(kind, p, h, i) ==
  [kind |-> kind, by |-> p, home |-> h, inv |-> i,
   secret |-> IF i = None THEN 0 ELSE invitation[i].secret, at |-> now]

Begin(c) ==
  /\ Cardinality(calls) < MaxCalls
  /\ calls' = calls \cup {c}

\* A refused call, and one whose process dies: nothing it did is kept, except
\* the workspace of a founder (createHousehold has no transaction).
Drop(c) ==
  /\ calls' = calls \ {c}
  /\ UNCHANGED <<now, accounts, status, member, confirmed, invitation>>

-----------------------------------------------------------------------------
(* createHousehold: the admission check, the workspace, the membership.    *)

CheckAdmission(p) ==
  /\ p \in accounts /\ Homes(p) = {}
  /\ Begin(NewCall("create", p, None, None))
  /\ UNCHANGED <<now, accounts, status, member, confirmed, invitation>>

InsertWorkspace(c, h) ==
  /\ c.kind = "create" /\ c.by \in accounts /\ ~UserLocked(c.by)
  /\ status[h] = "none"
  /\ status' = [status EXCEPT ![h] = "active"]
  /\ calls' = (calls \ {c}) \cup {[c EXCEPT !.kind = "found", !.home = h]}
  /\ UNCHANGED <<now, accounts, member, confirmed, invitation>>

InsertOwner(c) ==
  /\ c.kind = "found" /\ c.by \in accounts /\ ~UserLocked(c.by)
  /\ member' = [member EXCEPT ![c.home][c.by] =
                  [status |-> "active", role |-> "owner", offered |-> FALSE]]
  /\ calls' = calls \ {c}
  /\ UNCHANGED <<now, accounts, status, confirmed, invitation>>

-----------------------------------------------------------------------------
(* Invitations: the owner's side.                                          *)

\* requireOwnedHousehold, and the clock read before it.
RequireOwnedHousehold(p, h, kind) ==
  /\ p \in ActiveOwners(h)
  /\ Begin(NewCall(kind, p, h, None))
  /\ UNCHANGED <<now, accounts, status, member, confirmed, invitation>>

SendInvitation(c, i, address) ==
  /\ c.kind = "send" /\ c.by \in accounts /\ ~Exists(i)
  /\ address \notin ActiveMembers(c.home)
  /\ \A k \in LiveIn(c.home, c.at) : invitation[k].to # address
  /\ SeatAvailable(c.home, c.at)
  /\ invitation' = [Settled(c.home, c.at) EXCEPT ![i] =
       [home |-> c.home, by |-> c.by, to |-> address, state |-> "pending",
        expires |-> c.at + Ttl, secret |-> 0]]
  /\ calls' = calls \ {c}
  /\ UNCHANGED <<now, accounts, status, member, confirmed>>

GovernsRow(c, i) == Exists(i) /\ invitation[i].home = c.home    \* variant: not re-read

\* A row of this household that the call still finds live under the lock.
Governs(c, i) == Exists(i) /\ invitation[i].home = c.home /\ Live(invitation[i], c.at)

\* The cooldown between two sends is two minutes, less than one tick.
ResendInvitation(c, i) ==
  /\ c.kind = "resend" /\ c.by \in accounts /\ Governs(c, i)
  /\ invitation[i].secret < MaxSecret
  /\ invitation' = [invitation EXCEPT ![i].secret = @ + 1, ![i].expires = c.at + Ttl]
  /\ calls' = calls \ {c}
  /\ UNCHANGED <<now, accounts, status, member, confirmed>>

CancelInvitation(c, i) ==
  /\ c.kind = "cancel" /\ c.by \in accounts /\ Governs(c, i)
  /\ invitation' = [invitation EXCEPT ![i].state = "canceled"]
  /\ calls' = calls \ {c}
  /\ UNCHANGED <<now, accounts, status, member, confirmed>>

-----------------------------------------------------------------------------
(* Invitations: the recipient's side.                                      *)

\* decideHouseholdJoin, for the holder of the invited address.
Proven(p, i) == Exists(i) /\ Live(invitation[i], now) /\ invitation[i].to = p

\* The user's row is locked, the invitation loaded and the join decided.
LoadForAccept(p, i) ==
  /\ p \in accounts /\ ~UserLocked(p)
  /\ Proven(p, i) /\ Homes(p) = {}
  /\ Begin(NewCall("accept", p, None, i))
  /\ UNCHANGED <<now, accounts, status, member, confirmed, invitation>>

\* The clock an acceptance is judged by, under the household's lock.
AcceptedAtLoad(c) == c.at                         \* variant: the pre-lock clock
AcceptedAt(c) == now

ReadmittedAsBefore(row) == [row EXCEPT !.status = "active"]    \* variant: role is kept

\* admitMembership: a row that is there is used again, with the invitation's role.
Readmitted(row) == [row EXCEPT !.status = "active", !.role = "member"]

AcceptInvitation(c) ==
  LET row == invitation[c.inv]
      at == AcceptedAt(c)
  IN
  /\ c.kind = "accept"
  /\ row.secret = c.secret /\ Live(row, at)
  /\ Homes(c.by) = {} /\ SeatAvailable(row.home, at)
  /\ member' = [member EXCEPT ![row.home][c.by] = Readmitted(@)]
  /\ invitation' = [Settled(row.home, at) EXCEPT ![c.inv].state = "accepted"]
  /\ calls' = calls \ {c}
  /\ UNCHANGED <<now, accounts, status, confirmed>>

LoadForDecline(p, i) ==
  /\ p \in accounts /\ Proven(p, i)
  /\ Begin(NewCall("decline", p, None, i))
  /\ UNCHANGED <<now, accounts, status, member, confirmed, invitation>>

DeclineInvitation(c) ==
  /\ c.kind = "decline" /\ c.by \in accounts
  /\ Live(invitation[c.inv], c.at)
  /\ invitation' = [invitation EXCEPT ![c.inv].state = "declined"]
  /\ calls' = calls \ {c}
  /\ UNCHANGED <<now, accounts, status, member, confirmed>>

-----------------------------------------------------------------------------
(* Governance, under the household's row lock.                             *)

Kept == UNCHANGED <<now, accounts, calls>>

Answered(h, p, row) ==
  /\ member' = [member EXCEPT ![h][p] = row]
  /\ Kept /\ UNCHANGED <<status, confirmed, invitation>>

OfferOwnerRole(p, q, h) ==
  /\ p \in ActiveOwners(h)
  /\ q \in ActiveMembers(h) \ ActiveOwners(h) /\ ~member[h][q].offered
  /\ Answered(h, q, [member[h][q] EXCEPT !.offered = TRUE])

WithdrawOwnerOffer(p, q, h) ==
  /\ p \in ActiveOwners(h)
  /\ Active(h, q) /\ member[h][q].offered
  /\ Answered(h, q, [member[h][q] EXCEPT !.offered = FALSE])

AcceptOwnerRole(p, h) ==
  /\ Active(h, p) /\ member[h][p].offered
  /\ Answered(h, p, [member[h][p] EXCEPT !.role = "owner", !.offered = FALSE])

DeclineOwnerRole(p, h) ==
  /\ Active(h, p) /\ member[h][p].offered
  /\ Answered(h, p, [member[h][p] EXCEPT !.offered = FALSE])

VotesKept(h, p) == confirmed                      \* variant: a vote is left behind
VotesWithout(h, p) == [confirmed EXCEPT ![h] = @ \ {p}]

StepDownFromOwner(p, h) ==
  /\ p \in ActiveOwners(h) /\ ~IsLastActiveOwner(h, p)
  /\ member' = [member EXCEPT ![h][p].role = "member"]
  /\ confirmed' = VotesWithout(h, p)
  /\ Kept /\ UNCHANGED <<status, invitation>>

RemovedWithOffer(row) == [row EXCEPT !.status = "removed"]    \* variant
Removed(row) == [row EXCEPT !.status = "removed", !.offered = FALSE]

\* endMembership: the row stays, with its role; the votes and links end with it.
EndMembership(h, p) ==
  /\ member' = [member EXCEPT ![h][p] = Removed(@)]
  /\ confirmed' = VotesWithout(h, p)
  /\ invitation' = CanceledOf(invitation, h, {p}, now)
  /\ Kept /\ UNCHANGED status

RemoveMember(p, q, h) ==
  /\ p \in ActiveOwners(h)
  /\ q \in ActiveMembers(h) \ ActiveOwners(h)
  /\ EndMembership(h, q)

MayLeaveAlways(h, p) == Active(h, p)              \* variant: the last owner too
MayLeave(h, p) == Active(h, p) /\ ~IsLastActiveOwner(h, p)

LeaveHousehold(p, h) == MayLeave(h, p) /\ EndMembership(h, p)

\* dissolve, and what the trigger of an account deletion does in its stead.
Dissolve(h) ==
  /\ status' = [status EXCEPT ![h] = "dissolved"]
  /\ confirmed' = [confirmed EXCEPT ![h] = {}]
  /\ member' = [member EXCEPT ![h] =
       [q \in Person |-> IF Active(h, q) THEN Removed(@[q]) ELSE @[q]]]
  /\ invitation' = CanceledOf(invitation, h, Anyone, now)

EndsIfMajority(h, p) == Awaiting(h, confirmed[h]) = ActiveOwners(h)    \* variant
WouldEndNow(h, p) == Awaiting(h, confirmed[h]) = {p}

\* endsNow is what the caller's screen said, which may be of any age.
ConfirmDissolution(p, h, endsNow) ==
  LET votes == confirmed[h] \cup {p} IN
  /\ p \in ActiveOwners(h)
  /\ WouldEndNow(h, p) => endsNow
  /\ IF Unanimous(h, votes)
     THEN Dissolve(h)
     ELSE /\ confirmed' = [confirmed EXCEPT ![h] = votes]
          /\ UNCHANGED <<status, member, invitation>>
  /\ Kept

CancelDissolution(p, h) ==
  /\ p \in ActiveOwners(h)
  /\ confirmed' = [confirmed EXCEPT ![h] = {}]
  /\ Kept /\ UNCHANGED <<status, member, invitation>>

-----------------------------------------------------------------------------
(* The trigger on the deletion of a user, and the cascades that follow it. *)

LeavesUngoverned(h, p) == ActiveMembers(h) # {p} /\ IsLastActiveOwner(h, p)

NullSender(row, p) == IF row # None /\ row.by = p THEN [row EXCEPT !.by = None] ELSE row

DeleteUser(p) ==
  LET sole == {h \in Homes(p) : ActiveMembers(h) = {p}}
      ended == [i \in Invitation |->
                  IF Exists(i) /\ invitation[i].home \in sole
                       /\ invitation[i].state = "pending"
                  THEN Ended(invitation[i], now) ELSE invitation[i]]
  IN
  /\ p \in accounts /\ ~UserLocked(p)
  /\ \A h \in Homes(p) : ~LeavesUngoverned(h, p)
  /\ accounts' = accounts \ {p}
  /\ status' = [h \in Household |-> IF h \in sole THEN "dissolved" ELSE status[h]]
  /\ member' = [h \in Household |-> [member[h] EXCEPT ![p] = Absent]]
  /\ confirmed' = [h \in Household |-> IF h \in sole THEN {} ELSE confirmed[h] \ {p}]
  /\ invitation' = [i \in Invitation |-> NullSender(ended[i], p)]
  /\ UNCHANGED <<now, calls>>

Tick == now < MaxTime /\ now' = now + 1
        /\ UNCHANGED <<accounts, status, member, confirmed, invitation, calls>>

-----------------------------------------------------------------------------
Founding ==
  \/ \E p \in Person : CheckAdmission(p)
  \/ \E c \in calls, h \in Household : InsertWorkspace(c, h)
  \/ \E c \in calls : InsertOwner(c)

Inviting ==
  \/ \E p \in Person, h \in Household, kind \in {"send", "resend", "cancel"} :
       RequireOwnedHousehold(p, h, kind)
  \/ \E c \in calls, i \in Invitation, address \in Address : SendInvitation(c, i, address)
  \/ \E c \in calls, i \in Invitation : ResendInvitation(c, i)
  \/ \E c \in calls, i \in Invitation : CancelInvitation(c, i)

Answering ==
  \/ \E p \in Person, i \in Invitation : LoadForAccept(p, i)
  \/ \E c \in calls : AcceptInvitation(c)
  \/ \E p \in Person, i \in Invitation : LoadForDecline(p, i)
  \/ \E c \in calls : DeclineInvitation(c)

Governing ==
  \/ \E p, q \in Person, h \in Household : OfferOwnerRole(p, q, h)
  \/ \E p, q \in Person, h \in Household : WithdrawOwnerOffer(p, q, h)
  \/ \E p \in Person, h \in Household : AcceptOwnerRole(p, h)
  \/ \E p \in Person, h \in Household : DeclineOwnerRole(p, h)
  \/ \E p \in Person, h \in Household : StepDownFromOwner(p, h)
  \/ \E p, q \in Person, h \in Household : RemoveMember(p, q, h)
  \/ \E p \in Person, h \in Household : LeaveHousehold(p, h)
  \/ \E p \in Person, h \in Household, endsNow \in BOOLEAN : ConfirmDissolution(p, h, endsNow)
  \/ \E p \in Person, h \in Household : CancelDissolution(p, h)

Next ==
  \/ Founding \/ Inviting \/ Answering \/ Governing
  \/ \E c \in calls : Drop(c)
  \/ \E p \in Person : DeleteUser(p)
  \/ Tick

Spec == Init /\ [][Next]_vars

-----------------------------------------------------------------------------
\* Every variable keeps the shape its table or call has.
TypeOK ==
  /\ now \in Nat /\ accounts \subseteq Person
  /\ status \in [Household -> {"none", "active", "dissolved"}]
  /\ member \in [Household -> [Person -> Membership]]
  /\ confirmed \in [Household -> SUBSET Person]
  /\ invitation \in [Invitation -> InvitationRow \cup {None}]
  /\ calls \subseteq Call

\* A household with anyone in it has an owner in it, whoever leaves, steps down,
\* is removed or deletes their account at the same time (governance.ts: nobody
\* can invite into or end one that has none).  A dissolved one may still be joined,
\* by a link that was being sent while it ended.
Governed ==
  \A h \in Household :
    status[h] = "active" /\ ActiveMembers(h) # {} => ActiveOwners(h) # {}

\* What somebody holds in a household rests on their standing there now: a vote
\* to end it is that of an owner, an open offer of co-ownership is to a plain
\* member.  Neither outlives a step-down or a departure to count after a return.
NothingOutlivesStanding ==
  \A h \in Household, p \in Person :
    /\ p \in confirmed[h] => p \in ActiveOwners(h)
    /\ member[h][p].offered => Active(h, p) /\ member[h][p].role = "member"

\* Members and live links together never exceed the seats, though an owner's call
\* counts and revives links by a clock it read before it had the lock.
SeatsHold == \A h \in Household : Occupied(h, now) <= SeatLimit

\* An invitation that was answered, taken back or found lapsed stays so
\* (household-invitations.ts: no terminal state returns to pending).
TerminalStands ==
  [][\A i \in Invitation : Exists(i) /\ invitation[i].state # "pending" =>
       invitation'[i].state = invitation[i].state]_vars

Joins(h, p) == ~Active(h, p) /\ member'[h][p].status = "active"
Empty(h) == \A p \in Person : member[h][p] = Absent

\* Whoever comes into a household that has had members comes by a link that is
\* live at that instant, is addressed to them and is used up by it.
AdmittedByLiveLink ==
  [][\A h \in Household, p \in Person : Joins(h, p) /\ ~Empty(h) =>
       \E i \in Invitation :
         /\ Exists(i) /\ invitation[i].home = h /\ invitation[i].to = p
         /\ Live(invitation[i], now) /\ invitation'[i].state = "accepted"]_vars

\* Nobody governs a household they did not found unless they hold an offer that
\* they accept, those who governed it before they left included.
PromotedByConsent ==
  [][\A h \in Household, p \in Person :
       /\ Active(h, p)' /\ member'[h][p].role = "owner"
       /\ p \notin ActiveOwners(h) /\ ~Empty(h)
       => member[h][p].offered]_vars

Ends(h) == status[h] = "active" /\ status'[h] = "dissolved"

\* A household ends only when all who own it at that moment have confirmed, or
\* with the account of the only person in it; and no first confirmation by someone
\* told that it would change nothing yet ends it, however old their screen is.
EndedByItsOwners ==
  [][\A h \in Household : Ends(h) =>
       /\ \E p \in ActiveOwners(h) :
            ActiveOwners(h) \ {p} \subseteq confirmed[h] \/ ActiveMembers(h) = {p}
       /\ \A p \in Person : ConfirmDissolution(p, h, FALSE) => p \in confirmed[h]]_vars
=============================================================================
