--------------------- MODULE HouseholdGovernance_proof ---------------------
(***************************************************************************)
(* What HouseholdGovernance promises, proved for any people, households,   *)
(* links, seat limit and calls under way.                                  *)
(***************************************************************************)
EXTENDS HouseholdGovernance, FiniteSetTheorems, TLAPS

-----------------------------------------------------------------------------
(* The inductive invariant.                                                *)

OwnerKind == {"send", "resend", "cancel"}

\* What a call found before its lock and what of it still stands: the household
\* or the invitation it names is there, and its clock is not ahead.
CallFits(c) ==
  /\ c.at <= now
  /\ c.kind \in OwnerKind => c.home \in Household
  /\ c.kind \in {"accept", "decline"} => c.inv \in Invitation /\ Exists(c.inv)
  /\ c.kind = "accept" => invitation[c.inv].to = c.by

CallsFit == \A c \in calls : CallFits(c)

\* Nobody has ever been in the household, been asked into it or governed it.
Untouched(h) ==
  /\ Empty(h)
  /\ \A i \in Invitation : Exists(i) => invitation[i].home # h
  /\ \A c \in calls : c.kind \in OwnerKind => c.home # h

\* A household that was ever used has an owner for as long as it is active.
OwnedOnceUsed ==
  \A h \in Household :
    /\ status[h] = "none" => Untouched(h)
    /\ status[h] = "active" => Untouched(h) \/ ActiveOwners(h) # {}

\* A founder who has the workspace and not yet the membership is alone with it.
FoundersAlone ==
  \A c \in calls : c.kind = "found" =>
    /\ c.home \in Household /\ status[c.home] = "active" /\ Untouched(c.home)
    /\ \A d \in calls : d.kind = "found" /\ d.home = c.home => d = c

\* A pending row keeps its seat until its lapse is written down: that is what a
\* late resend may rely on when it brings the link back.
PendingIn(h) ==
  {i \in Invitation : /\ Exists(i) /\ invitation[i].home = h
                      /\ invitation[i].state = "pending"}
SeatsReserved ==
  \A h \in Household : Cardinality(ActiveMembers(h)) + Cardinality(PendingIn(h)) <= SeatLimit

VotesAreOwners == \A h \in Household : confirmed[h] \subseteq ActiveOwners(h)

OffersAreOpen ==
  \A h \in Household, p \in Person :
    member[h][p].offered => Active(h, p) /\ member[h][p].role = "member"

IInv ==
  /\ TypeOK /\ CallsFit /\ OwnedOnceUsed /\ FoundersAlone
  /\ VotesAreOwners /\ OffersAreOpen /\ SeatsReserved

-----------------------------------------------------------------------------
(* Rows of invitations.                                                    *)

LEMMA EndedRow ==
  ASSUME NEW row \in InvitationRow, NEW at \in Nat
  PROVE  /\ Ended(row, at) \in InvitationRow
         /\ Ended(row, at).home = row.home /\ Ended(row, at).to = row.to
         /\ Ended(row, at).state # "pending"
BY DEF Ended, InvitationRow, InvitationState

\* What every step but a send leaves of an invitation: it is there still, is the
\* same person's to the same household, and what is over stays as it ended.
RowKept(i) ==
  /\ invitation'[i] \in InvitationRow \cup {None}
  /\ Exists(i) <=> invitation'[i] # None
  /\ Exists(i) =>
       /\ invitation'[i].home = invitation[i].home /\ invitation'[i].to = invitation[i].to
       /\ invitation'[i].state = "pending" => invitation[i].state = "pending"
       /\ invitation[i].state # "pending" => invitation'[i].state = invitation[i].state

RowsKept ==
  /\ invitation' \in [Invitation -> InvitationRow \cup {None}]
  /\ \A i \in Invitation : RowKept(i)

LEMMA UnchangedRows == TypeOK /\ UNCHANGED invitation => RowsKept
BY DEF TypeOK, RowsKept, RowKept, Exists

LEMMA SettledRows ==
  ASSUME TypeOK, NEW h \in Household, NEW at \in Nat, NEW i \in Invitation
  PROVE  /\ Settled(h, at)[i] \in InvitationRow \cup {None}
         /\ Exists(i) <=> Settled(h, at)[i] # None
         /\ Exists(i) =>
              /\ Settled(h, at)[i].home = invitation[i].home
              /\ Settled(h, at)[i].to = invitation[i].to
              /\ Settled(h, at)[i].state = "pending" =>
                   /\ invitation[i].state = "pending"
                   /\ invitation[i].home = h => Live(invitation[i], at)
              /\ invitation[i].state # "pending" \/ Live(invitation[i], at) =>
                   Settled(h, at)[i] = invitation[i]
<1>1. Settled(h, at)[i] = SettledRow(invitation[i], h, at)
  BY DEF Settled
<1>2. invitation[i] \in InvitationRow \cup {None}
  BY DEF TypeOK
<1>3. CASE invitation[i] = None
  BY <1>1, <1>3, RowAssumption DEF SettledRow, Exists
<1>4. CASE invitation[i] # None
  <2>1. invitation[i] \in InvitationRow
    BY <1>2, <1>4
  <2>2. /\ Ended(invitation[i], at) \in InvitationRow
        /\ Ended(invitation[i], at).home = invitation[i].home
        /\ Ended(invitation[i], at).to = invitation[i].to
        /\ Ended(invitation[i], at).state # "pending"
    BY <2>1, EndedRow
  <2>. QED
    BY <1>1, <1>4, <2>1, <2>2, RowAssumption DEF SettledRow, Exists
<1>. QED
  BY <1>3, <1>4

LEMMA CanceledRows ==
  ASSUME TypeOK, NEW h \in Household, NEW senders, NEW at \in Nat,
         invitation' = CanceledOf(invitation, h, senders, at)
  PROVE  /\ RowsKept
         /\ \A i \in Invitation :
              Exists(i) /\ invitation[i].home = h /\ invitation[i].by \in senders =>
                invitation'[i].state # "pending"
<1>1. ASSUME NEW i \in Invitation
      PROVE  /\ RowKept(i)
             /\ Exists(i) /\ invitation[i].home = h /\ invitation[i].by \in senders =>
                  invitation'[i].state # "pending"
  <2>1. invitation'[i] = IF invitation[i] # None /\ invitation[i].home = h
                              /\ invitation[i].state = "pending"
                              /\ invitation[i].by \in senders
                         THEN Ended(invitation[i], at) ELSE invitation[i]
    BY DEF CanceledOf
  <2>2. invitation[i] \in InvitationRow \cup {None}
    BY DEF TypeOK
  <2>3. CASE invitation[i] = None
    BY <2>1, <2>2, <2>3 DEF RowKept, Exists
  <2>4. CASE invitation[i] # None
    <3>1. /\ Ended(invitation[i], at) \in InvitationRow
          /\ Ended(invitation[i], at).home = invitation[i].home
          /\ Ended(invitation[i], at).to = invitation[i].to
          /\ Ended(invitation[i], at).state # "pending"
      BY <2>2, <2>4, EndedRow
    <3>. QED
      BY <2>1, <2>2, <2>4, <3>1, RowAssumption DEF RowKept, Exists
  <2>. QED
    BY <2>3, <2>4
<1>2. invitation' = [i \in Invitation |-> invitation'[i]]
  BY DEF CanceledOf
<1>. QED
  BY <1>1, <1>2 DEF RowsKept, RowKept

-----------------------------------------------------------------------------
(* Each step's own change, spelled out for the rest of the proof.          *)

\* What stays of the rows, of the calls and of the clock under any step.
NewCallFits(c) == c \in Call /\ CallFits(c)'

LEMMA BeginStep ==
  ASSUME TypeOK, NEW kind \in CallKind, NEW p \in Person,
         NEW h \in Household \cup {None}, NEW i \in Invitation \cup {None},
         i # None => Exists(i)
  PROVE  NewCall(kind, p, h, i) \in Call
<1>1. i # None => invitation[i].secret \in Nat
  BY DEF TypeOK, Exists, InvitationRow
<1>. QED
  BY <1>1 DEF NewCall, Call, TypeOK

LEMMA MemberType ==
  ASSUME TypeOK, NEW h \in Household, NEW p \in Person
  PROVE  /\ member[h][p] \in Membership
         /\ Readmitted(member[h][p]) \in Membership
         /\ Removed(member[h][p]) \in Membership
         /\ [member[h][p] EXCEPT !.offered = TRUE] \in Membership
         /\ [member[h][p] EXCEPT !.offered = FALSE] \in Membership
         /\ [member[h][p] EXCEPT !.role = "owner", !.offered = FALSE] \in Membership
         /\ [member[h][p] EXCEPT !.role = "member"] \in Membership
         /\ Absent \in Membership
         /\ [status |-> "active", role |-> "owner", offered |-> FALSE] \in Membership
<1>1. member[h][p] \in Membership
  BY DEF TypeOK
<1>2. ASSUME NEW row \in Membership
      PROVE  /\ Readmitted(row) \in Membership /\ Removed(row) \in Membership
             /\ [row EXCEPT !.offered = TRUE] \in Membership
             /\ [row EXCEPT !.offered = FALSE] \in Membership
  BY DEF Membership, MemberStatus, Readmitted, Removed
<1>3. ASSUME NEW row \in Membership
      PROVE  /\ [row EXCEPT !.role = "owner", !.offered = FALSE] \in Membership
             /\ [row EXCEPT !.role = "member"] \in Membership
  BY DEF Membership, MemberStatus
<1>4. /\ Absent \in Membership
      /\ [status |-> "active", role |-> "owner", offered |-> FALSE] \in Membership
  BY DEF Membership, MemberStatus, Absent
<1>. QED
  BY <1>1, <1>2, <1>3, <1>4

\* One membership changes.
OneRow(h, p, row) ==
  /\ member' \in [Household -> [Person -> Membership]]
  /\ \A g \in Household, q \in Person :
       member'[g][q] = IF g = h /\ q = p THEN row ELSE member[g][q]

LEMMA OneRowStep ==
  ASSUME TypeOK, NEW h \in Household, NEW p \in Person, NEW row \in Membership,
         member' = [member EXCEPT ![h][p] = row]
  PROVE  OneRow(h, p, row)
BY DEF TypeOK, OneRow

LEMMA TypeFounding ==
  ASSUME TypeOK, FoundersAlone, Founding
  PROVE  TypeOK'
<1>1. ASSUME NEW p \in Person, CheckAdmission(p)
      PROVE  TypeOK'
  <2>1. NewCall("create", p, None, None) \in Call
    BY BeginStep DEF CallKind
  <2>. QED
    BY <1>1, <2>1 DEF CheckAdmission, Begin, TypeOK
<1>2. ASSUME NEW c \in calls, NEW h \in Household, InsertWorkspace(c, h)
      PROVE  TypeOK'
  <2>1. [c EXCEPT !.kind = "found", !.home = h] \in Call
    BY DEF TypeOK, Call, CallKind
  <2>. QED
    BY <1>2, <2>1 DEF InsertWorkspace, TypeOK
<1>3. ASSUME NEW c \in calls, InsertOwner(c)
      PROVE  TypeOK'
  <2>1. c.home \in Household /\ c.by \in Person
    BY <1>3 DEF InsertOwner, FoundersAlone, TypeOK, Call
  <2>2. OneRow(c.home, c.by, [status |-> "active", role |-> "owner", offered |-> FALSE])
    BY <1>3, <2>1, MemberType, OneRowStep DEF InsertOwner
  <2>. QED
    BY <1>3, <2>2 DEF InsertOwner, TypeOK, OneRow
<1>. QED
  BY <1>1, <1>2, <1>3 DEF Founding

\* A send: its own row is new, and the household's lapsed rows are written down.
LEMMA SendRows ==
  ASSUME TypeOK, CallsFit, NEW c \in calls, NEW i \in Invitation, NEW address \in Address,
         SendInvitation(c, i, address)
  PROVE  /\ invitation' \in [Invitation -> InvitationRow \cup {None}]
         /\ ~Exists(i) /\ invitation'[i] # None
         /\ invitation'[i].home = c.home /\ invitation'[i].state = "pending"
         /\ \A k \in Invitation \ {i} :
              /\ RowKept(k)
              /\ Exists(k) /\ invitation[k].home = c.home /\ invitation'[k].state = "pending" =>
                   Live(invitation[k], c.at)
         /\ c.home \in Household
<1>1. c \in Call /\ c.kind = "send" /\ CallFits(c) /\ ~Exists(i)
  BY DEF TypeOK, SendInvitation, CallsFit
<1>2. c.home \in Household /\ c.at \in Nat /\ c.by \in Person
  BY <1>1 DEF CallFits, OwnerKind, Call
<1>. DEFINE row == [home |-> c.home, by |-> c.by, to |-> address, state |-> "pending",
                    expires |-> c.at + Ttl, secret |-> 0]
<1>3. row \in InvitationRow
  BY <1>2, GovernanceAssumption DEF InvitationRow, InvitationState
<1>4. row # None
  BY <1>3, RowAssumption
<1>5. invitation' = [Settled(c.home, c.at) EXCEPT ![i] = row]
  BY DEF SendInvitation
<1>6. Settled(c.home, c.at) = [k \in Invitation |-> Settled(c.home, c.at)[k]]
  BY DEF Settled
<1>7. invitation' = [k \in Invitation |-> IF k = i THEN row ELSE Settled(c.home, c.at)[k]]
  BY <1>5, <1>6
<1>8. invitation'[i] = row /\ \A k \in Invitation \ {i} : invitation'[k] = Settled(c.home, c.at)[k]
  BY <1>7
<1>9. ASSUME NEW k \in Invitation \ {i}
      PROVE  /\ RowKept(k)
             /\ Exists(k) /\ invitation[k].home = c.home /\ invitation'[k].state = "pending" =>
                  Live(invitation[k], c.at)
  BY <1>2, <1>8, SettledRows DEF RowKept
<1>10. invitation' \in [Invitation -> InvitationRow \cup {None}]
  <2>. HIDE DEF row
  <2>1. \A k \in Invitation : invitation'[k] \in InvitationRow \cup {None}
    BY <1>3, <1>8, <1>9 DEF RowKept
  <2>. QED
    BY <1>7, <2>1
<1>. QED
  BY <1>1, <1>2, <1>4, <1>8, <1>9, <1>10

LEMMA ResendRows ==
  ASSUME TypeOK, CallsFit, NEW c \in calls, NEW i \in Invitation, ResendInvitation(c, i)
  PROVE  RowsKept
<1>1. c.at \in Nat /\ invitation[i] \in InvitationRow
  BY DEF TypeOK, Call, ResendInvitation, Governs, Exists
<1>. DEFINE row == [invitation[i] EXCEPT !.secret = @ + 1, !.expires = c.at + Ttl]
<1>2. c.at + Ttl \in Nat /\ invitation[i].secret + 1 \in Nat
  BY <1>1, GovernanceAssumption DEF InvitationRow
<1>3. /\ row \in InvitationRow /\ row.home = invitation[i].home
      /\ row.to = invitation[i].to /\ row.state = invitation[i].state
  BY <1>1, <1>2 DEF InvitationRow
<1>4. invitation' = [invitation EXCEPT ![i] = row]
  BY DEF ResendInvitation
<1>. HIDE DEF row
<1>5. \A k \in Invitation : invitation'[k] = IF k = i THEN row ELSE invitation[k]
  BY <1>4 DEF TypeOK
<1>6. \A k \in Invitation : RowKept(k)
  BY <1>1, <1>3, <1>5, RowAssumption DEF TypeOK, RowKept, Exists
<1>. QED
  BY <1>3, <1>4, <1>6 DEF RowsKept, TypeOK

\* A cancellation and a refusal: one live row gets its last state.
LEMMA AnsweredRows ==
  ASSUME TypeOK, NEW i \in Invitation, NEW last \in InvitationState \ {"pending"},
         Exists(i), invitation[i].state = "pending",
         invitation' = [invitation EXCEPT ![i].state = last]
  PROVE  RowsKept
<1>1. invitation[i] \in InvitationRow
  BY DEF TypeOK, Exists
<1>. DEFINE row == [invitation[i] EXCEPT !.state = last]
<1>2. /\ row \in InvitationRow /\ row.home = invitation[i].home
      /\ row.to = invitation[i].to /\ row.state = last
  BY <1>1 DEF InvitationRow
<1>3. invitation' = [invitation EXCEPT ![i] = row]
  OBVIOUS
<1>. HIDE DEF row
<1>4. \A k \in Invitation : invitation'[k] = IF k = i THEN row ELSE invitation[k]
  BY <1>3 DEF TypeOK
<1>5. \A k \in Invitation : RowKept(k)
  BY <1>1, <1>2, <1>4, RowAssumption DEF TypeOK, RowKept, Exists
<1>. QED
  BY <1>2, <1>3, <1>5 DEF RowsKept, TypeOK

\* An acceptance, by a clock read under the lock.
LEMMA AcceptRows ==
  ASSUME TypeOK, CallsFit, NEW c \in calls, AcceptInvitation(c)
  PROVE  /\ RowsKept
         /\ c.inv \in Invitation /\ Exists(c.inv) /\ c.by \in Person
         /\ invitation[c.inv].home \in Household /\ invitation[c.inv].to = c.by
         /\ Live(invitation[c.inv], now) /\ invitation'[c.inv].state = "accepted"
         /\ \A k \in Invitation :
              /\ Exists(k) /\ invitation[k].home = invitation[c.inv].home
              /\ invitation'[k].state = "pending"
              => Live(invitation[k], now) /\ k # c.inv
<1>. DEFINE h == invitation[c.inv].home
<1>1. c \in Call /\ c.kind = "accept" /\ CallFits(c) /\ now \in Nat
  BY DEF TypeOK, AcceptInvitation, CallsFit
<1>2. c.inv \in Invitation /\ Exists(c.inv) /\ c.by \in Person /\ invitation[c.inv].to = c.by
  BY <1>1 DEF CallFits, Call
<1>3. invitation[c.inv] \in InvitationRow
  BY <1>2 DEF TypeOK, Exists
<1>4. h \in Household /\ Live(invitation[c.inv], now) /\ invitation[c.inv].state = "pending"
  BY <1>3 DEF InvitationRow, AcceptInvitation, AcceptedAt, Live
<1>. DEFINE row == [Settled(h, now)[c.inv] EXCEPT !.state = "accepted"]
<1>5. invitation' = [Settled(h, now) EXCEPT ![c.inv] = row]
  BY DEF AcceptInvitation, AcceptedAt
<1>6. Settled(h, now)[c.inv] = invitation[c.inv]
  BY <1>1, <1>2, <1>4, SettledRows
<1>7. /\ row \in InvitationRow /\ row.home = h /\ row.to = invitation[c.inv].to
      /\ row.state = "accepted"
  BY <1>3, <1>6 DEF InvitationRow, InvitationState
<1>. HIDE DEF row
<1>8. Settled(h, now) = [k \in Invitation |-> Settled(h, now)[k]]
  BY DEF Settled
<1>9. invitation' = [k \in Invitation |-> IF k = c.inv THEN row ELSE Settled(h, now)[k]]
  BY <1>2, <1>5, <1>8
<1>10. invitation'[c.inv] = row /\ \A k \in Invitation \ {c.inv} : invitation'[k] = Settled(h, now)[k]
  BY <1>2, <1>9
<1>11. RowKept(c.inv)
  BY <1>2, <1>4, <1>7, <1>10, RowAssumption DEF RowKept, Exists
<1>12. ASSUME NEW k \in Invitation \ {c.inv}
       PROVE  /\ RowKept(k)
              /\ Exists(k) /\ invitation[k].home = h /\ invitation'[k].state = "pending" =>
                   Live(invitation[k], now)
  BY <1>1, <1>4, <1>10, SettledRows DEF RowKept
<1>13. \A k \in Invitation : RowKept(k)
  BY <1>11, <1>12
<1>14. invitation' \in [Invitation -> InvitationRow \cup {None}]
  <2>1. \A k \in Invitation : invitation'[k] \in InvitationRow \cup {None}
    BY <1>13 DEF RowKept
  <2>. QED
    BY <1>9, <2>1
<1>. QED
  BY <1>2, <1>4, <1>7, <1>10, <1>12, <1>13, <1>14 DEF RowsKept

-----------------------------------------------------------------------------
(* Steps fall into a few kinds, each with what the invariant needs of it.  *)

\* Nobody's standing moves: reads, drops, the clock, and the ends of links.
QuietStep ==
  /\ UNCHANGED <<status, member, confirmed>>
  /\ now' \in Nat /\ now <= now' /\ accounts' = accounts
  /\ RowsKept
  /\ \A c \in calls' \ calls :
       /\ NewCallFits(c) /\ c.kind # "found"
       /\ c.kind \in OwnerKind => ActiveOwners(c.home) # {}

LEMMA QuietReads ==
  ASSUME TypeOK, CallsFit,
         \/ \E p \in Person : CheckAdmission(p) \/ \E i \in Invitation : LoadForAccept(p, i)
         \/ \E p \in Person, i \in Invitation : LoadForDecline(p, i)
         \/ \E p \in Person, h \in Household, kind \in OwnerKind : RequireOwnedHousehold(p, h, kind)
  PROVE  QuietStep
<1>1. RowsKept /\ UNCHANGED <<status, member, confirmed, now, accounts, invitation>>
  BY UnchangedRows DEF CheckAdmission, LoadForAccept, LoadForDecline, RequireOwnedHousehold
<1>2. now \in Nat
  BY DEF TypeOK
<1>3. ASSUME NEW p \in Person, CheckAdmission(p), NEW c \in calls' \ calls
      PROVE  NewCallFits(c) /\ c.kind \notin OwnerKind \cup {"found"}
  <2>1. c = NewCall("create", p, None, None)
    BY <1>3 DEF CheckAdmission, Begin
  <2>2. c \in Call
    BY <2>1, BeginStep DEF CallKind
  <2>. QED
    BY <1>1, <1>2, <2>1, <2>2 DEF NewCall, NewCallFits, CallFits, OwnerKind
<1>4. ASSUME NEW p \in Person, NEW i \in Invitation, LoadForAccept(p, i), NEW c \in calls' \ calls
      PROVE  NewCallFits(c) /\ c.kind \notin OwnerKind \cup {"found"}
  <2>1. c = NewCall("accept", p, None, i) /\ Exists(i) /\ invitation[i].to = p
    BY <1>4 DEF LoadForAccept, Begin, Proven
  <2>2. c \in Call
    BY <2>1, BeginStep DEF CallKind
  <2>. QED
    BY <1>1, <1>2, <2>1, <2>2 DEF NewCall, NewCallFits, CallFits, OwnerKind, Exists
<1>5. ASSUME NEW p \in Person, NEW i \in Invitation, LoadForDecline(p, i), NEW c \in calls' \ calls
      PROVE  NewCallFits(c) /\ c.kind \notin OwnerKind \cup {"found"}
  <2>1. c = NewCall("decline", p, None, i) /\ Exists(i)
    BY <1>5 DEF LoadForDecline, Begin, Proven
  <2>2. c \in Call
    BY <2>1, BeginStep DEF CallKind
  <2>. QED
    BY <1>1, <1>2, <2>1, <2>2 DEF NewCall, NewCallFits, CallFits, OwnerKind, Exists
<1>6. ASSUME NEW p \in Person, NEW h \in Household, NEW kind \in OwnerKind,
             RequireOwnedHousehold(p, h, kind), NEW c \in calls' \ calls
      PROVE  NewCallFits(c) /\ c.kind # "found" /\ ActiveOwners(c.home) # {}
  <2>1. c = NewCall(kind, p, h, None) /\ p \in ActiveOwners(h)
    BY <1>6 DEF RequireOwnedHousehold, Begin
  <2>2. c \in Call
    BY <2>1, BeginStep DEF CallKind, OwnerKind
  <2>. QED
    BY <1>1, <1>2, <2>1, <2>2 DEF NewCall, NewCallFits, CallFits, OwnerKind, Exists
<1>7. \A c \in calls' \ calls :
        /\ NewCallFits(c) /\ c.kind # "found"
        /\ c.kind \in OwnerKind => ActiveOwners(c.home) # {}
  BY <1>3, <1>4, <1>5, <1>6
<1>. QED
  BY <1>1, <1>2, <1>7 DEF QuietStep

LEMMA QuietWrites ==
  ASSUME TypeOK, CallsFit,
         \/ \E c \in calls, i \in Invitation : ResendInvitation(c, i) \/ CancelInvitation(c, i)
         \/ \E c \in calls : DeclineInvitation(c) \/ Drop(c)
         \/ Tick \/ UNCHANGED vars
  PROVE  QuietStep
<1>1. now \in Nat /\ now + 1 \in Nat
  BY DEF TypeOK
<1>2. ASSUME NEW c \in calls, NEW i \in Invitation, ResendInvitation(c, i)
      PROVE  QuietStep
  <2>1. RowsKept
    BY <1>2, ResendRows
  <2>. QED
    BY <1>1, <1>2, <2>1 DEF ResendInvitation, QuietStep
<1>3. ASSUME NEW c \in calls, NEW i \in Invitation, CancelInvitation(c, i)
      PROVE  QuietStep
  <2>1. Exists(i) /\ invitation[i].state = "pending"
    BY <1>3 DEF CancelInvitation, Governs, Live
  <2>2. RowsKept
    BY <1>3, <2>1, AnsweredRows DEF CancelInvitation, InvitationState
  <2>. QED
    BY <1>1, <1>3, <2>2 DEF CancelInvitation, QuietStep
<1>4. ASSUME NEW c \in calls, DeclineInvitation(c)
      PROVE  QuietStep
  <2>1. c.inv \in Invitation /\ Exists(c.inv) /\ invitation[c.inv].state = "pending"
    BY <1>4 DEF DeclineInvitation, Live, CallsFit, CallFits
  <2>2. invitation' = [invitation EXCEPT ![c.inv].state = "declined"]
    BY <1>4 DEF DeclineInvitation
  <2>3. "declined" \in InvitationState \ {"pending"}
    BY DEF InvitationState
  <2>4. RowsKept
    BY ONLY TypeOK, <2>1, <2>2, <2>3, AnsweredRows
  <2>. QED
    BY <1>1, <1>4, <2>4 DEF DeclineInvitation, QuietStep
<1>5. ASSUME NEW c \in calls, Drop(c)
      PROVE  QuietStep
  BY <1>1, <1>5, UnchangedRows DEF Drop, QuietStep
<1>6. CASE Tick
  BY <1>1, <1>6, UnchangedRows DEF Tick, QuietStep
<1>7. CASE UNCHANGED vars
  BY <1>1, <1>7, UnchangedRows DEF vars, QuietStep
<1>. QED
  BY <1>2, <1>3, <1>4, <1>5, <1>6, <1>7

\* A step of governance: it moves one household, nobody comes into it, and what
\* had an owner has one afterwards or is over.
GovernStep(h) ==
  /\ UNCHANGED <<now, accounts, calls>> /\ RowsKept
  /\ status' \in [Household -> {"none", "active", "dissolved"}]
  /\ member' \in [Household -> [Person -> Membership]]
  /\ confirmed' \in [Household -> SUBSET Person]
  /\ \A g \in Household \ {h} :
       status'[g] = status[g] /\ member'[g] = member[g] /\ confirmed'[g] = confirmed[g]
  /\ status'[h] \in {status[h], "dissolved"}
  /\ ActiveMembers(h) # {} /\ ActiveMembers(h)' \subseteq ActiveMembers(h)
  /\ ActiveOwners(h) # {} => status'[h] = "dissolved" \/ ActiveOwners(h)' # {}
  /\ confirmed'[h] \subseteq ActiveOwners(h)'
  /\ \A q \in Person :
       member'[h][q].offered => /\ member'[h][q].status = "active"
                                /\ member'[h][q].role = "member"

LEMMA RosterStep ==
  ASSUME TypeOK, VotesAreOwners, OffersAreOpen,
         NEW h \in Household, NEW p \in Person, NEW row \in Membership,
         member' = [member EXCEPT ![h][p] = row],
         Active(h, p), row.status = "active",
         row.offered => row.role = "member",
         member[h][p].role = "owner" => row.role = "owner",
         UNCHANGED <<now, accounts, calls, status, confirmed, invitation>>
  PROVE  GovernStep(h)
<1>1. OneRow(h, p, row)
  BY OneRowStep
<1>2. \A q \in ActiveOwners(h) : q \in ActiveOwners(h)'
  BY <1>1 DEF ActiveOwners, ActiveMembers, Active, OneRow
<1>3. p \in ActiveMembers(h) /\ ActiveMembers(h)' \subseteq ActiveMembers(h)
  BY <1>1 DEF ActiveMembers, Active, OneRow
<1>4. \A q \in Person :
        member'[h][q].offered => /\ member'[h][q].status = "active"
                                 /\ member'[h][q].role = "member"
  BY <1>1 DEF OneRow, OffersAreOpen, Active
<1>5. \A g \in Household \ {h} : member'[g] = member[g]
  OBVIOUS
<1>6. RowsKept
  BY UnchangedRows
<1>7. confirmed'[h] \subseteq ActiveOwners(h)'
  BY <1>2 DEF VotesAreOwners
<1>8. status' \in [Household -> {"none", "active", "dissolved"}]
      /\ confirmed' \in [Household -> SUBSET Person]
  BY DEF TypeOK
<1>9. /\ status'[h] = status[h] /\ ActiveMembers(h) # {}
      /\ ActiveOwners(h) # {} => ActiveOwners(h)' # {}
  BY <1>2, <1>3
<1>. QED
  BY <1>1, <1>3, <1>4, <1>5, <1>6, <1>7, <1>8, <1>9 DEF GovernStep, OneRow

LEMMA OwnerRoleSteps ==
  ASSUME TypeOK, VotesAreOwners, OffersAreOpen, NEW p \in Person, NEW h \in Household,
         \/ \E q \in Person : OfferOwnerRole(p, q, h) \/ WithdrawOwnerOffer(p, q, h)
         \/ AcceptOwnerRole(p, h) \/ DeclineOwnerRole(p, h)
  PROVE  GovernStep(h)
<1>. USE DEF Answered, Kept, Active, ActiveMembers, ActiveOwners
<1>1. ASSUME NEW q \in Person, OfferOwnerRole(p, q, h)
      PROVE  GovernStep(h)
  <2>. DEFINE row == [member[h][q] EXCEPT !.offered = TRUE]
  <2>1. /\ member[h][q].status = "active" /\ member[h][q].role # "owner"
        /\ member' = [member EXCEPT ![h][q] = row]
        /\ UNCHANGED <<now, accounts, calls, status, confirmed, invitation>>
    BY <1>1 DEF OfferOwnerRole
  <2>2. /\ row \in Membership /\ member[h][q] \in Membership
        /\ row.status = member[h][q].status /\ row.role = member[h][q].role
    BY MemberType DEF Membership
  <2>3. row.role = "member"
    BY <2>1, <2>2 DEF Membership
  <2>. HIDE DEF row
  <2>. QED
    BY <2>1, <2>2, <2>3, RosterStep
<1>2. ASSUME NEW q \in Person, Active(h, q),
             Answered(h, q, [member[h][q] EXCEPT !.offered = FALSE])
      PROVE  GovernStep(h)
  <2>. DEFINE row == [member[h][q] EXCEPT !.offered = FALSE]
  <2>1. /\ member[h][q].status = "active"
        /\ member' = [member EXCEPT ![h][q] = row]
        /\ UNCHANGED <<now, accounts, calls, status, confirmed, invitation>>
    BY <1>2
  <2>2. /\ row \in Membership /\ row.status = member[h][q].status
        /\ row.role = member[h][q].role /\ ~row.offered
    BY MemberType DEF Membership
  <2>. HIDE DEF row
  <2>. QED
    BY <2>1, <2>2, RosterStep
<1>3. CASE AcceptOwnerRole(p, h)
  <2>. DEFINE row == [member[h][p] EXCEPT !.role = "owner", !.offered = FALSE]
  <2>1. /\ member[h][p].status = "active"
        /\ member' = [member EXCEPT ![h][p] = row]
        /\ UNCHANGED <<now, accounts, calls, status, confirmed, invitation>>
    BY <1>3 DEF AcceptOwnerRole
  <2>2. /\ row \in Membership /\ row.status = member[h][p].status
        /\ row.role = "owner" /\ ~row.offered
    BY MemberType DEF Membership
  <2>. HIDE DEF row
  <2>. QED
    BY <2>1, <2>2, RosterStep
<1>4. CASE DeclineOwnerRole(p, h)
  BY <1>2, <1>4 DEF DeclineOwnerRole
<1>5. ASSUME NEW q \in Person, WithdrawOwnerOffer(p, q, h)
      PROVE  GovernStep(h)
  BY <1>2, <1>5 DEF WithdrawOwnerOffer
<1>. QED
  BY <1>1, <1>3, <1>4, <1>5

LEMMA VotesType ==
  ASSUME TypeOK, NEW h \in Household, NEW votes \in SUBSET Person,
         confirmed' = [confirmed EXCEPT ![h] = votes]
  PROVE  /\ confirmed' \in [Household -> SUBSET Person] /\ confirmed'[h] = votes
         /\ \A g \in Household \ {h} : confirmed'[g] = confirmed[g]
BY DEF TypeOK

LEMMA StepDownStep ==
  ASSUME TypeOK, VotesAreOwners, OffersAreOpen, NEW p \in Person, NEW h \in Household,
         StepDownFromOwner(p, h)
  PROVE  GovernStep(h)
<1>. DEFINE row == [member[h][p] EXCEPT !.role = "member"]
<1>1. /\ p \in ActiveOwners(h) /\ ActiveOwners(h) # {p}
      /\ member' = [member EXCEPT ![h][p] = row]
      /\ confirmed' = [confirmed EXCEPT ![h] = @ \ {p}]
      /\ UNCHANGED <<now, accounts, calls, status, invitation>>
  BY DEF StepDownFromOwner, IsLastActiveOwner, VotesWithout, Kept
<1>2. member[h][p].status = "active" /\ member[h][p].role = "owner"
  BY <1>1 DEF ActiveOwners, ActiveMembers, Active
<1>3. /\ row \in Membership /\ row.status = "active" /\ row.role = "member"
      /\ row.offered = member[h][p].offered
  BY <1>2, MemberType DEF Membership
<1>. HIDE DEF row
<1>4. OneRow(h, p, row)
  BY <1>1, <1>3, OneRowStep
<1>5. ActiveOwners(h)' = ActiveOwners(h) \ {p}
  BY <1>3, <1>4 DEF ActiveOwners, ActiveMembers, Active, OneRow
<1>6. /\ confirmed' \in [Household -> SUBSET Person] /\ confirmed'[h] = confirmed[h] \ {p}
      /\ \A g \in Household \ {h} : confirmed'[g] = confirmed[g]
  BY <1>1, VotesType DEF TypeOK
<1>7. confirmed'[h] \subseteq ActiveOwners(h)' /\ ActiveOwners(h)' # {}
  BY <1>1, <1>5, <1>6 DEF VotesAreOwners
<1>8. ActiveMembers(h)' \subseteq ActiveMembers(h) /\ p \in ActiveMembers(h)
  BY <1>2, <1>3, <1>4 DEF ActiveMembers, Active, OneRow
<1>9. \A q \in Person :
        member'[h][q].offered => /\ member'[h][q].status = "active"
                                 /\ member'[h][q].role = "member"
  BY <1>3, <1>4 DEF OneRow, OffersAreOpen, Active
<1>10. status' \in [Household -> {"none", "active", "dissolved"}] /\ status'[h] = status[h]
       /\ RowsKept
  BY <1>1, UnchangedRows DEF TypeOK
<1>11. \A g \in Household \ {h} : status'[g] = status[g] /\ member'[g] = member[g]
  BY <1>1
<1>. QED
  BY <1>1, <1>4, <1>6, <1>7, <1>8, <1>9, <1>10, <1>11 DEF GovernStep, OneRow

LEMMA EndMembershipStep ==
  ASSUME TypeOK, VotesAreOwners, OffersAreOpen, NEW p \in Person, NEW h \in Household,
         Active(h, p), ActiveOwners(h) # {p}, EndMembership(h, p)
  PROVE  GovernStep(h)
<1>. DEFINE row == Removed(member[h][p])
<1>1. /\ member' = [member EXCEPT ![h][p] = row]
      /\ confirmed' = [confirmed EXCEPT ![h] = @ \ {p}]
      /\ invitation' = CanceledOf(invitation, h, {p}, now)
      /\ UNCHANGED <<now, accounts, calls, status>>
  BY DEF EndMembership, VotesWithout, Kept
<1>2. /\ row \in Membership /\ row.status = "removed" /\ ~row.offered
  BY MemberType DEF Membership, Removed
<1>. HIDE DEF row
<1>3. OneRow(h, p, row)
  BY <1>1, <1>2, OneRowStep
<1>4. ActiveOwners(h)' = ActiveOwners(h) \ {p}
  BY <1>2, <1>3 DEF ActiveOwners, ActiveMembers, Active, OneRow
<1>5. /\ confirmed' \in [Household -> SUBSET Person] /\ confirmed'[h] = confirmed[h] \ {p}
      /\ \A g \in Household \ {h} : confirmed'[g] = confirmed[g]
  BY <1>1, VotesType DEF TypeOK
<1>6. confirmed'[h] \subseteq ActiveOwners(h)'
  BY <1>4, <1>5 DEF VotesAreOwners
<1>7. ActiveOwners(h) # {} => ActiveOwners(h)' # {}
  BY <1>4
<1>8. ActiveMembers(h)' \subseteq ActiveMembers(h) /\ p \in ActiveMembers(h)
  BY <1>2, <1>3 DEF ActiveMembers, Active, OneRow
<1>9. \A q \in Person :
        member'[h][q].offered => /\ member'[h][q].status = "active"
                                 /\ member'[h][q].role = "member"
  BY <1>2, <1>3 DEF OneRow, OffersAreOpen, Active
<1>10. status' \in [Household -> {"none", "active", "dissolved"}] /\ status'[h] = status[h]
       /\ RowsKept
  BY <1>1, CanceledRows DEF TypeOK
<1>11. \A g \in Household \ {h} : status'[g] = status[g] /\ member'[g] = member[g]
  BY <1>1
<1>. QED
  BY <1>1, <1>3, <1>5, <1>6, <1>7, <1>8, <1>9, <1>10, <1>11 DEF GovernStep, OneRow

LEMMA DissolutionStep ==
  ASSUME TypeOK, VotesAreOwners, OffersAreOpen, NEW p \in Person, NEW h \in Household,
         NEW endsNow \in BOOLEAN, ConfirmDissolution(p, h, endsNow)
  PROVE  GovernStep(h)
<1>. DEFINE votes == confirmed[h] \cup {p}
<1>1. /\ p \in ActiveOwners(h) /\ UNCHANGED <<now, accounts, calls>>
      /\ votes \in SUBSET Person /\ votes \subseteq ActiveOwners(h)
  BY DEF ConfirmDissolution, Kept, VotesAreOwners, TypeOK
<1>2. ActiveMembers(h) # {}
  BY <1>1 DEF ActiveOwners
<1>3. CASE Unanimous(h, votes)
  <2>1. /\ status' = [status EXCEPT ![h] = "dissolved"]
        /\ confirmed' = [confirmed EXCEPT ![h] = {}]
        /\ member' = [member EXCEPT ![h] =
              [q \in Person |-> IF Active(h, q) THEN Removed(@[q]) ELSE @[q]]]
        /\ invitation' = CanceledOf(invitation, h, Anyone, now)
    BY <1>3 DEF ConfirmDissolution, Dissolve
  <2>2. \A g \in Household, q \in Person :
          member'[g][q] = IF g = h /\ Active(h, q) THEN Removed(member[g][q]) ELSE member[g][q]
    BY <2>1 DEF TypeOK
  <2>3. member' \in [Household -> [Person -> Membership]]
    BY <2>1, MemberType DEF TypeOK
  <2>4. \A q \in Person : member'[h][q].status # "active" /\ ~member'[h][q].offered
    <3>1. ASSUME NEW q \in Person PROVE member'[h][q].status # "active" /\ ~member'[h][q].offered
      <4>1. CASE Active(h, q)
        <5>1. Removed(member[h][q]).status = "removed" /\ ~Removed(member[h][q]).offered
          BY MemberType DEF Removed, Membership
        <5>. QED
          BY <2>2, <4>1, <5>1
      <4>2. CASE ~Active(h, q)
        BY <2>2, <4>2 DEF OffersAreOpen, Active
      <4>. QED
        BY <4>1, <4>2
    <3>. QED
      BY <3>1
  <2>5. ActiveMembers(h)' = {}
    BY <2>4 DEF ActiveMembers, Active
  <2>6. /\ confirmed' \in [Household -> SUBSET Person] /\ confirmed'[h] = {}
        /\ \A g \in Household \ {h} : confirmed'[g] = confirmed[g]
    BY <2>1, VotesType
  <2>7. RowsKept
    BY <2>1, CanceledRows DEF TypeOK
  <2>8. /\ status' \in [Household -> {"none", "active", "dissolved"}] /\ status'[h] = "dissolved"
        /\ \A g \in Household \ {h} : status'[g] = status[g] /\ member'[g] = member[g]
    BY <2>1 DEF TypeOK
  <2>. QED
    BY <1>1, <1>2, <2>3, <2>4, <2>5, <2>6, <2>7, <2>8 DEF GovernStep
<1>4. CASE ~Unanimous(h, votes)
  <2>1. confirmed' = [confirmed EXCEPT ![h] = votes] /\ UNCHANGED <<status, member, invitation>>
    BY <1>4 DEF ConfirmDissolution
  <2>2. /\ confirmed' \in [Household -> SUBSET Person] /\ confirmed'[h] = votes
        /\ \A g \in Household \ {h} : confirmed'[g] = confirmed[g]
    BY <1>1, <2>1, VotesType
  <2>3. ActiveMembers(h)' = ActiveMembers(h) /\ ActiveOwners(h)' = ActiveOwners(h)
    BY <2>1 DEF ActiveMembers, ActiveOwners, Active
  <2>4. \A q \in Person :
          member'[h][q].offered => /\ member'[h][q].status = "active"
                                   /\ member'[h][q].role = "member"
    BY <2>1 DEF OffersAreOpen, Active
  <2>5. RowsKept /\ status' \in [Household -> {"none", "active", "dissolved"}]
        /\ member' \in [Household -> [Person -> Membership]]
    BY <2>1, UnchangedRows DEF TypeOK
  <2>. QED
    BY <1>1, <1>2, <2>1, <2>2, <2>3, <2>4, <2>5 DEF GovernStep
<1>. QED
  BY <1>3, <1>4

LEMMA CalledOffStep ==
  ASSUME TypeOK, VotesAreOwners, OffersAreOpen, NEW p \in Person, NEW h \in Household,
         CancelDissolution(p, h)
  PROVE  GovernStep(h)
<1>1. /\ p \in ActiveOwners(h) /\ confirmed' = [confirmed EXCEPT ![h] = {}]
      /\ UNCHANGED <<now, accounts, calls, status, member, invitation>>
  BY DEF CancelDissolution, Kept
<1>2. /\ confirmed' \in [Household -> SUBSET Person] /\ confirmed'[h] = {}
      /\ \A g \in Household \ {h} : confirmed'[g] = confirmed[g]
  BY <1>1, VotesType
<1>3. ActiveMembers(h)' = ActiveMembers(h) /\ ActiveOwners(h)' = ActiveOwners(h)
      /\ ActiveMembers(h) # {}
  BY <1>1 DEF ActiveMembers, ActiveOwners, Active
<1>4. \A q \in Person :
        member'[h][q].offered => /\ member'[h][q].status = "active"
                                 /\ member'[h][q].role = "member"
  BY <1>1 DEF OffersAreOpen, Active
<1>5. RowsKept /\ status' \in [Household -> {"none", "active", "dissolved"}]
      /\ member' \in [Household -> [Person -> Membership]]
  BY <1>1, UnchangedRows DEF TypeOK
<1>. QED
  BY <1>1, <1>2, <1>3, <1>4, <1>5 DEF GovernStep

LEMMA GoverningSteps ==
  ASSUME TypeOK, VotesAreOwners, OffersAreOpen, Governing
  PROVE  \E h \in Household : GovernStep(h)
<1>1. ASSUME NEW p \in Person, NEW q \in Person, NEW h \in Household, RemoveMember(p, q, h)
      PROVE  GovernStep(h)
  <2>1. Active(h, q) /\ ActiveOwners(h) # {q} /\ EndMembership(h, q)
    BY <1>1 DEF RemoveMember, ActiveMembers
  <2>. QED
    BY <2>1, EndMembershipStep
<1>2. ASSUME NEW p \in Person, NEW h \in Household, LeaveHousehold(p, h)
      PROVE  GovernStep(h)
  BY <1>2, EndMembershipStep DEF LeaveHousehold, MayLeave, IsLastActiveOwner
<1>. QED
  BY <1>1, <1>2, OwnerRoleSteps, StepDownStep, DissolutionStep, CalledOffStep DEF Governing

-----------------------------------------------------------------------------
(* Steps that bring nobody and no link in keep the invariant.              *)

NewCallsFit ==
  \A c \in calls' \ calls :
    /\ NewCallFits(c) /\ c.kind # "found"
    /\ c.kind \in OwnerKind => ActiveOwners(c.home) # {}

ShrinkStep ==
  /\ TypeOK' /\ VotesAreOwners' /\ OffersAreOpen'
  /\ now <= now' /\ RowsKept /\ NewCallsFit
  /\ \A h \in Household :
       /\ ActiveMembers(h)' \subseteq ActiveMembers(h)
       /\ Empty(h) => Empty(h)' /\ status'[h] = status[h]
       /\ status'[h] \in {status[h], "dissolved"}
       /\ status'[h] = "active" /\ ActiveOwners(h) # {} => ActiveOwners(h)' # {}

LEMMA QuietShrinks ==
  ASSUME TypeOK, VotesAreOwners, OffersAreOpen, QuietStep
  PROVE  ShrinkStep
<1>1. \A h \in Household :
        ActiveMembers(h)' = ActiveMembers(h) /\ ActiveOwners(h)' = ActiveOwners(h)
        /\ (Empty(h) => Empty(h)')
  BY DEF QuietStep, ActiveMembers, ActiveOwners, Active, Empty
<1>2. TypeOK'
  <2>1. calls' \subseteq Call
    BY DEF QuietStep, NewCallFits, TypeOK
  <2>. QED
    BY <2>1 DEF QuietStep, TypeOK, RowsKept
<1>3. VotesAreOwners' /\ OffersAreOpen'
  BY <1>1 DEF QuietStep, VotesAreOwners, OffersAreOpen, Active
<1>. QED
  BY <1>1, <1>2, <1>3 DEF QuietStep, ShrinkStep, NewCallsFit

LEMMA GovernShrinks ==
  ASSUME TypeOK, VotesAreOwners, OffersAreOpen, NEW h \in Household, GovernStep(h)
  PROVE  ShrinkStep
<1>1. \A g \in Household \ {h} :
        ActiveMembers(g)' = ActiveMembers(g) /\ ActiveOwners(g)' = ActiveOwners(g)
        /\ (Empty(g) => Empty(g)')
  BY DEF GovernStep, ActiveMembers, ActiveOwners, Active, Empty
<1>2. ~Empty(h)
  BY DEF GovernStep, ActiveMembers, Active, Empty, Absent
<1>3. TypeOK'
  BY DEF GovernStep, TypeOK, RowsKept
<1>4. VotesAreOwners'
  BY <1>1 DEF GovernStep, VotesAreOwners
<1>5. OffersAreOpen'
  BY DEF GovernStep, OffersAreOpen, Active
<1>6. now <= now' /\ NewCallsFit /\ RowsKept
  BY DEF GovernStep, NewCallsFit, TypeOK
<1>7. /\ ActiveMembers(h)' \subseteq ActiveMembers(h)
      /\ status'[h] \in {status[h], "dissolved"}
      /\ status'[h] = "active" /\ ActiveOwners(h) # {} => ActiveOwners(h)' # {}
  BY DEF GovernStep
<1>8. \A g \in Household \ {h} : status'[g] = status[g]
  BY DEF GovernStep
<1>. QED
  BY <1>1, <1>2, <1>3, <1>4, <1>5, <1>6, <1>7, <1>8 DEF ShrinkStep

LEMMA DeleteRows ==
  ASSUME TypeOK, NEW p \in Person, DeleteUser(p)
  PROVE  RowsKept
<1>. DEFINE sole == {h \in Homes(p) : ActiveMembers(h) = {p}}
            ended(i) == IF Exists(i) /\ invitation[i].home \in sole
                              /\ invitation[i].state = "pending"
                        THEN Ended(invitation[i], now) ELSE invitation[i]
<1>1. invitation' = [i \in Invitation |-> NullSender(ended(i), p)]
  BY DEF DeleteUser
<1>2. ASSUME NEW i \in Invitation
      PROVE  RowKept(i)
  <2>1. invitation'[i] = NullSender(ended(i), p)
    BY <1>1
  <2>2. CASE ~Exists(i)
    BY <2>1, <2>2 DEF NullSender, RowKept, Exists
  <2>3. CASE Exists(i)
    <3>1. invitation[i] \in InvitationRow /\ now \in Nat
      BY <2>3 DEF TypeOK, Exists
    <3>2. /\ ended(i) \in InvitationRow
          /\ ended(i).home = invitation[i].home /\ ended(i).to = invitation[i].to
          /\ ended(i).state = "pending" => invitation[i].state = "pending"
          /\ invitation[i].state # "pending" => ended(i).state = invitation[i].state
      BY <3>1, EndedRow
    <3>. HIDE DEF ended
    <3>3. /\ NullSender(ended(i), p) \in InvitationRow
          /\ NullSender(ended(i), p).home = ended(i).home
          /\ NullSender(ended(i), p).to = ended(i).to
          /\ NullSender(ended(i), p).state = ended(i).state
      BY <3>2 DEF NullSender, InvitationRow
    <3>. QED
      BY <2>1, <2>3, <3>2, <3>3, RowAssumption DEF RowKept, Exists
  <2>. QED
    BY <2>2, <2>3
<1>3. invitation' = [i \in Invitation |-> invitation'[i]]
  BY <1>1
<1>. QED
  BY <1>2, <1>3 DEF RowsKept, RowKept

\* The trigger: no household loses its last owner to a deleted account, and one
\* that loses its last member with it is dissolved.
LEMMA DeleteShrinks ==
  ASSUME TypeOK, VotesAreOwners, OffersAreOpen, NEW p \in Person, DeleteUser(p)
  PROVE  ShrinkStep
<1>. DEFINE sole == {h \in Homes(p) : ActiveMembers(h) = {p}}
<1>1. /\ status' = [h \in Household |-> IF h \in sole THEN "dissolved" ELSE status[h]]
      /\ member' = [h \in Household |-> [member[h] EXCEPT ![p] = Absent]]
      /\ confirmed' = [h \in Household |-> IF h \in sole THEN {} ELSE confirmed[h] \ {p}]
      /\ accounts' = accounts \ {p} /\ UNCHANGED <<now, calls>>
      /\ \A h \in Homes(p) : ~LeavesUngoverned(h, p)
  BY DEF DeleteUser
<1>2. \A h \in Household, q \in Person :
        member'[h][q] = IF q = p THEN Absent ELSE member[h][q]
  BY <1>1 DEF TypeOK
<1>3. TypeOK'
  <2>1. member' \in [Household -> [Person -> Membership]]
    BY <1>1, MemberType DEF TypeOK
  <2>2. /\ status' \in [Household -> {"none", "active", "dissolved"}]
        /\ confirmed' \in [Household -> SUBSET Person]
    BY <1>1 DEF TypeOK
  <2>. QED
    BY <1>1, <2>1, <2>2, DeleteRows DEF TypeOK, RowsKept
<1>4. \A h \in Household :
        /\ ActiveMembers(h)' = ActiveMembers(h) \ {p}
        /\ ActiveOwners(h)' = ActiveOwners(h) \ {p}
        /\ Empty(h) => Empty(h)'
  BY <1>2 DEF ActiveMembers, ActiveOwners, Active, Empty, Absent
<1>5. VotesAreOwners'
  BY <1>1, <1>4 DEF VotesAreOwners
<1>6. OffersAreOpen'
  BY <1>2 DEF OffersAreOpen, Active, Absent
<1>7. ASSUME NEW h \in Household
      PROVE  /\ Empty(h) => status'[h] = status[h]
             /\ status'[h] \in {status[h], "dissolved"}
             /\ status'[h] = "active" /\ ActiveOwners(h) # {} => ActiveOwners(h)' # {}
  <2>1. Empty(h) => h \notin Homes(p)
    BY DEF Empty, Homes, Active, Absent
  <2>2. ASSUME status'[h] = "active", ActiveOwners(h) = {p}
        PROVE  FALSE
    <3>1. h \in Homes(p)
      BY <2>2 DEF ActiveOwners, ActiveMembers, Homes
    <3>2. ActiveMembers(h) # {p}
      BY <1>1, <2>2, <3>1
    <3>. QED
      BY <1>1, <2>2, <3>1, <3>2 DEF LeavesUngoverned, IsLastActiveOwner
  <2>. QED
    BY <1>1, <1>4, <2>1, <2>2
<1>8. now <= now' /\ NewCallsFit
  BY <1>1 DEF NewCallsFit, TypeOK
<1>. QED
  BY <1>3, <1>4, <1>5, <1>6, <1>7, <1>8, DeleteRows DEF ShrinkStep

\* What a call found stands as long as no row changes hands.
LEMMA CallsStay ==
  ASSUME TypeOK, CallsFit, now <= now', now' \in Nat,
         \A i \in Invitation : Exists(i) =>
           invitation'[i] # None /\ invitation'[i].to = invitation[i].to,
         \A c \in calls' \ calls : CallFits(c)'
  PROVE  CallsFit'
<1>1. ASSUME NEW c \in calls
      PROVE  CallFits(c)'
  <2>1. CallFits(c) /\ c.at \in Nat /\ now \in Nat
    BY DEF CallsFit, TypeOK, Call
  <2>. QED
    BY <2>1 DEF CallFits, Exists
<1>. QED
  BY <1>1 DEF CallsFit

\* A household nobody used is still unused when no row, link or call came to it.
LEMMA UntouchedStays ==
  ASSUME NEW h \in Household, Untouched(h), Empty(h)',
         \A i \in Invitation : Exists(i)' =>
           Exists(i) /\ invitation'[i].home = invitation[i].home,
         \A c \in calls' \ calls : c.kind \in OwnerKind => c.home # h
  PROVE  Untouched(h)'
BY DEF Untouched

LEMMA FiniteSeats ==
  ASSUME NEW h
  PROVE  /\ IsFiniteSet(ActiveMembers(h)) /\ Cardinality(ActiveMembers(h)) \in Nat
         /\ IsFiniteSet(PendingIn(h)) /\ Cardinality(PendingIn(h)) \in Nat
<1>1. ActiveMembers(h) \subseteq Person /\ PendingIn(h) \subseteq Invitation
  BY DEF ActiveMembers, PendingIn
<1>. QED
  BY <1>1, FS_Subset, FS_CardinalityType, GovernanceAssumption

LEMMA FiniteSeatsNext ==
  ASSUME NEW h
  PROVE  /\ IsFiniteSet(ActiveMembers(h)') /\ Cardinality(ActiveMembers(h)') \in Nat
         /\ IsFiniteSet(PendingIn(h)') /\ Cardinality(PendingIn(h)') \in Nat
<1>1. ActiveMembers(h)' \subseteq Person /\ PendingIn(h)' \subseteq Invitation
  BY DEF ActiveMembers, PendingIn
<1>. QED
  BY <1>1, FS_Subset, FS_CardinalityType, GovernanceAssumption

LEMMA FewerSeats ==
  ASSUME SeatsReserved, NEW h \in Household,
         ActiveMembers(h)' \subseteq ActiveMembers(h), PendingIn(h)' \subseteq PendingIn(h)
  PROVE  Cardinality(ActiveMembers(h)') + Cardinality(PendingIn(h)') <= SeatLimit
<1>1. Cardinality(ActiveMembers(h)') <= Cardinality(ActiveMembers(h))
  BY FiniteSeats, FS_Subset
<1>2. Cardinality(PendingIn(h)') <= Cardinality(PendingIn(h))
  BY FiniteSeats, FS_Subset
<1>3. Cardinality(ActiveMembers(h)) + Cardinality(PendingIn(h)) <= SeatLimit
  BY DEF SeatsReserved
<1>. QED
  BY <1>1, <1>2, <1>3, FiniteSeats, FiniteSeatsNext, GovernanceAssumption

LEMMA PendingKept ==
  ASSUME NEW h \in Household, RowsKept
  PROVE  PendingIn(h)' \subseteq PendingIn(h)
BY DEF PendingIn, RowsKept, RowKept, Exists

LEMMA ShrinkKeeps ==
  ASSUME IInv, ShrinkStep
  PROVE  IInv'
<1>. USE DEF IInv
<1>1. now <= now' /\ now' \in Nat /\ RowsKept /\ NewCallsFit
  BY DEF ShrinkStep, TypeOK
<1>2. \A i \in Invitation : RowKept(i)
  BY <1>1 DEF RowsKept
<1>3. CallsFit'
  BY <1>1, <1>2, CallsStay DEF RowKept, NewCallsFit, NewCallFits, Exists
<1>4. ASSUME NEW h \in Household, Untouched(h)
      PROVE  Untouched(h)' /\ status'[h] = status[h]
  <2>1. Empty(h)' /\ status'[h] = status[h]
    BY <1>4 DEF ShrinkStep, Untouched
  <2>2. ActiveOwners(h) = {}
    BY <1>4 DEF Untouched, Empty, ActiveOwners, ActiveMembers, Active, Absent
  <2>3. \A c \in calls' \ calls : c.kind \in OwnerKind => c.home # h
    BY <1>1, <2>2 DEF NewCallsFit
  <2>4. \A i \in Invitation : Exists(i)' =>
          Exists(i) /\ invitation'[i].home = invitation[i].home
    BY <1>2 DEF RowKept, Exists
  <2>. QED
    BY <1>4, <2>1, <2>3, <2>4, UntouchedStays
<1>5. OwnedOnceUsed'
  <2>1. ASSUME NEW h \in Household
        PROVE  /\ status'[h] = "none" => Untouched(h)'
               /\ status'[h] = "active" => Untouched(h)' \/ ActiveOwners(h)' # {}
    <3>1. CASE Untouched(h)
      BY <1>4, <3>1
    <3>2. CASE ~Untouched(h)
      <4>1. status'[h] \in {status[h], "dissolved"} /\ status[h] # "none"
            /\ (status[h] = "active" => ActiveOwners(h) # {})
        BY <3>2 DEF OwnedOnceUsed, ShrinkStep
      <4>. QED
        BY <4>1 DEF ShrinkStep
    <3>. QED
      BY <3>1, <3>2
  <2>. QED
    BY <2>1 DEF OwnedOnceUsed
<1>6. FoundersAlone'
  <2>1. \A c \in calls' : c.kind = "found" => c \in calls
    BY <1>1 DEF NewCallsFit
  <2>2. ASSUME NEW c \in calls', c.kind = "found"
        PROVE  /\ c.home \in Household /\ status'[c.home] = "active" /\ Untouched(c.home)'
               /\ \A d \in calls' : d.kind = "found" /\ d.home = c.home => d = c
    <3>1. c \in calls /\ c.home \in Household /\ status[c.home] = "active" /\ Untouched(c.home)
      BY <2>1, <2>2 DEF FoundersAlone
    <3>2. status'[c.home] = "active" /\ Untouched(c.home)'
      BY <1>4, <3>1
    <3>3. \A d \in calls : d.kind = "found" /\ d.home = c.home => d = c
      BY <2>2, <3>1 DEF FoundersAlone
    <3>. QED
      BY <2>1, <3>1, <3>2, <3>3
  <2>. QED
    BY <2>2 DEF FoundersAlone
<1>7. SeatsReserved'
  <2>1. ASSUME NEW h \in Household
        PROVE  Cardinality(ActiveMembers(h)') + Cardinality(PendingIn(h)') <= SeatLimit
    BY <1>1, FewerSeats, PendingKept DEF ShrinkStep
  <2>. QED
    BY <2>1 DEF SeatsReserved
<1>. QED
  BY <1>3, <1>5, <1>6, <1>7 DEF ShrinkStep

-----------------------------------------------------------------------------
(* A link is sent, a workspace founded, somebody comes in.                 *)

LEMMA SendKeeps ==
  ASSUME IInv, NEW c \in calls, NEW i \in Invitation, NEW address \in Address,
         SendInvitation(c, i, address)
  PROVE  IInv'
<1>. USE DEF IInv
<1>1. /\ invitation' \in [Invitation -> InvitationRow \cup {None}]
      /\ ~Exists(i) /\ invitation'[i] # None
      /\ invitation'[i].home = c.home /\ invitation'[i].state = "pending"
      /\ \A k \in Invitation \ {i} :
           /\ RowKept(k)
           /\ Exists(k) /\ invitation[k].home = c.home /\ invitation'[k].state = "pending" =>
                Live(invitation[k], c.at)
      /\ c.home \in Household
  BY SendRows
<1>2. /\ UNCHANGED <<now, accounts, status, member, confirmed>> /\ calls' = calls \ {c}
      /\ c.kind = "send" /\ c.at \in Nat /\ now \in Nat /\ SeatAvailable(c.home, c.at)
  BY DEF SendInvitation, TypeOK, Call
<1>3. TypeOK'
  BY <1>1, <1>2 DEF TypeOK
<1>4. VotesAreOwners' /\ OffersAreOpen'
  BY <1>2 DEF VotesAreOwners, OffersAreOpen, ActiveOwners, ActiveMembers, Active
<1>5. CallsFit'
  <2>1. \A k \in Invitation : Exists(k) =>
          invitation'[k] # None /\ invitation'[k].to = invitation[k].to
    BY <1>1 DEF RowKept
  <2>2. \A d \in calls' \ calls : CallFits(d)'
    BY <1>2
  <2>3. now' \in Nat /\ now <= now'
    BY <1>2
  <2>. QED
    BY <2>1, <2>2, <2>3, CallsStay
<1>6. ~Untouched(c.home) /\ c.kind \in OwnerKind
  BY <1>2 DEF Untouched, OwnerKind
<1>7. ASSUME NEW h \in Household, Untouched(h)
      PROVE  Untouched(h)'
  <2>1. h # c.home
    BY <1>6, <1>7
  <2>2. Empty(h)'
    BY <1>2, <1>7 DEF Untouched, Empty
  <2>3. \A k \in Invitation : Exists(k)' =>
          invitation'[k].home # h
    BY <1>1, <1>7, <2>1 DEF RowKept, Exists, Untouched
  <2>4. \A d \in calls' : d.kind \in OwnerKind => d.home # h
    BY <1>2, <1>7 DEF Untouched
  <2>. QED
    BY <2>2, <2>3, <2>4 DEF Untouched
<1>8. OwnedOnceUsed'
  <2>1. \A h \in Household : ActiveOwners(h)' = ActiveOwners(h)
    BY <1>2 DEF ActiveOwners, ActiveMembers, Active
  <2>. QED
    BY <1>2, <1>7, <2>1 DEF OwnedOnceUsed
<1>9. FoundersAlone'
  BY <1>2, <1>7 DEF FoundersAlone
<1>10. SeatsReserved'
  <2>1. ASSUME NEW h \in Household
        PROVE  Cardinality(ActiveMembers(h)') + Cardinality(PendingIn(h)') <= SeatLimit
    <3>1. ActiveMembers(h)' = ActiveMembers(h)
      BY <1>2 DEF ActiveMembers, Active
    <3>2. CASE h # c.home
      <4>1. PendingIn(h)' \subseteq PendingIn(h)
        BY <1>1, <3>2 DEF PendingIn, RowKept, Exists
      <4>. QED
        BY <3>1, <4>1, FewerSeats
    <3>3. CASE h = c.home
      <4>1. PendingIn(h)' \subseteq LiveIn(h, c.at) \cup {i}
        BY <1>1, <3>3 DEF PendingIn, LiveIn, RowKept, Exists
      <4>2. IsFiniteSet(LiveIn(h, c.at)) /\ Cardinality(LiveIn(h, c.at)) \in Nat
        BY FS_Subset, FS_CardinalityType, GovernanceAssumption DEF LiveIn
      <4>3. i \notin LiveIn(h, c.at)
        BY <1>1 DEF LiveIn
      <4>4. /\ IsFiniteSet(LiveIn(h, c.at) \cup {i})
            /\ Cardinality(LiveIn(h, c.at) \cup {i}) = Cardinality(LiveIn(h, c.at)) + 1
        BY <4>2, <4>3, FS_AddElement
      <4>5. Cardinality(PendingIn(h)') <= Cardinality(LiveIn(h, c.at)) + 1
        BY <4>1, <4>4, FS_Subset
      <4>6. Cardinality(ActiveMembers(h)) + Cardinality(LiveIn(h, c.at)) < SeatLimit
        BY <1>2, <3>3 DEF SeatAvailable, Occupied
      <4>. QED
        BY <3>1, <4>2, <4>5, <4>6, FiniteSeats, FiniteSeatsNext, GovernanceAssumption
    <3>. QED
      BY <3>2, <3>3
  <2>. QED
    BY <2>1 DEF SeatsReserved
<1>. QED
  BY <1>3, <1>4, <1>5, <1>8, <1>9, <1>10

LEMMA FoundKeeps ==
  ASSUME IInv, NEW c \in calls, NEW h \in Household, InsertWorkspace(c, h)
  PROVE  IInv'
<1>. USE DEF IInv
<1>. DEFINE d == [c EXCEPT !.kind = "found", !.home = h]
<1>1. /\ UNCHANGED <<now, accounts, member, confirmed, invitation>>
      /\ status' = [status EXCEPT ![h] = "active"]
      /\ calls' = (calls \ {c}) \cup {d}
      /\ status[h] = "none" /\ c.kind = "create"
  BY DEF InsertWorkspace
<1>2. c \in Call /\ d \in Call /\ d.kind = "found" /\ d.home = h /\ d.at = c.at
  BY DEF TypeOK, Call, CallKind
<1>. HIDE DEF d
<1>3. TypeOK'
  BY <1>1, <1>2 DEF TypeOK
<1>4. VotesAreOwners' /\ OffersAreOpen'
  BY <1>1 DEF VotesAreOwners, OffersAreOpen, ActiveOwners, ActiveMembers, Active
<1>5. CallsFit'
  <2>1. CallFits(c)
    BY DEF CallsFit
  <2>2. CallFits(d)'
    BY <1>1, <1>2, <2>1 DEF CallFits, OwnerKind
  <2>3. now' \in Nat /\ now <= now'
    BY <1>1 DEF TypeOK
  <2>4. \A k \in Invitation : Exists(k) =>
          invitation'[k] # None /\ invitation'[k].to = invitation[k].to
    BY <1>1 DEF Exists
  <2>5. \A e \in calls' \ calls : CallFits(e)'
    BY <1>1, <2>2
  <2>. QED
    BY <2>3, <2>4, <2>5, CallsStay
<1>6. ASSUME NEW g \in Household, Untouched(g)
      PROVE  Untouched(g)'
  <2>1. \A e \in calls' : e.kind \in OwnerKind => e.home # g
    BY <1>1, <1>2, <1>6 DEF Untouched, OwnerKind
  <2>. QED
    BY <1>1, <1>6, <2>1 DEF Untouched, Empty, Exists
<1>7. Untouched(h)' /\ status'[h] = "active"
  BY <1>1, <1>6 DEF OwnedOnceUsed, TypeOK
<1>8. \A g \in Household \ {h} : status'[g] = status[g]
  BY <1>1
<1>9. OwnedOnceUsed'
  <2>1. \A g \in Household : ActiveOwners(g)' = ActiveOwners(g)
    BY <1>1 DEF ActiveOwners, ActiveMembers, Active
  <2>. QED
    BY <1>6, <1>7, <1>8, <2>1 DEF OwnedOnceUsed
<1>10. FoundersAlone'
  <2>1. \A e \in calls : e.kind = "found" => e.home # h
    BY <1>1 DEF FoundersAlone
  <2>. QED
    BY <1>1, <1>2, <1>6, <1>7, <1>8, <2>1 DEF FoundersAlone
<1>11. SeatsReserved'
  BY <1>1 DEF SeatsReserved, ActiveMembers, Active, PendingIn, Exists
<1>. QED
  BY <1>3, <1>4, <1>5, <1>9, <1>10, <1>11

LEMMA OwnerKeeps ==
  ASSUME IInv, NEW c \in calls, InsertOwner(c)
  PROVE  IInv'
<1>. USE DEF IInv
<1>. DEFINE h == c.home
            row == [status |-> "active", role |-> "owner", offered |-> FALSE]
<1>1. /\ UNCHANGED <<now, accounts, status, confirmed, invitation>>
      /\ member' = [member EXCEPT ![h][c.by] = row]
      /\ calls' = calls \ {c} /\ c.kind = "found"
  BY DEF InsertOwner
<1>2. /\ c.by \in Person /\ h \in Household /\ status[h] = "active" /\ Untouched(h)
      /\ \A d \in calls : d.kind = "found" /\ d.home = h => d = c
  BY <1>1 DEF FoundersAlone, TypeOK, Call
<1>3. row \in Membership /\ row.status = "active" /\ row.role = "owner" /\ ~row.offered
  BY DEF Membership, MemberStatus
<1>. HIDE DEF row
<1>4. OneRow(h, c.by, row)
  BY <1>1, <1>2, <1>3, OneRowStep
<1>. HIDE DEF h
<1>5. TypeOK'
  BY <1>1, <1>4 DEF TypeOK, OneRow
<1>6. /\ ActiveMembers(h)' = {c.by} /\ ActiveOwners(h)' = {c.by}
      /\ ActiveMembers(h) = {} /\ ActiveOwners(h) = {}
  BY <1>2, <1>3, <1>4 DEF OneRow, ActiveMembers, ActiveOwners, Active, Untouched, Empty, Absent
<1>7. \A g \in Household \ {h} :
        /\ ActiveMembers(g)' = ActiveMembers(g) /\ ActiveOwners(g)' = ActiveOwners(g)
        /\ \A q \in Person : member'[g][q] = member[g][q]
  BY <1>4 DEF OneRow, ActiveMembers, ActiveOwners, Active
<1>8. VotesAreOwners'
  BY <1>1, <1>6, <1>7 DEF VotesAreOwners
<1>9. OffersAreOpen'
  BY <1>3, <1>4 DEF OneRow, OffersAreOpen, Active
<1>10. CallsFit'
  <2>1. now' \in Nat /\ now <= now' /\ \A d \in calls' \ calls : CallFits(d)'
    BY <1>1 DEF TypeOK
  <2>2. \A k \in Invitation : Exists(k) =>
          invitation'[k] # None /\ invitation'[k].to = invitation[k].to
    BY <1>1 DEF Exists
  <2>. QED
    BY <2>1, <2>2, CallsStay
<1>11. ASSUME NEW g \in Household \ {h}, Untouched(g)
       PROVE  Untouched(g)'
  BY <1>1, <1>7, <1>11 DEF Untouched, Empty, Exists
<1>12. OwnedOnceUsed'
  BY <1>1, <1>2, <1>6, <1>7, <1>11 DEF OwnedOnceUsed
<1>13. FoundersAlone'
  BY <1>1, <1>2, <1>11 DEF FoundersAlone
<1>14. SeatsReserved'
  <2>1. PendingIn(h)' = {}
    BY <1>1, <1>2 DEF PendingIn, Untouched, Exists
  <2>2. Cardinality(ActiveMembers(h)') = 1 /\ Cardinality(PendingIn(h)') = 0
    BY <1>6, <2>1, FS_Singleton, FS_EmptySet
  <2>3. \A g \in Household \ {h} : PendingIn(g)' = PendingIn(g)
    BY <1>1 DEF PendingIn, Exists
  <2>4. \A g \in Household \ {h} :
          Cardinality(ActiveMembers(g)') + Cardinality(PendingIn(g)') <= SeatLimit
    BY <1>7, <2>3 DEF SeatsReserved
  <2>5. Cardinality(ActiveMembers(h)') + Cardinality(PendingIn(h)') <= SeatLimit
    BY <2>2, GovernanceAssumption
  <2>. QED
    BY <2>4, <2>5 DEF SeatsReserved
<1>. QED
  BY <1>5, <1>8, <1>9, <1>10, <1>12, <1>13, <1>14

\* An acceptance turns a seat that a live link held into a member's.
LEMMA AcceptKeeps ==
  ASSUME IInv, NEW c \in calls, AcceptInvitation(c)
  PROVE  IInv'
<1>. USE DEF IInv
<1>0. PICK h \in Household : h = invitation[c.inv].home
  BY AcceptRows
<1>. DEFINE row == Readmitted(member[h][c.by])
<1>1. /\ RowsKept
      /\ c.inv \in Invitation /\ Exists(c.inv) /\ c.by \in Person
      /\ h = invitation[c.inv].home
      /\ Live(invitation[c.inv], now)
      /\ \A k \in Invitation :
           Exists(k) /\ invitation[k].home = h /\ invitation'[k].state = "pending"
           => Live(invitation[k], now) /\ k # c.inv
  BY <1>0, AcceptRows
<1>2. /\ UNCHANGED <<now, accounts, status, confirmed>>
      /\ member' = [member EXCEPT ![h][c.by] = row]
      /\ calls' = calls \ {c} /\ c.kind = "accept"
      /\ Homes(c.by) = {} /\ SeatAvailable(h, now)
  BY <1>0 DEF AcceptInvitation, AcceptedAt
<1>3. /\ row \in Membership /\ row.status = "active" /\ row.role = "member"
      /\ row.offered = member[h][c.by].offered
  BY <1>1, MemberType DEF Membership, Readmitted
<1>4. ~Active(h, c.by) /\ ~member[h][c.by].offered
  BY <1>1, <1>2 DEF Homes, OffersAreOpen
<1>. HIDE DEF row
<1>5. OneRow(h, c.by, row)
  BY <1>1, <1>2, <1>3, OneRowStep
<1>6. ~Untouched(h)
  BY <1>1 DEF Untouched
<1>7. \A i \in Invitation : RowKept(i)
  BY <1>1 DEF RowsKept
<1>8. PendingIn(h)' \subseteq LiveIn(h, now) \ {c.inv} /\ c.inv \in LiveIn(h, now)
  BY <1>1, <1>7 DEF PendingIn, LiveIn, RowKept, Exists
<1>9. TypeOK'
  BY <1>1, <1>2, <1>5 DEF TypeOK, OneRow, RowsKept
<1>10. /\ ActiveMembers(h)' = ActiveMembers(h) \cup {c.by} /\ c.by \notin ActiveMembers(h)
       /\ ActiveOwners(h)' = ActiveOwners(h)
  <2>1. \A q \in Person : member'[h][q] = IF q = c.by THEN row ELSE member[h][q]
    BY <1>5 DEF OneRow
  <2>2. /\ ActiveMembers(h)' = ActiveMembers(h) \cup {c.by}
        /\ c.by \notin ActiveMembers(h) /\ c.by \notin ActiveOwners(h)
    BY <1>1, <1>3, <1>4, <2>1 DEF ActiveMembers, ActiveOwners, Active
  <2>3. c.by \notin ActiveOwners(h)'
    BY <1>1, <1>3, <2>1 DEF ActiveOwners
  <2>4. \A q \in Person \ {c.by} : q \in ActiveOwners(h)' <=> q \in ActiveOwners(h)
    BY <2>1 DEF ActiveMembers, ActiveOwners, Active
  <2>5. ActiveOwners(h)' \subseteq Person /\ ActiveOwners(h) \subseteq Person
    BY DEF ActiveOwners, ActiveMembers
  <2>. QED
    BY <2>2, <2>3, <2>4, <2>5
<1>11. \A g \in Household \ {h} :
         /\ ActiveMembers(g)' = ActiveMembers(g) /\ ActiveOwners(g)' = ActiveOwners(g)
         /\ \A q \in Person : member'[g][q] = member[g][q]
  BY <1>5 DEF OneRow, ActiveMembers, ActiveOwners, Active
<1>12. VotesAreOwners'
  BY <1>2, <1>10, <1>11 DEF VotesAreOwners
<1>13. OffersAreOpen'
  BY <1>3, <1>4, <1>5 DEF OneRow, OffersAreOpen, Active
<1>14. CallsFit'
  <2>1. now' \in Nat /\ now <= now' /\ \A d \in calls' \ calls : CallFits(d)'
    BY <1>2 DEF TypeOK
  <2>2. \A k \in Invitation : Exists(k) =>
          invitation'[k] # None /\ invitation'[k].to = invitation[k].to
    BY <1>7 DEF RowKept, Exists
  <2>. QED
    BY <2>1, <2>2, CallsStay
<1>15. ASSUME NEW g \in Household, Untouched(g)
       PROVE  Untouched(g)'
  <2>1. g # h
    BY <1>6, <1>15
  <2>2. Empty(g)'
    BY <1>11, <1>15, <2>1 DEF Untouched, Empty
  <2>3. \A i \in Invitation : Exists(i)' =>
          Exists(i) /\ invitation'[i].home = invitation[i].home
    BY <1>7 DEF RowKept, Exists
  <2>. QED
    BY <1>2, <1>15, <2>2, <2>3, UntouchedStays
<1>16. OwnedOnceUsed'
  BY <1>2, <1>10, <1>11, <1>15 DEF OwnedOnceUsed
<1>17. FoundersAlone'
  BY <1>2, <1>15 DEF FoundersAlone
<1>18. SeatsReserved'
  <2>1. \A g \in Household \ {h} :
          Cardinality(ActiveMembers(g)') + Cardinality(PendingIn(g)') <= SeatLimit
    BY <1>1, <1>11, FewerSeats, PendingKept
  <2>2. IsFiniteSet(LiveIn(h, now)) /\ Cardinality(LiveIn(h, now)) \in Nat
    BY FS_Subset, FS_CardinalityType, GovernanceAssumption DEF LiveIn
  <2>3. /\ IsFiniteSet(LiveIn(h, now) \ {c.inv})
        /\ Cardinality(LiveIn(h, now) \ {c.inv}) = Cardinality(LiveIn(h, now)) - 1
    BY <1>8, <2>2, FS_RemoveElement
  <2>4. Cardinality(PendingIn(h)') <= Cardinality(LiveIn(h, now)) - 1
    BY <1>8, <2>3, FS_Subset
  <2>5. Cardinality(ActiveMembers(h)') = Cardinality(ActiveMembers(h)) + 1
    BY <1>10, FiniteSeats, FS_AddElement
  <2>6. Cardinality(ActiveMembers(h)) + Cardinality(LiveIn(h, now)) < SeatLimit
    BY <1>2 DEF SeatAvailable, Occupied
  <2>7. Cardinality(ActiveMembers(h)') + Cardinality(PendingIn(h)') <= SeatLimit
    BY <2>2, <2>4, <2>5, <2>6, FiniteSeats, FiniteSeatsNext, GovernanceAssumption
  <2>. QED
    BY <2>1, <2>7 DEF SeatsReserved
<1>. QED
  BY <1>9, <1>12, <1>13, <1>14, <1>16, <1>17, <1>18

-----------------------------------------------------------------------------
LEMMA InitIInv == Init => IInv
<1>1. SUFFICES ASSUME Init PROVE IInv
  OBVIOUS
<1>2. TypeOK
  BY <1>1 DEF Init, TypeOK, Membership, MemberStatus, Absent
<1>3. \A h \in Household : ActiveMembers(h) = {} /\ ActiveOwners(h) = {} /\ PendingIn(h) = {}
  BY <1>1 DEF Init, ActiveMembers, ActiveOwners, Active, PendingIn, Exists, Absent
<1>4. \A h \in Household : Untouched(h)
  BY <1>1 DEF Init, Untouched, Empty, Exists
<1>5. CallsFit /\ OwnedOnceUsed /\ FoundersAlone
  BY <1>1, <1>4 DEF Init, CallsFit, OwnedOnceUsed, FoundersAlone
<1>6. VotesAreOwners /\ OffersAreOpen
  BY <1>1 DEF Init, VotesAreOwners, OffersAreOpen, Absent
<1>7. SeatsReserved
  BY <1>3, FS_EmptySet, GovernanceAssumption DEF SeatsReserved
<1>. QED
  BY <1>2, <1>5, <1>6, <1>7 DEF IInv

\* The steps that move somebody's standing or bring a link: the four of their own,
\* and all the others.
LEMMA StepKinds ==
  ASSUME IInv, [Next]_vars
  PROVE  \/ \E c \in calls, i \in Invitation, address \in Address : SendInvitation(c, i, address)
         \/ \E c \in calls, h \in Household : InsertWorkspace(c, h)
         \/ \E c \in calls : InsertOwner(c) \/ AcceptInvitation(c)
         \/ Governing \/ (\E p \in Person : DeleteUser(p)) \/ QuietStep
<1>1. QuietStep \/ ~(\E p \in Person : CheckAdmission(p) \/ \E i \in Invitation : LoadForAccept(p, i))
  BY QuietReads DEF IInv
<1>2. QuietStep \/ ~(\E p \in Person, i \in Invitation : LoadForDecline(p, i))
  BY QuietReads DEF IInv
<1>3. QuietStep \/ ~(\E p \in Person, h \in Household, kind \in OwnerKind :
                       RequireOwnedHousehold(p, h, kind))
  BY QuietReads DEF IInv
<1>4. \/ QuietStep
      \/ /\ ~(\E c \in calls, i \in Invitation : ResendInvitation(c, i) \/ CancelInvitation(c, i))
         /\ ~(\E c \in calls : DeclineInvitation(c) \/ Drop(c))
         /\ ~Tick /\ ~UNCHANGED vars
  BY QuietWrites DEF IInv
<1>. QED
  BY <1>1, <1>2, <1>3, <1>4 DEF Next, Founding, Inviting, Answering, OwnerKind

LEMMA StepIInv == IInv /\ [Next]_vars => IInv'
<1>. SUFFICES ASSUME IInv, [Next]_vars PROVE IInv'
  OBVIOUS
<1>1. ASSUME QuietStep PROVE IInv'
  BY <1>1, QuietShrinks, ShrinkKeeps DEF IInv
<1>2. ASSUME Governing PROVE IInv'
  BY <1>2, GoverningSteps, GovernShrinks, ShrinkKeeps DEF IInv
<1>3. ASSUME NEW p \in Person, DeleteUser(p) PROVE IInv'
  BY <1>3, DeleteShrinks, ShrinkKeeps DEF IInv
<1>. QED
  BY <1>1, <1>2, <1>3, StepKinds, SendKeeps, FoundKeeps, OwnerKeeps, AcceptKeeps

LEMMA Invariance == Spec => []IInv
BY InitIInv, StepIInv, PTL DEF Spec

-----------------------------------------------------------------------------
(* What holds in every state.                                              *)

\* Every variable has its type in every reachable state.
THEOREM TypeCorrect == Spec => []TypeOK
<1>1. IInv => TypeOK
  BY DEF IInv
<1>. QED
  BY <1>1, Invariance, PTL

\* In any household, whatever its members and their accounts do at the same time,
\* whoever is left has an owner among them.
THEOREM AlwaysGoverned == Spec => []Governed
<1>1. IInv => Governed
  BY DEF IInv, OwnedOnceUsed, Governed, Untouched, Empty, ActiveMembers, Active, Absent
<1>. QED
  BY <1>1, Invariance, PTL

\* Only the present owners of a household have votes to end it on record, and an
\* offer of co-ownership never outlives the membership it was made to.
THEOREM NothingEverOutlivesStanding == Spec => []NothingOutlivesStanding
<1>1. IInv => NothingOutlivesStanding
  BY DEF IInv, VotesAreOwners, OffersAreOpen, NothingOutlivesStanding
<1>. QED
  BY <1>1, Invariance, PTL

\* However many owners invite at once and however old the clocks of their calls,
\* members and live links fit the seats: a lapsed link keeps its seat until its
\* lapse is on record, and then it cannot come back.
THEOREM SeatsAlwaysHold == Spec => []SeatsHold
<1>1. IInv => SeatsHold
  <2>1. SUFFICES ASSUME IInv, NEW h \in Household PROVE Occupied(h, now) <= SeatLimit
    BY DEF SeatsHold
  <2>2. LiveIn(h, now) \subseteq PendingIn(h)
    BY DEF LiveIn, PendingIn, Live
  <2>3. /\ Cardinality(LiveIn(h, now)) <= Cardinality(PendingIn(h))
        /\ Cardinality(LiveIn(h, now)) \in Nat
    BY <2>2, FiniteSeats, FS_Subset, FS_CardinalityType
  <2>4. Cardinality(ActiveMembers(h)) + Cardinality(PendingIn(h)) <= SeatLimit
    BY <2>1 DEF IInv, SeatsReserved
  <2>. QED
    BY <2>3, <2>4, FiniteSeats, GovernanceAssumption DEF Occupied
<1>. QED
  BY <1>1, Invariance, PTL

-----------------------------------------------------------------------------
(* What no step does.                                                      *)

LEMMA NobodyComesIn ==
  ASSUME IInv, NEW h \in Household, NEW p \in Person, Joins(h, p), [Next]_vars
  PROVE  \E c \in calls : InsertOwner(c) \/ AcceptInvitation(c)
<1>1. ~ShrinkStep
  BY DEF ShrinkStep, Joins, ActiveMembers, Active
<1>2. member' # member
  BY DEF Joins, Active
<1>3. ~QuietStep /\ ~Governing /\ ~(\E q \in Person : DeleteUser(q))
  BY <1>1, QuietShrinks, GoverningSteps, GovernShrinks, DeleteShrinks DEF IInv
<1>. QED
  BY <1>2, <1>3, StepKinds DEF SendInvitation, InsertWorkspace

\* Admission: nobody comes into a household in use except by a link to them that
\* is live as they come in, and that they use up.
THEOREM AlwaysAdmittedByLiveLink == Spec => AdmittedByLiveLink
<1>1. ASSUME IInv, [Next]_vars, NEW h \in Household, NEW p \in Person, Joins(h, p), ~Empty(h)
      PROVE  \E i \in Invitation :
               /\ Exists(i) /\ invitation[i].home = h /\ invitation[i].to = p
               /\ Live(invitation[i], now) /\ invitation'[i].state = "accepted"
  <2>1. PICK c \in calls : InsertOwner(c) \/ AcceptInvitation(c)
    BY <1>1, NobodyComesIn
  <2>2. CASE InsertOwner(c)
    <3>1. c.home \in Household /\ Empty(c.home) /\ c.by \in Person
      BY <1>1, <2>2 DEF InsertOwner, IInv, FoundersAlone, Untouched, TypeOK, Call
    <3>2. member'[h][p] = member[h][p]
      BY <1>1, <2>2, <3>1 DEF InsertOwner, IInv, TypeOK
    <3>. QED
      BY <1>1, <3>2 DEF Joins, Active
  <2>3. CASE AcceptInvitation(c)
    <3>1. PICK g \in Household : g = invitation[c.inv].home
      BY <1>1, <2>3, AcceptRows DEF IInv
    <3>2. /\ c.inv \in Invitation /\ Exists(c.inv) /\ invitation[c.inv].to = c.by
          /\ c.by \in Person
          /\ Live(invitation[c.inv], now) /\ invitation'[c.inv].state = "accepted"
      BY <1>1, <2>3, AcceptRows DEF IInv
    <3>3. member' = [member EXCEPT ![g][c.by] = Readmitted(member[g][c.by])]
      BY <2>3, <3>1 DEF AcceptInvitation
    <3>4. \/ h = g /\ p = c.by
          \/ member'[h][p] = member[h][p]
      BY <1>1, <3>3 DEF IInv, TypeOK
    <3>5. h = g /\ p = c.by
      BY <1>1, <3>4 DEF Joins, Active
    <3>. QED
      BY <3>1, <3>2, <3>5
  <2>. QED
    BY <2>1, <2>2, <2>3
<1>2. IInv /\ [Next]_vars =>
        [\A h \in Household, p \in Person : Joins(h, p) /\ ~Empty(h) =>
           \E i \in Invitation :
             /\ Exists(i) /\ invitation[i].home = h /\ invitation[i].to = p
             /\ Live(invitation[i], now) /\ invitation'[i].state = "accepted"]_vars
  BY <1>1
<1>. QED
  BY <1>2, Invariance, PTL DEF Spec, AdmittedByLiveLink

\* An answered, canceled or expired invitation never changes again, so no secret
\* of one works again.
THEOREM TerminalAlwaysStands == Spec => TerminalStands
<1>1. ASSUME IInv, [Next]_vars, NEW i \in Invitation, Exists(i), invitation[i].state # "pending"
      PROVE  invitation'[i].state = invitation[i].state
  <2>1. CASE RowsKept
    BY <1>1, <2>1 DEF RowsKept, RowKept
  <2>2. ASSUME NEW c \in calls, NEW k \in Invitation, NEW address \in Address,
               SendInvitation(c, k, address)
        PROVE  invitation'[i].state = invitation[i].state
    <3>1. i # k /\ \A j \in Invitation \ {k} : RowKept(j)
      BY <1>1, <2>2, SendRows DEF IInv
    <3>. QED
      BY <1>1, <3>1 DEF RowKept
  <2>3. ASSUME NEW c \in calls, NEW h \in Household, InsertWorkspace(c, h) \/ InsertOwner(c)
        PROVE  invitation'[i].state = invitation[i].state
    BY <2>3 DEF InsertWorkspace, InsertOwner
  <2>4. ASSUME NEW c \in calls, InsertOwner(c)
        PROVE  invitation'[i].state = invitation[i].state
    BY <2>4 DEF InsertOwner
  <2>5. ASSUME NEW c \in calls, AcceptInvitation(c) PROVE RowsKept
    BY <1>1, <2>5, AcceptRows DEF IInv
  <2>6. ASSUME Governing PROVE RowsKept
    BY <1>1, <2>6, GoverningSteps DEF IInv, GovernStep
  <2>7. ASSUME NEW p \in Person, DeleteUser(p) PROVE RowsKept
    BY <1>1, <2>7, DeleteRows DEF IInv
  <2>8. ASSUME QuietStep PROVE RowsKept
    BY <2>8 DEF QuietStep
  <2>. QED
    BY <1>1, <2>1, <2>2, <2>3, <2>4, <2>5, <2>6, <2>7, <2>8, StepKinds
<1>2. IInv /\ [Next]_vars =>
        [\A i \in Invitation : Exists(i) /\ invitation[i].state # "pending" =>
           invitation'[i].state = invitation[i].state]_vars
  BY <1>1
<1>. QED
  BY <1>2, Invariance, PTL DEF Spec, TerminalStands

\* Steps in which a role only falls, or is left as it is.
LEMMA NoOwnerMade ==
  ASSUME TypeOK, NEW h \in Household, NEW q \in Person, NEW row \in Membership,
         member' = [member EXCEPT ![h][q] = row],
         row.status = "active" /\ row.role = "owner" =>
           member[h][q].status = "active" /\ member[h][q].role = "owner"
  PROVE  \A g \in Household : ActiveOwners(g)' \subseteq ActiveOwners(g)
<1>1. OneRow(h, q, row)
  BY OneRowStep
<1>. QED
  BY <1>1 DEF OneRow, ActiveOwners, ActiveMembers, Active

NoneMade == \A g \in Household : ActiveOwners(g)' \subseteq ActiveOwners(g)

LEMMA GoverningMakesNone ==
  ASSUME IInv, Governing
  PROVE  NoneMade \/ \E p \in Person, h \in Household : AcceptOwnerRole(p, h)
<1>. USE DEF IInv, NoneMade
<1>1. ASSUME UNCHANGED member PROVE NoneMade
  BY <1>1 DEF ActiveOwners, ActiveMembers, Active
<1>2. ASSUME NEW h \in Household, NEW q \in Person,
             member' = [member EXCEPT ![h][q] = [member[h][q] EXCEPT !.offered = TRUE]]
      PROVE  NoneMade
  <2>. DEFINE row == [member[h][q] EXCEPT !.offered = TRUE]
  <2>1. /\ row \in Membership /\ row.status = member[h][q].status
        /\ row.role = member[h][q].role
    BY MemberType DEF Membership
  <2>2. member' = [member EXCEPT ![h][q] = row]
    BY <1>2
  <2>. HIDE DEF row
  <2>. QED
    BY <2>1, <2>2, NoOwnerMade
<1>3. ASSUME NEW h \in Household, NEW q \in Person,
             member' = [member EXCEPT ![h][q] = [member[h][q] EXCEPT !.offered = FALSE]]
      PROVE  NoneMade
  <2>. DEFINE row == [member[h][q] EXCEPT !.offered = FALSE]
  <2>1. /\ row \in Membership /\ row.status = member[h][q].status
        /\ row.role = member[h][q].role
    BY MemberType DEF Membership
  <2>2. member' = [member EXCEPT ![h][q] = row]
    BY <1>3
  <2>. HIDE DEF row
  <2>. QED
    BY <2>1, <2>2, NoOwnerMade
<1>4. ASSUME NEW h \in Household, NEW q \in Person, StepDownFromOwner(q, h)
      PROVE  NoneMade
  <2>. DEFINE row == [member[h][q] EXCEPT !.role = "member"]
  <2>1. row \in Membership /\ row.role = "member"
    BY MemberType DEF Membership
  <2>2. member' = [member EXCEPT ![h][q] = row]
    BY <1>4 DEF StepDownFromOwner
  <2>. HIDE DEF row
  <2>. QED
    BY <2>1, <2>2, NoOwnerMade
<1>5. ASSUME NEW h \in Household, NEW q \in Person, EndMembership(h, q)
      PROVE  NoneMade
  <2>. DEFINE row == Removed(member[h][q])
  <2>1. row \in Membership /\ row.status = "removed"
    BY MemberType DEF Membership, Removed
  <2>2. member' = [member EXCEPT ![h][q] = row]
    BY <1>5 DEF EndMembership
  <2>. HIDE DEF row
  <2>. QED
    BY <2>1, <2>2, NoOwnerMade
<1>6. ASSUME NEW p \in Person, NEW h \in Household, NEW endsNow \in BOOLEAN,
             ConfirmDissolution(p, h, endsNow)
      PROVE  NoneMade
  <2>1. CASE UNCHANGED member
    BY <1>1, <2>1
  <2>2. CASE Dissolve(h)
    <3>1. \A g \in Household, q \in Person :
            member'[g][q] = IF g = h /\ Active(h, q) THEN Removed(member[g][q])
                            ELSE member[g][q]
      BY <2>2 DEF Dissolve, TypeOK
    <3>2. \A g \in Household, q \in Person : Removed(member[g][q]).status = "removed"
      BY MemberType DEF Removed, Membership
    <3>. QED
      BY <3>1, <3>2 DEF ActiveOwners, ActiveMembers, Active
  <2>. QED
    BY <1>6, <2>1, <2>2 DEF ConfirmDissolution
<1>7. \A p, q \in Person, h \in Household :
        OfferOwnerRole(p, q, h) \/ WithdrawOwnerOffer(p, q, h) \/ DeclineOwnerRole(p, h)
        \/ CancelDissolution(p, h) => NoneMade
  BY <1>1, <1>2, <1>3
  DEF OfferOwnerRole, WithdrawOwnerOffer, DeclineOwnerRole, CancelDissolution, Answered
<1>8. \A p, q \in Person, h \in Household :
        RemoveMember(p, q, h) \/ LeaveHousehold(p, h) => NoneMade
  BY <1>5 DEF RemoveMember, LeaveHousehold
<1>. QED
  BY <1>4, <1>6, <1>7, <1>8 DEF Governing

\* Consent: whoever starts to govern a household in use holds an offer to, and
\* coming back by a link does not bring an old role back.
THEOREM AlwaysPromotedByConsent == Spec => PromotedByConsent
<1>1. ASSUME IInv, [Next]_vars, NEW h \in Household, NEW p \in Person,
             Active(h, p)', member'[h][p].role = "owner", p \notin ActiveOwners(h), ~Empty(h)
      PROVE  member[h][p].offered
  <2>1. p \in ActiveOwners(h)' /\ ~NoneMade
    BY <1>1 DEF ActiveOwners, ActiveMembers, Active, NoneMade
  <2>2. member' # member
    BY <1>1 DEF ActiveOwners, ActiveMembers, Active
  <2>3. ASSUME NEW c \in calls, InsertOwner(c)
        PROVE  FALSE
    <3>1. c.home \in Household /\ Empty(c.home) /\ c.by \in Person
      BY <1>1, <2>3 DEF InsertOwner, IInv, FoundersAlone, Untouched, TypeOK, Call
    <3>2. member'[h][p] = member[h][p]
      BY <1>1, <2>3, <3>1 DEF InsertOwner, IInv, TypeOK
    <3>. QED
      BY <1>1, <3>2 DEF ActiveOwners, ActiveMembers, Active
  <2>4. ASSUME NEW c \in calls, AcceptInvitation(c)
        PROVE  FALSE
    <3>1. PICK g \in Household : g = invitation[c.inv].home
      BY <1>1, <2>4, AcceptRows DEF IInv
    <3>2. c.by \in Person
      BY <1>1, <2>4, AcceptRows DEF IInv
    <3>. DEFINE row == Readmitted(member[g][c.by])
    <3>3. row \in Membership /\ row.role = "member"
      <4>1. member[g][c.by] \in Membership /\ row \in Membership
        BY <1>1, <3>2, MemberType DEF IInv
      <4>. QED
        BY <4>1 DEF Membership, Readmitted
    <3>4. member' = [member EXCEPT ![g][c.by] = row]
      BY <2>4, <3>1 DEF AcceptInvitation
    <3>. HIDE DEF row
    <3>. QED
      BY <1>1, <2>1, <3>2, <3>3, <3>4, NoOwnerMade DEF IInv, NoneMade
  <2>5. ASSUME NEW q \in Person, DeleteUser(q)
        PROVE  FALSE
    <3>1. member'[h][p] = member[h][p] \/ member'[h][p] = Absent
      BY <1>1, <2>5 DEF DeleteUser, IInv, TypeOK
    <3>. QED
      BY <1>1, <3>1 DEF ActiveOwners, ActiveMembers, Active, Absent
  <2>6. Governing
    BY <1>1, <2>2, <2>3, <2>4, <2>5, StepKinds DEF QuietStep, SendInvitation, InsertWorkspace
  <2>7. PICK q \in Person, g \in Household : AcceptOwnerRole(q, g)
    BY <1>1, <2>1, <2>6, GoverningMakesNone
  <2>8. \/ h = g /\ p = q
        \/ member'[h][p] = member[h][p]
    BY <1>1, <2>7 DEF AcceptOwnerRole, Answered, IInv, TypeOK
  <2>9. h = g /\ p = q
    BY <1>1, <2>8 DEF ActiveOwners, ActiveMembers, Active
  <2>. QED
    BY <2>7, <2>9 DEF AcceptOwnerRole
<1>2. IInv /\ [Next]_vars =>
        [\A h \in Household, p \in Person :
           /\ Active(h, p)' /\ member'[h][p].role = "owner"
           /\ p \notin ActiveOwners(h) /\ ~Empty(h)
           => member[h][p].offered]_vars
  BY <1>1
<1>. QED
  BY <1>2, Invariance, PTL DEF Spec, PromotedByConsent

\* What ends a household is its owners' last vote, or its only member's account.
LEMMA Endings ==
  ASSUME IInv, [Next]_vars, NEW h \in Household, Ends(h)
  PROVE  \/ \E p \in Person, endsNow \in BOOLEAN : ConfirmDissolution(p, h, endsNow)
         \/ \E p \in Person : DeleteUser(p)
<1>1. status' # status /\ status'[h] # status[h]
  BY DEF Ends
<1>2. ~QuietStep /\ ~(\E c \in calls : InsertOwner(c) \/ AcceptInvitation(c))
  BY <1>1 DEF QuietStep, InsertOwner, AcceptInvitation
<1>3. \A c \in calls, g \in Household : ~InsertWorkspace(c, g)
  BY <1>1 DEF InsertWorkspace, Ends, IInv, TypeOK
<1>4. \A c \in calls, i \in Invitation, address \in Address : ~SendInvitation(c, i, address)
  BY <1>1 DEF SendInvitation
<1>5. ASSUME Governing
      PROVE  \E p \in Person, endsNow \in BOOLEAN : ConfirmDissolution(p, h, endsNow)
  <2>1. PICK p \in Person, g \in Household, endsNow \in BOOLEAN :
          ConfirmDissolution(p, g, endsNow)
    BY <1>1, <1>5 DEF Governing, OfferOwnerRole, WithdrawOwnerOffer, AcceptOwnerRole,
      DeclineOwnerRole, StepDownFromOwner, RemoveMember, LeaveHousehold, CancelDissolution,
      Answered, EndMembership
  <2>2. g = h
    BY <1>1, <2>1 DEF ConfirmDissolution, Dissolve, IInv, TypeOK
  <2>. QED
    BY <2>1, <2>2
<1>. QED
  BY <1>2, <1>3, <1>4, <1>5, StepKinds

\* A household never ends without the votes of all who own it, but with the only
\* person in it, nor by the first press of someone told that nothing will change.
THEOREM AlwaysEndedByItsOwners == Spec => EndedByItsOwners
<1>1. ASSUME IInv, [Next]_vars, NEW h \in Household, Ends(h)
      PROVE  \E p \in ActiveOwners(h) :
               ActiveOwners(h) \ {p} \subseteq confirmed[h] \/ ActiveMembers(h) = {p}
  <2>1. ASSUME NEW p \in Person, NEW endsNow \in BOOLEAN, ConfirmDissolution(p, h, endsNow)
        PROVE  p \in ActiveOwners(h) /\ ActiveOwners(h) \ {p} \subseteq confirmed[h]
    BY <1>1, <2>1 DEF ConfirmDissolution, Unanimous, Awaiting, Ends
  <2>2. ASSUME NEW p \in Person, DeleteUser(p)
        PROVE  p \in ActiveOwners(h) /\ ActiveMembers(h) = {p}
    <3>1. ActiveMembers(h) = {p}
      BY <1>1, <2>2 DEF DeleteUser, Ends
    <3>2. ActiveOwners(h) # {} /\ ActiveOwners(h) \subseteq ActiveMembers(h)
      BY <1>1, <3>1
      DEF IInv, OwnedOnceUsed, Ends, Untouched, Empty, ActiveMembers, ActiveOwners, Active, Absent
    <3>. QED
      BY <3>1, <3>2
  <2>. QED
    BY <1>1, <2>1, <2>2, Endings
<1>2. ASSUME NEW h \in Household, NEW p \in Person, ConfirmDissolution(p, h, FALSE), Ends(h)
      PROVE  p \in confirmed[h]
  <2>1. Awaiting(h, confirmed[h]) # {p} /\ p \in ActiveOwners(h)
    BY <1>2 DEF ConfirmDissolution, WouldEndNow
  <2>2. Unanimous(h, confirmed[h] \cup {p})
    BY <1>2 DEF ConfirmDissolution, Ends
  <2>. QED
    BY <2>1, <2>2 DEF Unanimous, Awaiting
<1>3. IInv /\ [Next]_vars =>
        [\A h \in Household : Ends(h) =>
           /\ \E p \in ActiveOwners(h) :
                ActiveOwners(h) \ {p} \subseteq confirmed[h] \/ ActiveMembers(h) = {p}
           /\ \A p \in Person : ConfirmDissolution(p, h, FALSE) => p \in confirmed[h]]_vars
  BY <1>1, <1>2
<1>. QED
  BY <1>3, Invariance, PTL DEF Spec, EndedByItsOwners
=============================================================================
