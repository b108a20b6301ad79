--------------------------- MODULE AccountRecord ----------------------------
(***************************************************************************)
(* What the product database holds of one account, and the statements the  *)
(* deletion, retention and Legal Hold services run on it.  Times are days. *)
(* The intent, the holds and the profile reference the account and go with *)
(* its row.                                                                *)
(***************************************************************************)
EXTENDS Integers

Db == [account : BOOLEAN,      \* is the user row there?
       requested : Nat,        \* the intent's requested_at, or 0: no intent
       journaled : BOOLEAN,    \* is the intent's journaled_at set?
       reason : {"owner_request", "retention_deadline"},
       hold : Nat,             \* the latest expiry of the account's Legal Holds, or 0
       heldInTime : BOOLEAN,   \* was the hold in force placed before a purge was past its check? (history)
       deadline : Nat]         \* when a Lapsed or Terminated account may be purged, or 0

NewAccount ==
  [account |-> TRUE, requested |-> 0, journaled |-> FALSE, reason |-> "owner_request",
   hold |-> 0, heldInTime |-> FALSE, deadline |-> 0]

\* heldBeyond, and isAccountHeld: a hold that expires after the time given.
Held(d, at) == d.hold > at

\* commitIntent: insert, and on a conflict the intent that is there stands.
WithIntent(d, at, why) ==
  IF d.account /\ d.requested = 0
    THEN [d EXCEPT !.requested = at, !.journaled = FALSE, !.reason = why] ELSE d

ClaimAsListed(d, listed, at) == d.account /\ d.requested = 0   \* variant: trusts the listing

\* The condition of claimPurge's one statement: the deadline it was listed with
\* still stands and is past, no hold is in force and no intent is committed.
MayClaim(d, listed, at) ==
  /\ d.account /\ d.requested = 0
  /\ d.deadline # 0 /\ d.deadline = listed /\ listed <= at
  /\ ~Held(d, at)

MarkedJournaled(d) == IF d.requested = 0 THEN d ELSE [d EXCEPT !.journaled = TRUE]

\* deleteAccount, and reapplyDeletionRecord: the row and everything that
\* references it; the fields of a row that is gone are those of no row.
Erased == [NewAccount EXCEPT !.account = FALSE]

\* recordLegalHold: a second hold never shortens the first.
WithHold(d, until, now, inTime) ==
  [d EXCEPT !.hold = IF until > @ THEN until ELSE @,
            !.heldInTime = IF Held(d, now) THEN @ ELSE inTime]
=============================================================================
