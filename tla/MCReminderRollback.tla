------------------------- MODULE MCReminderRollback -------------------------
EXTENDS ReminderRollback

CONSTANTS o1, w1, c1

OneOwner == {o1}
OneWorker == {w1}
OneCron == {c1}

Edits == {"save"}
Retries == {"accepted", "failed"}
=============================================================================
