------------------------- MODULE MCReminderDelivery -------------------------
EXTENDS ReminderDelivery, TLC

CONSTANTS o1, w1, w2, c1

OneOwner == {o1}
OneWorker == {w1}
TwoWorkers == {w1, w2}
OneCron == {c1}
NoCron == {}

Edits == {"save"}
AllOps == {"save", "move", "clear", "disable", "register"}

Accepts == {"accepted"}
AllAnswers == {"accepted", "failed", "terminal"}

WorkerSymmetry == Permutations(Workers)
=============================================================================
