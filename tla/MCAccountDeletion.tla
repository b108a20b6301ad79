------------------------- MODULE MCAccountDeletion --------------------------
EXTENDS AccountDeletion

CONSTANT w1

OneWorker == {w1}
=============================================================================
