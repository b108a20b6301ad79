------------------------ MODULE MCOwnerDataExport --------------------------
EXTENDS OwnerDataExport, TLC

CONSTANTS w1, w2, c1, r1

OneWeb == {w1}
TwoWeb == {w1, w2}
OneConsumer == {c1}
OnePass == {r1}

WebSymmetry == Permutations(Web)
=============================================================================
