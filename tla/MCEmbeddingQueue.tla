-------------------------- MODULE MCEmbeddingQueue --------------------------
EXTENDS EmbeddingQueue

CONSTANTS o1, w1, c1, ta, tb

OneOwner == {o1}
OneWorker == {w1}
OneCron == {c1}

TwoTexts == {ta, tb}
RefusesB == {tb}

Rec(text, sensitivity, retrievable) ==
  [text |-> text, sensitivity |-> sensitivity, retrievable |-> retrievable]

\* An edit of the text, of its sensitivity only, to restricted, and archiving,
\* restricted or not: an archived record is skipped where it is.
Edits ==
  {Rec(ta, "normal", TRUE), Rec(tb, "normal", TRUE), Rec(ta, "sensitive", TRUE),
   Rec(ta, "restricted", TRUE), Rec(ta, "restricted", FALSE)}
=============================================================================
