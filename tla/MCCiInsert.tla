----------------------------- MODULE MCCiInsert -----------------------------
\* Times on both sides of each other, zero and negative included.
EXTENDS CiInsert

MCTimestamps == -1..2
=============================================================================
