----------------------------- MODULE MCSourcing -----------------------------
EXTENDS Sourcing

CONSTANTS w1, m1
=============================================================================
