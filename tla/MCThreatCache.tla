---------------------------- MODULE MCThreatCache ----------------------------
EXTENDS ThreatCache

CONSTANTS i1, i2, i3, w1, w2

ThreeIps   == {i1, i2, i3}
TwoThreads == {w1, w2}
=============================================================================
