--------------------------- MODULE MCTrafficCache ----------------------------
EXTENDS TrafficCache

TwoPorts == {80, 443}
=============================================================================
