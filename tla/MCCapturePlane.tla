--------------------------- MODULE MCCapturePlane ----------------------------
(* Ports 7 and 8 are neighbours that lie in different bytes of the bitmap,  *)
(* 8 and 9 share a byte.                                                    *)
EXTENDS CaptureRefinement

AcrossBytes == {7, 8}
SameByte    == {8, 9}
\* Packets that leave 7, packets that reach 8, packets between the two.
FlowsOneWay == {<<7, 0>>, <<0, 8>>}
NoPorts     == {}
Without     == {FALSE}
Either      == {TRUE, FALSE}
=============================================================================
