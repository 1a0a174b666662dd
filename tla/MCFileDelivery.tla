--------------------------- MODULE MCFileDelivery ---------------------------
EXTENDS FileDelivery

CONSTANT s1

Sighted(i, x, w) == [id |-> i, x |-> x, y |-> 0, w |-> w, h |-> 2]
Moving(markers) == [area |-> 2, markers |-> markers]
Still(markers)  == [area |-> 1, markers |-> markers]

(* Two recordings of the camera and a file of a user.                        *)
Clips == <<
    <<Moving(<<Sighted(7, 0, 1), Sighted(8, 0, 2)>>)>>,
    <<Still(<<Sighted(7, 0, 2)>>)>>,
    <<Still(<<>>), Moving(<<Sighted(9, 4, 3), Sighted(7, 0, 2)>>)>> >>

Homes == [f \in 1 .. 3 |-> s1]
Rois  == [s \in {s1} |-> {<<1, 1>>}]
=============================================================================
