--------------------------- MODULE MCVisibleCapture ---------------------------
(* VisibleCapture on small sets for TLC, and the parameters of a screenshot.   *)
EXTENDS VisibleCapture

MCLimits == {Undefined, 0, 1, 2, 3, 7, 50, 100}
MCParameters == [format : {Undefined, "jpeg", "png", "gif"},
                 quality : {Undefined, 0, 1, 100, 101},
                 maxWidth : MCLimits, maxHeight : MCLimits]
=============================================================================
