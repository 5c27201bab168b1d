------------------------------- MODULE MCCapture ------------------------------
(* Values of Capture's constants for TLC.                                  *)
EXTENDS Capture

CONSTANTS k1, k2

MCOneKey   == {k1}
MCKeys     == {k1, k2}
MCSizes    == {3}
MCTwoSizes == {3, 4}
===============================================================================
