--------------------------- MODULE MCCommandPool ---------------------------
(* CommandPool with four calls as model values for TLC.                    *)
EXTENDS CommandPool

CONSTANTS r1, r2, r3, r4
=============================================================================
