-------------------------------- MODULE MCVpi --------------------------------
(* Names with and without a %d, and words of four bits.                    *)
EXTENDS Vpi
CONSTANTS plain, numbered
=============================================================================
