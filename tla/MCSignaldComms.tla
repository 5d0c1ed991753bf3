--------------------------- MODULE MCSignaldComms ---------------------------
(* SignaldComms for TLC: a buffer of four bytes, so that lines of length    *)
(* 0 .. 2 fit, 3 just overflows it and 7 overflows it twice.                *)
EXTENDS SignaldComms

AllLens == {0, 2, 3, 7}
=============================================================================
