--------------------------- MODULE MCSignaldConnect ---------------------------
(* SignaldConnect for TLC: the location in XDG_RUNTIME_DIR and the one under  *)
(* /var/run, or the one location the user has set.                            *)
EXTENDS SignaldConnect

CONSTANTS xdg, var

TwoPaths == {xdg, var}
Both == {TwoPaths}
BothOrOne == {TwoPaths, {var}}
=============================================================================
