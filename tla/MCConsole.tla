----------------------------- MODULE MCConsole -----------------------------
(***************************************************************************)
(* Model checking of Console: one executable, "a", and the commands "a xy" *)
(* and "b" for terminal 1.                                                 *)
(***************************************************************************)
EXTENDS Console

OneFile == {<<97>>}
TwoCommands == {<<97, 32, 120, 121>>, <<98>>}
============================================================================
