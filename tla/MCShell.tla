------------------------------ MODULE MCShell -------------------------------
(***************************************************************************)
(* Model-checking instances of Shell.                                      *)
(***************************************************************************)
EXTENDS Shell, TLC

PidSymmetry == Permutations(Pid)
=============================================================================
