------------------------------ MODULE MCLaunchd ------------------------------
(* Model-checking instances of Launchd.                                    *)
EXTENDS Launchd, TLC

PidSymmetry == Permutations(Pids)
==============================================================================
