-------------------------- MODULE MCLauncherLease --------------------------
(* TLC instances of LauncherLease.                                         *)
EXTENDS LauncherLease, TLC

Symmetry == Permutations(Proc)
============================================================================
