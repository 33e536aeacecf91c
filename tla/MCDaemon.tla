---- MODULE MCDaemon ----
(* Instances of Daemon for TLC. *)
EXTENDS Daemon, TLC

CONSTANTS p1, p2, p3, e1, e2

Symmetry == Permutations(Serves) \union Permutations(Pairs)
====
