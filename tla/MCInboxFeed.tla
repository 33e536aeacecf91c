---- MODULE MCInboxFeed ----
(* Instances of InboxFeed for TLC. *)
EXTENDS InboxFeed, TLC

CONSTANTS s1, s2, w1, w2, c1, c2

Symmetry == Permutations(Sessions) \union Permutations(Writers)
====
