---- MODULE MCServerKill ----
(* Instances of ServerKill for TLC: pids are interchangeable.  *)
EXTENDS ServerKill, TLC

CONSTANTS p1, p2, web, low

PidSymmetry == Permutations(Pids)

(* A page, another process before it on loopback or behind the same port   *)
(* on another interface, and a page on a port that is not looked at.       *)
FourSites ==
  {[host |-> "loopback", port |-> web, page |-> FALSE],
   [host |-> "any", port |-> web, page |-> TRUE],
   [host |-> "elsewhere", port |-> web, page |-> FALSE],
   [host |-> "any", port |-> low, page |-> TRUE]}
====
