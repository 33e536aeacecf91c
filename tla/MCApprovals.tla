---- MODULE MCApprovals ----
(* Instances of Approvals for TLC. *)
EXTENDS Approvals

CONSTANTS h1, h2, h3, a1, a2, s1, s2

TwoHooks == {h1, h2}
ThreeHooks == {h1, h2, h3}
OneAnswerer == {a1}
TwoAnswerers == {a1, a2}
OneSession == {s1}
TwoSessions == {s1, s2}
====
