-------------------------- MODULE ApprovalContract --------------------------
(***************************************************************************)
(* What the approval path of sailor-hook promises, without sockets, tasks  *)
(* or registries.                                                          *)
(*                                                                         *)
(* An approval is asked by one hook process.  Anybody holding its id may   *)
(* try to answer it.  At most one answer is ever accepted; what the hook   *)
(* prints on stdout is that accepted answer or nothing at all; and whoever *)
(* is told "ok" is the one whose answer was accepted.  Silence is always   *)
(* allowed (src/src/pending.rs:9-12: every failure ends in "no decision"). *)
(***************************************************************************)

CONSTANTS
  Hooks,      \* hook processes; a hook stands for the id it minted
  Answerers,  \* runs of `sailor-hook approve` and POSTs to /approve
  None        \* no hook, no answerer

VARIABLES
  verdict,    \* verdict[h]: the accepted answer, or "none"
  winner,     \* winner[h]: whose answer that was, or None
  outcome,    \* outcome[h]: "open", "silent", or the decision on stdout
  told        \* told[a]: "none", "ok", "refused" or "error"

vars == <<verdict, winner, outcome, told>>

Verdicts == {"allow", "deny"}

Init ==
  /\ verdict = [h \in Hooks |-> "none"]
  /\ winner  = [h \in Hooks |-> None]
  /\ outcome = [h \in Hooks |-> "open"]
  /\ told    = [a \in Answerers |-> "none"]

(* The first answer to reach an approval is accepted, whether or not the   *)
(* answerer learns of it in the same step.                                 *)
Accept(h, a, v) ==
  /\ verdict[h] = "none"
  /\ told[a] = "none"
  /\ \A g \in Hooks : winner[g] # a
  /\ verdict' = [verdict EXCEPT ![h] = v]
  /\ winner'  = [winner EXCEPT ![h] = a]
  /\ \E t \in {"none", "ok"} : told' = [told EXCEPT ![a] = t]
  /\ UNCHANGED outcome

(* Only the answerer that was accepted is told so. *)
Confirm(a) ==
  /\ told[a] = "none"
  /\ \E h \in Hooks : winner[h] = a
  /\ told' = [told EXCEPT ![a] = "ok"]
  /\ UNCHANGED <<verdict, winner, outcome>>

(* "Nothing is waiting on that id" is only said to an answerer that lost. *)
Refuse(a) ==
  /\ told[a] = "none"
  /\ \A h \in Hooks : winner[h] # a
  /\ told' = [told EXCEPT ![a] = "refused"]
  /\ UNCHANGED <<verdict, winner, outcome>>

(* A daemon that goes away leaves any number of answerers without a reply, *)
(* accepted or not.                                                        *)
Lose(lost) ==
  /\ \A a \in lost : told[a] = "none"
  /\ told' = [a \in Answerers |-> IF a \in lost THEN "error" ELSE told[a]]
  /\ UNCHANGED <<verdict, winner, outcome>>

(* The hook prints the accepted answer, never anything else. *)
Speak(h) ==
  /\ outcome[h] = "open"
  /\ verdict[h] \in Verdicts
  /\ outcome' = [outcome EXCEPT ![h] = verdict[h]]
  /\ UNCHANGED <<verdict, winner, told>>

(* Every other way a hook ends prints nothing. *)
FallBack(h) ==
  /\ outcome[h] = "open"
  /\ outcome' = [outcome EXCEPT ![h] = "silent"]
  /\ UNCHANGED <<verdict, winner, told>>

Next ==
  \/ \E h \in Hooks, a \in Answerers, v \in Verdicts : Accept(h, a, v)
  \/ \E a \in Answerers : Confirm(a) \/ Refuse(a)
  \/ \E lost \in SUBSET Answerers : Lose(lost)
  \/ \E h \in Hooks : Speak(h) \/ FallBack(h)

Spec == Init /\ [][Next]_vars
=============================================================================
