---- MODULE MCApprovalsLive ----
(* Approvals for TLC, safety and liveness in one run.  A behaviour begins  *)
(* with the choice of whom the scheduler owes something: nobody, only the  *)
(* shims while the daemon may hang, or only the daemon while no deadline   *)
(* need ever pass.                                                         *)
EXTENDS MCApprovals

VARIABLE scheduled

liveVars == <<vars, scheduled>>

(* A shim that was launched runs: it connects or gives up connecting, reads*)
(* what is on its socket, and its timer fires.  Nothing is asked of the    *)
(* daemon or of the phone.                                                 *)
ShimsRun ==
  /\ scheduled = "shims"
  /\ \E h \in Hooks : Deliver(h) \/ DropEvent(h) \/ Recv(h) \/ TimeOut(h)

(* The runtime polls the ready tasks of a daemon that is up, and a shim    *)
(* reads a reply that is there.  No deadline is assumed to pass.           *)
ServiceRuns ==
  /\ scheduled = "service"
  /\ \/ \E h \in Hooks : TaskStep(h) \/ Recv(h)
     \/ \E a \in Answerers : HandleDecision(a)

(* Hooks, answerers and sessions are interchangeable: the first of each is *)
(* the one that comes first by kind, by the way it answers and by use.     *)
KindRank(k) ==
  CASE k = "permission" -> 1 [] k = "notification" -> 2
    [] k = "report" -> 3 [] k = "anonymous" -> 4
AnswerRank(a) ==
  (IF via[a] = "cli" THEN 0 ELSE 2) + (IF answer[a] = "allow" THEN 0 ELSE 1)

UpToRenaming ==
  /\ KindRank(kind[h1]) <= KindRank(kind[h2])
  /\ AnswerRank(a1) <= AnswerRank(a2)
  /\ sess[h1] = s1

(* The hooks that the liveness properties are about: those that wait, in   *)
(* one session, and under one daemon.                                      *)
Scheduled ==
  /\ scheduled \in {"nobody", "shims", "service"}
  /\ scheduled = "shims" => \A h \in Hooks : kind[h] \in {"permission", "anonymous"}
  /\ scheduled = "service" => \A h \in Hooks : kind[h] = "permission"
  /\ scheduled # "nobody" => \A h \in Hooks : sess[h] = s1

LiveInit == Init /\ Scheduled /\ UpToRenaming

LiveNext ==
  /\ Next
  /\ UNCHANGED scheduled
  /\ restarts' # restarts => scheduled = "nobody"

LiveSpec ==
  /\ LiveInit
  /\ [][LiveNext]_liveVars
  /\ WF_liveVars((ShimsRun \/ ServiceRuns) /\ UNCHANGED scheduled)

(* The agent is never held longer than its own deadline, whatever the      *)
(* daemon does or fails to do (event.rs:89-110).                           *)
HooksTerminate == scheduled = "shims" => HookTerminates

(* An accepted answer is printed, unless the shim gives up or the daemon   *)
(* goes away first (server.rs:71-78).                                      *)
AnswersAreDelivered == scheduled = "service" => AnswerIsDelivered

(* An accepted answer takes the buttons off the row (server.rs:75-77).     *)
AnswersAreShown == scheduled = "service" => AnswerIsShown

(* Whoever answers hears back or loses the daemon (server.rs:82-92).       *)
AsksAreReplied == scheduled = "service" => EveryAskIsReplied
====
