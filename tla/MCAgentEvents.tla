---- MODULE MCAgentEvents ----
(* Instances of AgentEvents for TLC. *)
EXTENDS AgentEvents

CONSTANTS h1, h2, s1

(* Every agent on a host of its own, and two agents on one.                *)
Neighbours == {"cursor", "gemini"}
FewFleets == {{a} : a \in KnownAgents} \union {Neighbours}

(* A bare shell, tmux, and tmux in a pane of Herdr. *)
FewEnvs == {{}, {"TMUX"}, {"TMUX", "HERDR_ENV", "HERDR_PANE_ID"}}

(* Every agent launches a hook, for each of its events.  Some launch       *)
(* another: pi at any time and from anywhere, so that its hooks race for   *)
(* the host id, may misread it, and move their row; Qwen from the same     *)
(* terminal once the line of the first is sent, for an approval or at the  *)
(* end of a turn; and one of two neighbours after the other.               *)
FewLaunches ==
  /\ hook[h2].phase = "unborn" /\ hook'[h2].phase # "unborn" =>
       \/ fleet = {"pi"} /\ hook[h1].phase # "unborn"
       \/ fleet = {"qwen"} /\ hook[h1].phase \in {"waiting", "done"}
          /\ hook'[h2].event \in {"PermissionRequest", "Stop"}
          /\ hook'[h2].terminal = hook[h1].terminal
       \/ fleet = Neighbours /\ hook[h1].phase = "done"
          /\ hook'[h2].phase # "ended" /\ hook'[h2].agent # hook[h1].agent
  /\ fleet # {"pi"} => ~misread'
====
