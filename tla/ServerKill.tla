----------------------------- MODULE ServerKill -----------------------------
(***************************************************************************)
(* sailor-hook servers and servers kill (src/src/servers.rs): list who     *)
(* listens, probe each port over loopback, and send a process found that   *)
(* way SIGTERM and, if asked to, SIGKILL.                                  *)
(*                                                                         *)
(* Nothing in it holds on to a process: a pid is a number that may be given*)
(* to another one at any time, and so may a port.  A process is the pid it *)
(* has and how many had it before.  Processes start, listen, close, exit - *)
(* told to or not - and ignore SIGTERM as they like.                       *)
(***************************************************************************)

EXTENDS Integers

CONSTANTS
  Pids,
  Ports,
  LowPorts,  \* those below 1024
  Sites,     \* what a process may listen on: host, port, with a page or not
  None,      \* no outcome yet
  MaxLives   \* bound on the processes that get a pid, one after the other

(* lsof's hosts, as far as a connection to 127.0.0.1 tells them apart: ::1 *)
(* and the addresses of other interfaces are elsewhere.                    *)
Hosts == {"loopback", "any", "elsewhere"}

ASSUME PortsAssumption == LowPorts \subseteq Ports
ASSUME SitesAssumption ==
  Sites \subseteq [host : Hosts, port : Ports, page : BOOLEAN]
ASSUME LivesAssumption == MaxLives \in Nat \ {0}
ASSUME NoneAssumption == None \notin {"stale", "not signalled", "killed", "alive"}

VARIABLES
  life,      \* how many processes a pid has been given to
  up,        \* whether the last of them still runs
  sockets,   \* who listens where, and whether to HTTP with a page
  command,   \* the pid, the port and --force
  phase,     \* what the command does next
  todo,      \* listeners still to be probed
  found,     \* the servers among them
  forced,    \* SIGKILL was sent
  outcome,   \* what the command prints, or None
  listeners, \* history: who listened, and where, when lsof ran
  heard,     \* history: who listened at the command's port from then on
  served,    \* history: who of them was reached there and had a page
  termed,    \* history: the processes that were sent SIGTERM
  slain,     \* history: the processes that were sent SIGKILL
  blind      \* history: ps could not be run when it was asked

procVars == <<life, up, sockets>>
cmdVars == <<command, phase, todo, found, forced, outcome, listeners, termed,
             slain, blind>>
vars == <<procVars, cmdVars, heard, served>>

-----------------------------------------------------------------------------
(* Processes.                                                              *)

Process(pid) == <<pid, life[pid]>>
Processes == Pids \X (0..MaxLives)
IsGone(proc) == proc[2] < life[proc[1]] \/ ~up[proc[1]]

Sockets == [pid : Pids, at : Sites]

(* Who is reached at 127.0.0.1: the closest address that is bound.         *)
Answering(port) ==
  {s \in sockets : s.at.port = port /\
     \/ s.at.host = "loopback"
     \/ s.at.host = "any" /\ ~\E t \in sockets : t.at.port = port /\ t.at.host = "loopback"}
HasPage(port) == \E s \in Answering(port) : s.at.page

(* The history of the command's port, from the listing to the last probe.  *)
HeardNow == {Process(s.pid) : s \in {t \in sockets : t.at.port = command.port}}
ServedNow == {Process(s.pid) : s \in {t \in Answering(command.port) : t.at.page}}
Watch ==
  IF phase' = "probe"
  THEN heard' = heard \union HeardNow' /\ served' = served \union ServedNow'
  ELSE UNCHANGED <<heard, served>>

Start(pid) ==
  /\ ~up[pid] /\ life[pid] < MaxLives
  /\ life' = [life EXCEPT ![pid] = @ + 1]
  /\ up' = [up EXCEPT ![pid] = TRUE]
  /\ UNCHANGED sockets

Exit(pid) ==
  /\ up[pid]
  /\ up' = [up EXCEPT ![pid] = FALSE]
  /\ sockets' = {s \in sockets : s.pid # pid}
  /\ UNCHANGED life

Listen(s) ==
  /\ up[s.pid]
  /\ ~\E t \in sockets : t.at.host = s.at.host /\ t.at.port = s.at.port
  /\ sockets' = sockets \union {s}
  /\ UNCHANGED <<life, up>>

Close(s) ==
  /\ s \in sockets
  /\ sockets' = sockets \ {s}
  /\ UNCHANGED <<life, up>>

Others ==
  /\ outcome = None
  /\ \/ \E pid \in Pids : Start(pid) \/ Exit(pid)
     \/ \E s \in Sockets : Listen(s) \/ Close(s)
  /\ UNCHANGED cmdVars
  /\ Watch

-----------------------------------------------------------------------------
(* discover.                                                               *)

Init ==
  /\ life \in [Pids -> {0, 1}]
  /\ up = [pid \in Pids |-> life[pid] = 1]
  /\ sockets = {}
  /\ command \in [pid : Pids, port : Ports, force : BOOLEAN]
  /\ phase = "list"
  /\ todo = {} /\ found = {}
  /\ listeners = {} /\ heard = {} /\ served = {}
  /\ termed = {} /\ slain = {}
  /\ forced = FALSE /\ blind = FALSE
  /\ outcome = None

At(p) == outcome = None /\ phase = p

(* Low ports taken along. *)
AllPorts == Ports

Probed == Ports \ LowPorts

(* lsof; without it nothing listens.                                       *)
List ==
  /\ At("list")
  /\ listeners' = {<<Process(s.pid), s.at.port>> : s \in sockets}
  /\ \/ todo' = {[pid |-> s.pid, port |-> s.at.port] :
                   s \in {t \in sockets : t.at.port \in Probed}}
     \/ todo' = {}
  /\ phase' = "probe"
  /\ UNCHANGED <<procVars, command, found, forced, outcome, termed, slain, blind>>
  /\ Watch

(* One GET of http://127.0.0.1:port, whichever socket the listing had; it  *)
(* may take too long.                                                      *)
Probe(server) ==
  /\ At("probe")
  /\ server \in todo
  /\ todo' = todo \ {server}
  /\ \/ HasPage(server.port) /\ found' = found \union {server}
     \/ UNCHANGED found
  /\ UNCHANGED <<procVars, command, phase, forced, outcome, listeners, termed,
                 slain, blind>>
  /\ Watch

-----------------------------------------------------------------------------
(* kill.                                                                   *)

(* The pid alone, whatever port it was found on.                           *)
IsDiscoveredPid(pid, port) == \E server \in found : server.pid = pid

IsDiscovered(pid, port) == [pid |-> pid, port |-> port] \in found

Finish(result) == phase' = "done" /\ outcome' = result
Go(p) == phase' = p /\ UNCHANGED outcome

Verify ==
  /\ At("probe")
  /\ todo = {}
  /\ IF IsDiscovered(command.pid, command.port) THEN Go("term") ELSE Finish("stale")
  /\ UNCHANGED <<procVars, command, todo, found, forced, listeners, termed,
                 slain, blind>>
  /\ Watch

(* kill -TERM fails without a process of that pid, or one of somebody else.*)
Term ==
  /\ At("term")
  /\ \/ /\ up[command.pid]
        /\ termed' = termed \union {Process(command.pid)}
        /\ Go("wait")
     \/ Finish("not signalled") /\ UNCHANGED termed
  /\ UNCHANGED <<procVars, command, todo, found, forced, listeners, slain, blind>>
  /\ Watch

(* ps tells, and a ps that cannot be run tells that nobody is there.       *)
SeesIt == up[command.pid] /\ UNCHANGED blind
SeesNobody ==
  \/ ~up[command.pid] /\ UNCHANGED blind
  \/ blind' = TRUE

(* wait_for_exit polls until nobody is there, or for two seconds.          *)
WaitsEnd ==
  /\ At("wait")
  /\ \/ SeesNobody /\ Go("report")
     \/ SeesIt /\ Go(IF command.force THEN "kill" ELSE "report")
  /\ UNCHANGED <<procVars, command, todo, found, forced, listeners, termed, slain>>
  /\ Watch

(* kill -KILL, whatever comes of it.                                       *)
Kill ==
  /\ At("kill")
  /\ forced' = TRUE
  /\ \/ up[command.pid] /\ slain' = slain \union {Process(command.pid)}
     \/ UNCHANGED slain
  /\ Go("wait again")
  /\ UNCHANGED <<procVars, command, todo, found, listeners, termed, blind>>
  /\ Watch

WaitsEndAgain ==
  /\ At("wait again")
  /\ SeesNobody \/ SeesIt
  /\ Go("report")
  /\ UNCHANGED <<procVars, command, todo, found, forced, listeners, termed, slain>>
  /\ Watch

(* SIGKILL is taken for the end of it.                                     *)
KilledOrForced(seen) == IF seen /\ ~forced THEN "alive" ELSE "killed"

Killed(seen) == IF seen THEN "alive" ELSE "killed"

Report ==
  /\ At("report")
  /\ \/ SeesNobody /\ Finish(Killed(FALSE))
     \/ SeesIt /\ Finish(Killed(TRUE))
  /\ UNCHANGED <<procVars, command, todo, found, forced, listeners, termed, slain>>
  /\ Watch

Command ==
  \/ List \/ Verify \/ Term \/ WaitsEnd \/ Kill \/ WaitsEndAgain \/ Report
  \/ \E server \in todo : Probe(server)

Next == Command \/ Others

Spec == Init /\ [][Next]_vars

-----------------------------------------------------------------------------
Phases == {"list", "probe", "term", "wait", "kill", "wait again", "report", "done"}
Outcomes == {"stale", "not signalled", "killed", "alive"}

(* Type invariant: only listeners above 1023 become servers, SIGKILL       *)
(* belongs to a command that asked for it and sent SIGTERM, and "stale" to *)
(* one that sent nothing.                                                  *)
TypeOK ==
  /\ life \in [Pids -> 0..MaxLives] /\ up \in [Pids -> BOOLEAN]
  /\ sockets \subseteq Sockets
  /\ command \in [pid : Pids, port : Ports, force : BOOLEAN]
  /\ phase \in Phases
  /\ todo \union found \subseteq [pid : Pids, port : Ports \ LowPorts]
  /\ listeners \subseteq Processes \X Ports
  /\ heard \subseteq Processes /\ served \subseteq heard
  /\ termed \subseteq Processes /\ slain \subseteq Processes
  /\ blind \in BOOLEAN /\ forced \in BOOLEAN
  /\ slain # {} => forced
  /\ forced => command.force /\ termed # {}
  /\ outcome \in Outcomes \union {None}
  /\ outcome \in {"stale", "not signalled"} => termed = {}

(* "Re-validate that pid:port is still a discovered HTML server, then      *)
(* terminate it" (servers.rs:188), as far as a pid and a port can tell:    *)
(* whoever is signalled has the pid that was asked for, and somebody with  *)
(* that pid, itself or one before it, was listed at that port; somebody was*)
(* reached there with a page before the probes ended; and one that had the *)
(* port to itself until then, on every interface, served the page itself.  *)
(* Where others listened at the port too, the page may have been theirs:   *)
(* what servers.rs:3-6 promises, that those kept serve HTML, is not so.    *)
OnlyServersAreSignalled ==
  \A proc \in termed \union slain :
    /\ proc[1] = command.pid
    /\ \E n \in 0..proc[2] : <<<<command.pid, n>>, command.port>> \in listeners
    /\ served # {}
    /\ heard = {proc} => served = {proc}

(* "killed" (servers.rs:213): unless ps could not be run, whoever listened *)
(* there under that pid is gone, and so is whoever was signalled.          *)
KilledMeansGone ==
  outcome = "killed" /\ ~blind =>
    /\ termed # {}
    /\ \A proc \in termed \union slain : IsGone(proc)
    /\ \A l \in listeners : l[1][1] = command.pid => IsGone(l[1])
=============================================================================
