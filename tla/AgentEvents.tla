----------------------------- MODULE AgentEvents -----------------------------
(***************************************************************************)
(* From an agent's hook to the row and the push message: what the shim     *)
(* makes of a payload and stamps on it (src/src/commands/event.rs,         *)
(* adapters/, hostid.rs, context.rs), what the daemon folds it into        *)
(* (server.rs, inbox.rs), and what it tells the push endpoint and takes    *)
(* from Herdr (commands/serve.rs, push.rs, herdr.rs).                      *)
(*                                                                         *)
(* Every hook is a process of its own, every line a task of its own.  The  *)
(* races between an answer and its approval are module Approvals', those   *)
(* between rows and subscribers InboxFeed's: here answering is one step and*)
(* rows are not followed.                                                  *)
(***************************************************************************)

EXTENDS AgentHooks, FiniteSets

CONSTANTS
  Hooks,      \* hook processes; a hook names the ids it mints
  Sessions,   \* what agents call their sessions
  Uuids,      \* the sessions that are named by a UUID
  Anonymous,  \* the session of a payload that names none
  Fleets,     \* sets of agents that may be installed together
  Envs,       \* terminal environments: sets of variables that are set
  Usages,     \* percentages of the context an agent may report
  Endpoint,   \* the daemon found a push.json when it started
  Blank,      \* the content of a host-id file that was only emptied
  None

(* One of Herdr's four states stands for them: who shows one is asked, not *)
(* which.                                                                  *)
HerdrStates == {"working"}

ASSUME FleetsAssumption == \A f \in Fleets : f \subseteq KnownAgents
ASSUME UuidsAssumption == Uuids \subseteq Sessions
ASSUME NoneAssumption ==
  None # Blank /\ {None, Blank} \cap Hooks = {} /\ None \notin HerdrStates
ASSUME EndpointAssumption == Endpoint \in BOOLEAN
ASSUME UsagesAssumption == Usages \subseteq Nat

VARIABLES
  fleet,      \* the agents installed on this host
  active,     \* pi's extension has seen a session start
  hook,       \* hook[h]: one run of the shim, and what it stamps on its line
  file,       \* the host-id file: None, Blank or an id
  printed,    \* printed[h]: the decision on h's stdout, or None
  misread,    \* history: a hook could not read the id that was there
  wire,       \* hooks whose line is sent and waits to be accepted
  accepted,   \* hooks whose connection has a task, their line not handled
  polling,    \* the daemon waits for `herdr agent list`
  parked,     \* hooks whose approval is registered
  row,        \* row[k]: the row of a session key, or None
  pushing     \* hooks whose row is being pushed

agentVars == <<fleet, active>>
shimVars == <<hook, file, printed, misread>>
daemonVars == <<wire, accepted, polling, parked, row, pushing>>
vars == <<agentVars, shimVars, daemonVars>>

-----------------------------------------------------------------------------
(* What the shim makes of a payload.                                       *)

(* session_uuid: a UUID is taken as it is, anything else is hashed with the*)
(* agent's name, the empty string of a payload without a session too.      *)
SessionKey(agent, session) ==
  IF session \in Uuids THEN <<session>> ELSE <<agent, session>>

Keys == {SessionKey(a, s) : a \in KnownAgents, s \in Sessions \union {Anonymous}}

(* detect: the innermost multiplexer that says so, Herdr before the rest.  *)
(* Herdr sets HERDR_SESSION and HERDR_PANE_ID together, and only the pane  *)
(* is asked for here.                                                      *)
Detect(env) ==
  IF "HERDR_ENV" \in env
  THEN [kind |-> "herdr",
        pane |-> IF "HERDR_PANE_ID" \in env THEN "w1:p1" ELSE None]
  ELSE IF "ZELLIJ" \in env THEN [kind |-> "zellij", pane |-> None]
  ELSE IF "TMUX" \in env THEN [kind |-> "tmux", pane |-> None]
  ELSE None

Terminals == {Detect(env) : env \in Envs}

(* A share that may be negative. *)
RemainingUnclamped(used) == 100 - used

(* context_remaining: 1.0 - used, clamped.                                 *)
Remaining(used) == IF used > 100 THEN 0 ELSE 100 - used

(* Without a number in the payload, or for any other event, None. *)
ContextsOf(agent, event) ==
  {None} \union IF event \in Adapter[agent].context
                THEN {Remaining(u) : u \in Usages} ELSE {}

Waits(h) == IsDecidable(hook[h].agent, hook[h].event)
Category(h) == CategoryOf(hook[h].agent, hook[h].event)
HasId(h) == MintsAnId(hook[h].agent, hook[h].event)
Key(h) == SessionKey(hook[h].agent, hook[h].session)

(* Not started yet, or ended before anything was sent. *)
Phase(p) == [phase |-> p]

Init ==
  /\ fleet \in Fleets
  /\ active = FALSE
  /\ hook = [h \in Hooks |-> Phase("unborn")]
  /\ file = None
  /\ printed = [h \in Hooks |-> None]
  /\ misread = FALSE
  /\ wire = {}
  /\ accepted = {}
  /\ polling = FALSE
  /\ parked = {}
  /\ row = [k \in Keys |-> None]
  /\ pushing = {}

-----------------------------------------------------------------------------
(* The agent.                                                              *)

(* pi's extension forwards nothing before it saw a session start. *)
Forwards(a, e) == a = "pi" => active \/ e = "session_start"

IsId(content) == content \notin {None, Blank}

(* The id in the file, if there is one and nobody is about to replace it.  *)
SettledId ==
  IF \E h \in Hooks : hook[h].phase \in {"minting", "writing"} \/ ~IsId(file)
  THEN None ELSE file

(* The agent runs the shim with a payload: an event without a category ends*)
(* it, any other is stamped with what the environment says.  `found` is    *)
(* history.                                                                *)
Launch(h, a, e, s, env, c) ==
  /\ hook[h].phase = "unborn"
  /\ Forwards(a, e)
  /\ active' = (active \/ a = "pi")
  /\ hook' = [hook EXCEPT ![h] =
       IF ~Handled(a, e) THEN Phase("ended")
       ELSE [phase |-> "reading", agent |-> a, event |-> e, session |-> s,
             terminal |-> Detect(env), context |-> c, found |-> SettledId,
             host |-> None, age |-> 0]]
  /\ UNCHANGED <<fleet, file, printed, misread, daemonVars>>

(* pi's session_shutdown. *)
Shutdown ==
  /\ active
  /\ active' = FALSE
  /\ UNCHANGED <<fleet, shimVars, daemonVars>>

-----------------------------------------------------------------------------
(* The shim.                                                               *)

Goes(h, from, to) ==
  /\ hook[h].phase = from
  /\ hook' = [hook EXCEPT ![h].phase = to]

Ends(h) == hook' = [hook EXCEPT ![h] = Phase("ended")]

Stamps(h, host) ==
  hook' = [hook EXCEPT ![h].phase = "sending", ![h].host = host]

(* An id of its own for every event. *)
MintWithoutLooking(h) ==
  /\ hook[h].phase = "reading"
  /\ Stamps(h, h)
  /\ file' = h
  /\ UNCHANGED <<agentVars, printed, misread, daemonVars>>

(* load_or_create: what is there and not blank is the id. *)
ReadHostId(h) ==
  /\ IF IsId(file)
     THEN hook[h].phase = "reading" /\ Stamps(h, file)
     ELSE Goes(h, "reading", "minting")
  /\ UNCHANGED <<agentVars, file, printed, misread, daemonVars>>

(* An id that cannot be read, for want of a permission or a descriptor, is *)
(* none, and a new one is minted over it.                                  *)
MisreadHostId(h) ==
  /\ IsId(file)
  /\ Goes(h, "reading", "minting")
  /\ misread' = TRUE
  /\ UNCHANGED <<agentVars, file, printed, daemonVars>>

(* fs::write empties the file and then writes the id. *)
TruncateHostId(h) ==
  /\ Goes(h, "minting", "writing")
  /\ file' = Blank
  /\ UNCHANGED <<agentVars, printed, misread, daemonVars>>

WriteHostId(h) ==
  /\ hook[h].phase = "writing"
  /\ Stamps(h, h)
  /\ file' = h
  /\ UNCHANGED <<agentVars, printed, misread, daemonVars>>

(* No directory, no space: the event is stamped with nothing; a part of the*)
(* id that is in the file is an id to whoever reads it.                    *)
MintFails(h) ==
  /\ hook[h].phase \in {"minting", "writing"}
  /\ Stamps(h, None)
  /\ file' \in {file} \union IF hook[h].phase = "writing" THEN {h} ELSE {}
  /\ UNCHANGED <<agentVars, printed, misread, daemonVars>>

(* The line is written to the hook socket. *)
Send(h) ==
  /\ Goes(h, "sending", IF Waits(h) THEN "waiting" ELSE "done")
  /\ wire' = wire \union {h}
  /\ UNCHANGED <<agentVars, file, printed, misread, accepted, polling, parked,
                 row, pushing>>

(* No daemon, or no connection. *)
DropEvent(h) ==
  /\ hook[h].phase = "sending" /\ Ends(h)
  /\ UNCHANGED <<agentVars, file, printed, misread, daemonVars>>

(* Seconds since the hook began to wait, counted by two minutes. *)
Waited(h) == hook[h].age * 120

(* The agent runs out of patience: the time-out the hook was installed     *)
(* with, in the agent's unit.                                              *)
OutOfTime(h) ==
  LET a == hook[h].agent IN
  Waited(h) * 1000 >= TimeoutField(a, hook[h].event) * MillisecondsPerUnit(a)

Due(h) == Waited(h) >= APPROVAL_WAIT_SECS \/ OutOfTime(h)

(* Nobody answered in time: the shim goes on without a decision, or is     *)
(* killed by its agent if it is out of time by then.                       *)
TimeOut(h) ==
  /\ Goes(h, "waiting", IF OutOfTime(h) THEN "killed" ELSE "done")
  /\ Due(h)
  /\ UNCHANGED <<agentVars, file, printed, misread, daemonVars>>

(* Two minutes pass for those who wait.  A timer that is due fires first,  *)
(* and what the shim does before it waits takes no time worth counting.    *)
Waiting == {h \in Hooks : hook[h].phase = "waiting"}

Tick ==
  /\ Waiting # {}
  /\ \A h \in Waiting : Waited(h) < APPROVAL_WAIT_SECS
  /\ hook' = [h \in Hooks |-> IF h \in Waiting
                              THEN [hook[h] EXCEPT !.age = @ + 1] ELSE hook[h]]
  /\ UNCHANGED <<agentVars, file, printed, misread, daemonVars>>

(* The agent is stopped, and its hooks with it; or the daemon is, and a    *)
(* hook that waits finds its connection closed.                            *)
Die(h) ==
  /\ \/ hook[h].phase \in {"reading", "minting", "writing", "sending"} /\ Ends(h)
     \/ Goes(h, "waiting", "done")
  /\ UNCHANGED <<agentVars, file, printed, misread, daemonVars>>

-----------------------------------------------------------------------------
(* The daemon.                                                             *)

Kept(new, old) == IF new = None THEN old ELSE new

(* An update that starts the row over. *)
FoldAfresh(h) ==
  [by |-> h, host |-> hook[h].host, resolved |-> FALSE,
   terminal |-> hook[h].terminal, context |-> hook[h].context, state |-> None]

(* from_event and update: a later line replaces what the row shows and     *)
(* clears the resolution; of terminal and context it keeps what the line   *)
(* does not say, and Herdr's state whatever the line says.                 *)
Fold(h) ==
  LET old == row[Key(h)] IN
  [by |-> h, host |-> hook[h].host, resolved |-> FALSE,
   terminal |-> IF old = None THEN hook[h].terminal
                ELSE Kept(hook[h].terminal, old.terminal),
   context |-> IF old = None THEN hook[h].context
               ELSE Kept(hook[h].context, old.context),
   state |-> IF old = None THEN None ELSE old.state]

IsNotable(category) == category \in {"approval_required", "task_complete"}

(* The accept loop gives every connection a task of its own, unless the   *)
(* daemon's main task is held up: Herdr is asked in that task, by a call   *)
(* that blocks it.                                                         *)
Accept(h) ==
  /\ h \in wire /\ ~polling
  /\ wire' = wire \ {h}
  /\ accepted' = accepted \union {h}
  /\ UNCHANGED <<agentVars, shimVars, polling, parked, row, pushing>>

(* A push is a task of its own; and one that the next line would wait for. *)
FreeAfterPushes(h) == h \in accepted /\ pushing = {}
Free(h) == h \in accepted

(* apply, on_row, and registering the id if the hook waits; a hook that    *)
(* waits without an id is told at once that there is no decision.          *)
HandleLine(h) ==
  /\ Free(h)
  /\ accepted' = accepted \ {h}
  /\ row' = [row EXCEPT ![Key(h)] = Fold(h)]
  /\ pushing' = IF Endpoint /\ IsNotable(Category(h)) THEN pushing \union {h}
                ELSE pushing
  /\ parked' = IF Waits(h) /\ HasId(h) THEN parked \union {h} ELSE parked
  /\ hook' = IF Waits(h) /\ ~HasId(h) /\ hook[h].phase = "waiting"
             THEN [hook EXCEPT ![h].phase = "refused"] ELSE hook
  /\ UNCHANGED <<agentVars, file, printed, misread, wire, polling>>

(* The POST of a detached task is answered, or fails and is not repeated.  *)
DeliverPush(h) ==
  /\ h \in pushing
  /\ pushing' = pushing \ {h}
  /\ UNCHANGED <<agentVars, shimVars, wire, accepted, polling, parked, row>>

(* The phone answers: the row is marked if it still shows that approval,   *)
(* and the hook, if it still waits, prints the decision.                   *)
Answer(h, allow) ==
  LET k == Key(h) IN
  /\ h \in parked
  /\ parked' = parked \ {h}
  /\ row' = IF row[k] # None /\ row[k].by = h
            THEN [row EXCEPT ![k].resolved = TRUE] ELSE row
  /\ IF hook[h].phase = "waiting"
     THEN /\ Goes(h, "waiting", "done")
          /\ printed' = [printed EXCEPT ![h] =
                           RenderDecision(hook[h].agent, allow)]
     ELSE UNCHANGED <<hook, printed>>
  /\ UNCHANGED <<agentVars, file, misread, wire, accepted, polling, pushing>>

InHerdr(terminal) == terminal # None /\ terminal.kind = "herdr"
InHerdrPane(terminal) == InHerdr(terminal) /\ terminal.pane # None

(* A row in any terminal, and one in a pane of Herdr. *)
InAnyTerminal(k) == row[k] # None
InAPane(k) == row[k] # None /\ InHerdrPane(row[k].terminal)

(* Every five seconds Herdr is asked about the sessions of the rows that   *)
(* are in one.  The call has no time-out.                                  *)
PollStarts ==
  /\ ~polling
  /\ \E k \in Keys : row[k] # None /\ InHerdr(row[k].terminal)
  /\ polling' = TRUE
  /\ UNCHANGED <<agentVars, shimVars, wire, accepted, parked, row, pushing>>

(* Herdr's answer for the pane is overlaid on the rows that are in it by   *)
(* then.  Without a binary, a server or such an agent there is no answer.  *)
PollReturns(state) ==
  /\ polling
  /\ polling' = FALSE
  /\ row' = [k \in Keys |-> IF state # None /\ InAPane(k)
                            THEN [row[k] EXCEPT !.state = state] ELSE row[k]]
  /\ UNCHANGED <<agentVars, shimVars, wire, accepted, parked, pushing>>

-----------------------------------------------------------------------------
Report(h) ==
  \E a \in fleet : \E e \in Reported(a), s \in Sessions \union {Anonymous},
                      env \in Envs : \E c \in ContextsOf(a, e) :
    Launch(h, a, e, s, env, c)

Mint(h) == TruncateHostId(h) \/ WriteHostId(h) \/ MintFails(h)

Next ==
  \/ Shutdown \/ Tick
  \/ \E h \in Hooks :
       \/ Report(h) \/ ReadHostId(h) \/ MisreadHostId(h) \/ Mint(h)
       \/ Send(h) \/ DropEvent(h)
       \/ TimeOut(h) \/ Die(h)
       \/ Accept(h) \/ HandleLine(h) \/ DeliverPush(h)
       \/ \E allow \in BOOLEAN : Answer(h, allow)
  \/ PollStarts
  \/ \E state \in HerdrStates \union {None} : PollReturns(state)

Spec == Init /\ [][Next]_vars

(* What the runtime owes the lines: a task that has one to handle runs, the*)
(* accept loop has a turn between two polls, and Herdr's binary ends.  No  *)
(* push is ever answered, no approval decided, no timer due.               *)
FairSpec ==
  /\ Spec
  /\ WF_vars(\E h \in Hooks : HandleLine(h))
  /\ SF_vars(\E h \in Hooks : Accept(h))
  /\ WF_vars(\E state \in HerdrStates \union {None} : PollReturns(state))

-----------------------------------------------------------------------------
Phases == {"unborn", "ended", "reading", "minting", "writing", "sending",
           "waiting", "refused", "killed", "done"}

Contexts == 0..100 \union {None}

(* A hook that has a payload, and a row. *)
Launched == {p \in Phases : p \notin {"unborn", "ended"}}

Payloads ==
  [phase : Launched, agent : KnownAgents,
   event : UNION {Reported(a) : a \in KnownAgents},
   session : Sessions \union {Anonymous}, terminal : Terminals,
   context : Contexts, found : Hooks \union {None},
   host : Hooks \union {None}, age : 0..2]

Rows ==
  [by : Hooks, host : Hooks \union {None}, resolved : BOOLEAN,
   terminal : Terminals \union {None}, context : Contexts,
   state : HerdrStates \union {None}]

(* Type invariant, with the range of a context, the age of a wait and the  *)
(* key of a row.                                                           *)
TypeOK ==
  /\ fleet \in Fleets
  /\ active \in BOOLEAN
  /\ hook \in [Hooks -> Payloads \union {Phase("unborn"), Phase("ended")}]
  /\ \A h \in Hooks : hook[h].phase \in Launched =>
       hook[h].agent \in fleet /\ hook[h].event \in Reported(hook[h].agent)
  /\ file \in Hooks \union {None, Blank}
  /\ misread \in BOOLEAN
  /\ wire \union accepted \union parked \union pushing \subseteq Hooks
  /\ polling \in BOOLEAN
  /\ row \in [Keys -> Rows \union {None}]
  /\ \A k \in Keys : row[k] # None => Key(row[k].by) = k

(* "So this process always gets to answer rather than being killed         *)
(* mid-write" (cli.rs:58-61, install.rs:39-45): the time-out the hook was  *)
(* installed with, in the unit its agent takes it in, outlives the wait.   *)
NeverKilledWaiting == \A h \in Hooks : hook[h].phase # "killed"

(* "Only the latter is worth blocking the agent for" (adapters/mod.rs:     *)
(* 38-42): whenever a hook is held back after its line was handled, there  *)
(* is an approval it is held for, whoever of adapter, installer and daemon *)
(* decided that it waits; none is sent away for want of an id.             *)
HeldOnlyForAnAnswer ==
  \A h \in Hooks :
    /\ hook[h].phase # "refused"
    /\ hook[h].phase = "waiting" /\ h \notin wire \union accepted => h \in parked
    /\ hook[h].phase = "waiting" => WaitsForADecision(hook[h].agent, hook[h].event)

(* What reaches stdout is in the form its agent reads: for Codex no        *)
(* updatedInput ever (codex.rs:42-44), for the others the input on allow   *)
(* and only then.                                                          *)
DecisionsAreReadable ==
  \A h \in Hooks : printed[h] # None =>
    /\ hook[h].agent \in {"claude_code", "codex", "qwen"}
    /\ printed[h].updatedInput = (printed[h].behavior = "allow"
                                  /\ hook[h].agent # "codex")
    /\ printed[h].message = (printed[h].behavior = "deny")

(* "A slow or unreachable push endpoint must not hold up the next agent    *)
(* event" (serve.rs:66-67), nor may an approval that is parked             *)
(* (server.rs:27-28): a line that was sent is handled, though no push is   *)
(* ever answered and no approval decided.  Herdr's binary, which the main  *)
(* task waits for (serve.rs:90-119, herdr.rs:56-59), is assumed to end.    *)
LinesAreHandled ==
  \A h \in Hooks : h \in wire ~> h \notin wire \union accepted

(* Hooks whose line is in its row. *)
HandledHook(h) ==
  hook[h].phase \in {"waiting", "refused", "killed", "done"}
  /\ h \notin wire \union accepted

(* Herdr's state is "`None` for rows whose agent isn't in a herdr pane"    *)
(* (inbox.rs:43-45), as far as that goes: a row shows one only if a line of*)
(* its session came from a pane of Herdr.  It keeps it when a later line   *)
(* comes from somewhere else, and when Herdr has ended (inbox.rs:84-110).  *)
StateComesFromAPane ==
  \A k \in Keys : row[k] # None /\ row[k].state # None =>
    \E h \in Hooks : /\ HandledHook(h) /\ Key(h) = k
                     /\ InHerdrPane(hook[h].terminal)

(* "The file is the source of truth so the id survives daemon restarts and *)
(* upgrades" (hostid.rs:4-5), and "the app can group the inbox by host"    *)
(* (1-2): once an id is in the file and nobody is replacing it, every hook *)
(* that starts sends that id, and it stays, as long as no read of it fails.*)
HostIdIsShared ==
  ~misread => \A h \in Hooks :
    hook[h].phase \in Launched /\ hook[h].found # None =>
      /\ file = hook[h].found
      /\ hook[h].phase # "reading" => hook[h].host = hook[h].found

(* "Keeps whatever the event left unsaid" (inbox.rs:81-83, 102-107): what a*)
(* row has learnt of its terminal and its context it never forgets.        *)
NothingLearntIsForgotten ==
  [][\A k \in Keys : row[k] # None /\ row'[k] # None =>
       /\ row[k].terminal # None => row'[k].terminal # None
       /\ row[k].context # None => row'[k].context # None]_vars

=============================================================================
