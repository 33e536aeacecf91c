------------------------------ MODULE Approvals ------------------------------
(***************************************************************************)
(* The approval path: the shim an agent runs (src/src/commands/event.rs),  *)
(* the daemon's task for its connection (src/src/server.rs), the registry  *)
(* of parked approvals (src/src/pending.rs), the two ways to answer one    *)
(* (src/src/commands/approve.rs and POST /approve in src/src/gateway.rs),  *)
(* and the inbox row that carries the id to the phone (src/src/inbox.rs).  *)
(*                                                                         *)
(* A hook is one run of the shim.  The id it mints is a fresh v4 UUID      *)
(* (src/src/adapters/claude_code.rs:41-43), so a hook stands for its own   *)
(* id and `register` never meets an id twice.  Time is abstract: a         *)
(* deadline may pass at any moment.  Steps are split where the code awaits *)
(* or where two threads can interleave on shared state.                    *)
(***************************************************************************)

EXTENDS Integers

CONSTANTS
  Hooks,        \* runs of `sailor-hook event`
  Answerers,    \* attempts to answer: CLI runs and HTTP requests
  Sessions,     \* agent sessions, one inbox row each
  Kinds,        \* the kinds of hook event this instance launches
  None,         \* absence of a hook or of an answerer
  MaxRestarts   \* bound: how often a daemon that went down is started again

AllKinds == {"permission", "notification", "report", "anonymous"}

ASSUME NoneAssumption == None \notin Hooks /\ None \notin Answerers
ASSUME KindsAssumption == Kinds \subseteq AllKinds
ASSUME MaxRestartsAssumption == MaxRestarts \in Nat

VARIABLES
  shim,       \* shim[h]: "idle", "ready", "waiting", "done"
  kind,       \* kind[h]: which event the shim was run for
  sess,       \* sess[h]: the session it belongs to
  gaveUp,     \* gaveUp[h]: the shim's own deadline passed
  printed,    \* printed[h]: the decision on the shim's stdout, or "none"
  wire,       \* wire[h]: what the daemon has sent the shim: "none", a verdict,
              \*   "nodecision", or "closed"
  task,       \* task[h]: the daemon's task for the shim's connection
  chan,       \* chan[h]: content of the one-shot channel, or "none"
  waiting,    \* Pending.waiting: ids that have a sender in the registry
  row,        \* row[s]: pending_action_id and resolution of the session's row
  published,  \* ids some row has carried, so a phone may answer them
  ask,        \* ask[a]: "idle", "sent", "marking", "done"
  via,        \* via[a]: "cli" or "http"
  target,     \* target[a]: the id answered
  answer,     \* answer[a]: the verdict given
  told,       \* told[a]: "none", "ok", "refused" or "error"
  daemon,     \* "up" or "down"
  restarts,   \* how often the daemon was started again
  accepted,   \* history: the answer `resolve` accepted for h, or "none"
  winner      \* history: whose answer that was, or None

shimVars   == <<shim, kind, sess, gaveUp, printed>>
daemonVars == <<task, chan, waiting, row, daemon, restarts>>
askVars    == <<ask, via, target, answer, told>>
histVars   == <<accepted, winner>>
vars == <<shimVars, wire, daemonVars, published, askVars, histVars>>

Verdicts == {"allow", "deny"}

(* Connection states of the daemon's task for a hook:                      *)
(*   "none"     the shim has not connected                                 *)
(*   "backlog"  connected, its line written, not accepted yet              *)
(*   "reading"  accepted, the line not handled yet                         *)
(*   "applied"  the row is updated, the approval not registered yet        *)
(*   "parked"   waiting on the one-shot channel                            *)
(*   "replying" the row is marked, the answer not written yet              *)
(*   "idle"     waiting for the next line or for the end of the stream     *)
(*   "ended"    the task is over and its descriptor closed                 *)
OpenTasks == {"reading", "applied", "parked", "replying", "idle"}

NoRow == [id |-> None, resolution |-> "none"]

(* Approval-shaped events mint an id, answerable or not. *)
MintsId(k) == k \in {"permission", "notification"}

(* Only a PermissionRequest is waited for.  An "anonymous" event is a line *)
(* that asks to wait and carries no id: the wire format has it, the daemon *)
(* handles it, and no adapter sends it.                                    *)
Awaits(k) == k \in {"permission", "anonymous"}

ActionId(h) == IF MintsId(kind[h]) THEN h ELSE None

Init ==
  /\ shim = [h \in Hooks |-> "idle"]
  /\ kind \in [Hooks -> Kinds]
  /\ sess \in [Hooks -> Sessions]
  /\ gaveUp = [h \in Hooks |-> FALSE]
  /\ printed = [h \in Hooks |-> "none"]
  /\ wire = [h \in Hooks |-> "none"]
  /\ task = [h \in Hooks |-> "none"]
  /\ chan = [h \in Hooks |-> "none"]
  /\ waiting = {}
  /\ row = [s \in Sessions |-> NoRow]
  /\ published = {}
  /\ ask = [a \in Answerers |-> "idle"]
  /\ via \in [Answerers -> {"cli", "http"}]
  /\ target = [a \in Answerers |-> None]
  /\ answer \in [Answerers -> Verdicts]
  /\ told = [a \in Answerers |-> "none"]
  /\ daemon = "up"
  /\ restarts = 0
  /\ accepted = [h \in Hooks |-> "none"]
  /\ winner = [h \in Hooks |-> None]

-----------------------------------------------------------------------------
(* The shim.                                                               *)

(* The agent runs the hook; the payload parses and an adapter knows it. *)
Launch(h) ==
  /\ shim[h] = "idle"
  /\ shim' = [shim EXCEPT ![h] = "ready"]
  /\ UNCHANGED <<kind, sess, gaveUp, printed, wire, daemonVars, published,
                 askVars, histVars>>

(* The payload is not JSON, or no adapter models the event: the shim exits *)
(* with nothing printed and no connection made.                            *)
Skip(h) ==
  /\ shim[h] = "idle"
  /\ shim' = [shim EXCEPT ![h] = "done"]
  /\ UNCHANGED <<kind, sess, gaveUp, printed, wire, daemonVars, published,
                 askVars, histVars>>

(* The shim connects and writes its one line; it goes on to wait only if   *)
(* the event is decidable, and exits otherwise with the line still unread. *)
Deliver(h) ==
  /\ shim[h] = "ready"
  /\ daemon = "up"
  /\ shim' = [shim EXCEPT ![h] = IF Awaits(kind[h]) THEN "waiting" ELSE "done"]
  /\ task' = [task EXCEPT ![h] = "backlog"]
  /\ UNCHANGED <<kind, sess, gaveUp, printed, wire, chan, waiting, row,
                 daemon, restarts, published, askVars, histVars>>

(* Nobody listens, connecting fails, or the line cannot be written. *)
DropEvent(h) ==
  /\ shim[h] = "ready"
  /\ daemon = "down"
  /\ shim' = [shim EXCEPT ![h] = "done"]
  /\ UNCHANGED <<kind, sess, gaveUp, printed, wire, daemonVars, published,
                 askVars, histVars>>

(* What the shim makes of what it receives: only an explicit decision      *)
(* counts; "no decision", a closed connection or an error print nothing.   *)
DecisionFailsOpen(reply) == IF reply = "deny" THEN "deny" ELSE "allow"
DecisionUnparsed(reply) == reply
DecisionOnlyDenies(reply) == IF reply = "deny" THEN "deny" ELSE "none"
Decision(reply) == IF reply \in Verdicts THEN reply ELSE "none"

(* A reply, or the end of the stream, reaches the waiting shim. *)
Recv(h) ==
  /\ shim[h] = "waiting"
  /\ wire[h] # "none"
  /\ shim' = [shim EXCEPT ![h] = "done"]
  /\ printed' = [printed EXCEPT ![h] = Decision(wire[h])]
  /\ UNCHANGED <<kind, sess, gaveUp, wire, daemonVars, published, askVars,
                 histVars>>

(* The wait is under a timer, whatever the daemon does. *)
UnderNoTimer(h) == FALSE
UnderTimer(h) == shim[h] = "waiting"

(* `--wait-secs` passes first. *)
TimeOut(h) ==
  /\ UnderTimer(h)
  /\ shim' = [shim EXCEPT ![h] = "done"]
  /\ gaveUp' = [gaveUp EXCEPT ![h] = TRUE]
  /\ UNCHANGED <<kind, sess, printed, wire, daemonVars, published, askVars,
                 histVars>>

-----------------------------------------------------------------------------
(* The daemon's task for a hook's connection.                              *)

Accept(h) ==
  /\ daemon = "up"
  /\ task[h] = "backlog"
  /\ task' = [task EXCEPT ![h] = "reading"]
  /\ UNCHANGED <<shimVars, wire, chan, waiting, row, daemon, restarts,
                 published, askVars, histVars>>

(* An update that forgets to clear the resolution. *)
ApplyKeepsResolution(h) == row' = [row EXCEPT ![sess[h]].id = ActionId(h)]

(* Inbox::apply: the event replaces the row's id and clears what the last  *)
(* approval resolved to.                                                   *)
Apply(h) == row' = [row EXCEPT ![sess[h]] =
                      [id |-> ActionId(h), resolution |-> "none"]]

(* The event is applied and published; a task that must wait for an answer *)
(* goes on to register, one that was asked to wait without an id replies   *)
(* "no decision", any other reads on.                                      *)
HandleEvent(h) ==
  /\ daemon = "up"
  /\ task[h] = "reading"
  /\ Apply(h)
  /\ published' = published \union ({ActionId(h)} \ {None})
  /\ task' = [task EXCEPT ![h] = IF Awaits(kind[h]) /\ ActionId(h) # None
                                 THEN "applied" ELSE "idle"]
  /\ wire' = IF Awaits(kind[h]) /\ ActionId(h) = None
             THEN [wire EXCEPT ![h] = "nodecision"] ELSE wire
  /\ UNCHANGED <<shimVars, chan, waiting, daemon, restarts, askVars, histVars>>

Register(h) ==
  /\ daemon = "up"
  /\ task[h] = "applied"
  /\ waiting' = waiting \union {h}
  /\ task' = [task EXCEPT ![h] = "parked"]
  /\ UNCHANGED <<shimVars, wire, chan, row, daemon, restarts, published,
                 askVars, histVars>>

(* An answer that never reaches the row. *)
MarkNothing(h, v) == UNCHANGED row

(* Inbox::resolve: the row that still carries the id, if any, is marked. *)
Mark(h, v) ==
  row' = [s \in Sessions |->
            IF row[s].id = h THEN [id |-> h, resolution |-> v] ELSE row[s]]

(* The parked task wakes with the answer and marks the row. *)
WakeAndMark(h) ==
  /\ daemon = "up"
  /\ task[h] = "parked"
  /\ chan[h] \in Verdicts
  /\ Mark(h, chan[h])
  /\ task' = [task EXCEPT ![h] = "replying"]
  /\ UNCHANGED <<shimVars, wire, chan, waiting, daemon, restarts, published,
                 askVars, histVars>>

(* The answer is written down the held connection.  With the shim gone the *)
(* write fails and the task ends; the bytes are lost either way.           *)
Reply(h) ==
  /\ daemon = "up"
  /\ task[h] = "replying"
  /\ wire' = [wire EXCEPT ![h] = chan[h]]
  /\ task' = [task EXCEPT ![h] = IF shim[h] = "done" THEN "ended" ELSE "idle"]
  /\ UNCHANGED <<shimVars, chan, waiting, row, daemon, restarts, published,
                 askVars, histVars>>

(* The task only looks at its reader between two lines, not while parked. *)
SeesEndWhileParked(h) == task[h] \in {"idle", "parked"} /\ shim[h] = "done"
SeesEnd(h) == task[h] = "idle" /\ shim[h] = "done"

(* The reader sees the end of the stream once the shim has exited. *)
EndOfStream(h) ==
  /\ daemon = "up"
  /\ SeesEnd(h)
  /\ task' = [task EXCEPT ![h] = "ended"]
  /\ UNCHANGED <<shimVars, wire, chan, waiting, row, daemon, restarts,
                 published, askVars, histVars>>

-----------------------------------------------------------------------------
(* Answering.                                                              *)

(* Somebody answers an id a row has carried.  Without a daemon the attempt *)
(* fails at once.                                                          *)
Ask(a, h) ==
  /\ ask[a] = "idle"
  /\ h \in published
  /\ target' = [target EXCEPT ![a] = h]
  /\ ask' = [ask EXCEPT ![a] = IF daemon = "up" THEN "sent" ELSE "done"]
  /\ told' = [told EXCEPT ![a] = IF daemon = "up" THEN "none" ELSE "error"]
  /\ UNCHANGED <<shimVars, wire, daemonVars, published, via, answer, histVars>>

(* The registry once the sender of h is taken out, or only looked up. *)
RegistryKeeping(h) == waiting
RegistryWithout(h) == waiting \ {h}

(* Pending::resolve finds a sender: it is removed and the answer sent.     *)
(* After the removal the sender is this caller's own, so removing and      *)
(* sending are one step.  The CLI is acknowledged here; the HTTP handler   *)
(* still has the row to mark.                                              *)
ResolveWaiting(a) ==
  LET h == target[a] IN
  /\ daemon = "up"
  /\ ask[a] = "sent"
  /\ h \in waiting
  /\ waiting' = RegistryWithout(h)
  /\ chan' = [chan EXCEPT ![h] = answer[a]]
  /\ accepted' = [accepted EXCEPT ![h] = answer[a]]
  /\ winner' = [winner EXCEPT ![h] = a]
  /\ ask' = [ask EXCEPT ![a] = IF via[a] = "cli" THEN "done" ELSE "marking"]
  /\ told' = [told EXCEPT ![a] = IF via[a] = "cli" THEN "ok" ELSE "none"]
  /\ UNCHANGED <<shimVars, wire, task, row, daemon, restarts, published, via,
                 target, answer>>

(* Whether the caller hears that nothing is waiting. *)
OnlyHttpHears(a) == via[a] = "http" /\ target[a] \notin waiting
NothingWaits(a) == target[a] \notin waiting

(* Pending::resolve finds nothing on that id. *)
ResolveUnknown(a) ==
  /\ daemon = "up"
  /\ ask[a] = "sent"
  /\ NothingWaits(a)
  /\ ask' = [ask EXCEPT ![a] = "done"]
  /\ told' = [told EXCEPT ![a] = "refused"]
  /\ UNCHANGED <<shimVars, wire, daemonVars, published, via, target, answer,
                 histVars>>

(* The HTTP handler marks the row itself before it says ok. *)
MarkOverHttp(a) ==
  /\ daemon = "up"
  /\ ask[a] = "marking"
  /\ Mark(target[a], answer[a])
  /\ ask' = [ask EXCEPT ![a] = "done"]
  /\ told' = [told EXCEPT ![a] = "ok"]
  /\ UNCHANGED <<shimVars, wire, task, chan, waiting, daemon, restarts,
                 published, via, target, answer, histVars>>

-----------------------------------------------------------------------------
(* The daemon process.                                                     *)

(* Everything the daemon holds is memory and sockets: the registry, the    *)
(* rows and the tasks go, connected shims see the end of the stream after  *)
(* whatever was written, and answerers get no reply.                       *)
DaemonGone ==
  /\ daemon' = "down"
  /\ waiting' = {}
  /\ chan' = [h \in Hooks |-> "none"]
  /\ row' = [s \in Sessions |-> NoRow]
  /\ task' = [h \in Hooks |-> IF task[h] = "none" THEN "none" ELSE "ended"]
  /\ wire' = [h \in Hooks |-> IF task[h] # "none" /\ wire[h] = "none"
                              THEN "closed" ELSE wire[h]]
  /\ ask' = [a \in Answerers |-> IF ask[a] = "idle" THEN "idle" ELSE "done"]
  /\ told' = [a \in Answerers |-> IF ask[a] \in {"sent", "marking"}
                                  THEN "error" ELSE told[a]]
  /\ UNCHANGED <<shimVars, restarts, published, via, target, answer, histVars>>

(* The process is stopped or dies. *)
Crash ==
  /\ daemon = "up"
  /\ DaemonGone

(* accept fails, out of descriptors that phones and other hooks hold too:  *)
(* the error leaves accept_loop, and select! in serve ends the process.    *)
AcceptFails(h) ==
  /\ daemon = "up"
  /\ task[h] = "backlog"
  /\ DaemonGone

Restart ==
  /\ daemon = "down"
  /\ restarts < MaxRestarts
  /\ daemon' = "up"
  /\ restarts' = restarts + 1
  /\ UNCHANGED <<shimVars, wire, task, chan, waiting, row, published, askVars,
                 histVars>>

-----------------------------------------------------------------------------
ShimStep(h) ==
  Launch(h) \/ Skip(h) \/ Deliver(h) \/ DropEvent(h) \/ Recv(h) \/ TimeOut(h)

TaskStep(h) ==
  \/ Accept(h) \/ HandleEvent(h) \/ Register(h)
  \/ WakeAndMark(h) \/ Reply(h) \/ EndOfStream(h)

HandleDecision(a) == ResolveWaiting(a) \/ ResolveUnknown(a) \/ MarkOverHttp(a)

Next ==
  \/ \E h \in Hooks : ShimStep(h) \/ TaskStep(h) \/ AcceptFails(h)
  \/ \E a \in Answerers, h \in Hooks : Ask(a, h)
  \/ \E a \in Answerers : HandleDecision(a)
  \/ Crash
  \/ Restart

Spec == Init /\ [][Next]_vars

-----------------------------------------------------------------------------
(* Type invariant: every variable stays within the states the code has. *)
TypeOK ==
  /\ shim \in [Hooks -> {"idle", "ready", "waiting", "done"}]
  /\ kind \in [Hooks -> Kinds]
  /\ sess \in [Hooks -> Sessions]
  /\ gaveUp \in [Hooks -> BOOLEAN]
  /\ printed \in [Hooks -> Verdicts \union {"none"}]
  /\ wire \in [Hooks -> Verdicts \union {"none", "nodecision", "closed"}]
  /\ task \in [Hooks -> OpenTasks \union {"none", "backlog", "ended"}]
  /\ chan \in [Hooks -> Verdicts \union {"none"}]
  /\ waiting \in SUBSET Hooks
  /\ row \in [Sessions -> [id : Hooks \union {None},
                           resolution : Verdicts \union {"none"}]]
  /\ published \in SUBSET Hooks
  /\ ask \in [Answerers -> {"idle", "sent", "marking", "done"}]
  /\ via \in [Answerers -> {"cli", "http"}]
  /\ target \in [Answerers -> Hooks \union {None}]
  /\ answer \in [Answerers -> Verdicts]
  /\ told \in [Answerers -> {"none", "ok", "refused", "error"}]
  /\ daemon \in {"up", "down"}
  /\ restarts \in 0..MaxRestarts
  /\ accepted \in [Hooks -> Verdicts \union {"none"}]
  /\ winner \in [Hooks -> Answerers \union {None}]

(* No failure path ever prints a decision: what a shim prints is the       *)
(* verdict somebody gave for this very approval, and that answer was       *)
(* accepted (event.rs:14-15, pending.rs:9-12), whatever crashed, restarted *)
(* or timed out on the way.                                                *)
NeverAllowUnlessAnswered ==
  \A h \in Hooks : printed[h] # "none" =>
    \E a \in Answerers : /\ winner[h] = a
                         /\ target[a] = h
                         /\ answer[a] = printed[h]

(* Two answers to one approval are never both acknowledged: whoever is told*)
(* "ok" is the one whose answer the registry handed over                   *)
(* (pending.rs:41-48, also for an answer that raced another).              *)
OnlyTheWinnerIsTold ==
  \A a \in Answerers : told[a] = "ok" => winner[target[a]] = a

(* A row never shows a resolution that is not the accepted answer of the   *)
(* approval it currently carries: an answer to a superseded approval must  *)
(* not mark the next one (inbox.rs:154-171 matches on the id, update clears*)
(* the resolution at 109).                                                 *)
ResolutionIsTheRowsOwn ==
  \A s \in Sessions : row[s].resolution # "none" =>
    /\ row[s].id # None
    /\ sess[row[s].id] = s
    /\ accepted[row[s].id] = row[s].resolution

(* Every sender in the registry has its receiver parked on an empty channel*)
(* in a live task, so `tx.send` in resolve never fails (pending.rs:45-47)  *)
(* and no answer that was accepted meets a task that is gone.              *)
RegistryIsBacked ==
  \A h \in waiting :
    /\ daemon = "up"
    /\ task[h] = "parked"
    /\ chan[h] = "none"
    /\ accepted[h] = "none"

(* After an HTTP ok the session's row no longer offers the buttons for that*)
(* approval: it is marked with the answer, or it carries another event     *)
(* (gateway.rs:134-138 marks the row before it replies).                   *)
HttpOkMeansMarked ==
  \A a \in Answerers : told[a] = "ok" /\ via[a] = "http" =>
    \A s \in Sessions :
      row[s].id = target[a] => row[s].resolution = answer[a]

-----------------------------------------------------------------------------
(* The inductive invariant behind the properties above, part by part.      *)

(* The history of an accepted answer names the attempt it came from. *)
HistoryAgrees ==
  \A h \in Hooks :
    /\ accepted[h] = "none" <=> winner[h] = None
    /\ winner[h] # None =>
         /\ target[winner[h]] = h
         /\ answer[winner[h]] = accepted[h]
         /\ ask[winner[h]] \in {"marking", "done"}

(* An answer is the same wherever it is on its way: in the channel, on the *)
(* wire, on stdout.                                                        *)
AnswerOnItsWay ==
  \A h \in Hooks :
    /\ chan[h] # "none" => chan[h] = accepted[h]
    /\ wire[h] \in Verdicts => wire[h] = accepted[h]
    /\ printed[h] # "none" => printed[h] = accepted[h] /\ shim[h] = "done"
    /\ task[h] = "replying" => chan[h] \in Verdicts

(* A shim connects once: before that the daemon knows nothing of it. *)
NoTaskBeforeDelivery ==
  \A h \in Hooks : shim[h] \in {"idle", "ready"} => task[h] = "none"

(* Nothing is accepted for an approval that is not registered yet. *)
NotAcceptedBeforeRegistered ==
  \A h \in Hooks :
    task[h] \in {"none", "backlog", "reading", "applied"} => accepted[h] = "none"

(* What an answerer has been told agrees with whether its answer won. *)
AsksAgree ==
  \A a \in Answerers :
    /\ told[a] = "none" <=> ask[a] # "done"
    /\ ask[a] \in {"sent", "marking"} => target[a] \in Hooks
    /\ ask[a] = "marking" \/ told[a] = "ok" =>
         target[a] \in Hooks /\ winner[target[a]] = a

(* A row carries the id of an event of its own session. *)
RowsAreTheirSessions ==
  \A s \in Sessions : row[s].id # None => sess[row[s].id] = s

IndInv ==
  /\ TypeOK
  /\ HistoryAgrees
  /\ AnswerOnItsWay
  /\ NoTaskBeforeDelivery
  /\ NotAcceptedBeforeRegistered
  /\ AsksAgree
  /\ RowsAreTheirSessions
  /\ RegistryIsBacked
  /\ ResolutionIsTheRowsOwn
  /\ HttpOkMeansMarked

-----------------------------------------------------------------------------
(* The approval path implements the contract: at most one accepted answer  *)
(* per approval, stdout carries it or nothing, "ok" only to the winner.    *)
Outcome(h) == IF shim[h] # "done" THEN "open"
              ELSE IF printed[h] = "none" THEN "silent" ELSE printed[h]

Contract == INSTANCE ApprovalContract WITH
  verdict <- accepted,
  outcome <- [h \in Hooks |-> Outcome(h)]

ImplementsContract == Contract!Spec

-----------------------------------------------------------------------------
(* Liveness: the agent is never held longer than its own deadline. Only the*)
(* shim is scheduled; the daemon may hang and the phone never answer.      *)
HookTerminates ==
  \A h \in Hooks : shim[h] \in {"ready", "waiting"} ~> shim[h] = "done"

(* Liveness: an accepted answer is printed, unless the shim's own deadline *)
(* passes or the daemon, and with it the channel, goes away first.         *)
AnswerIsDelivered ==
  \A h \in Hooks : chan[h] # "none" ~>
    \/ printed[h] = accepted[h]
    \/ gaveUp[h]
    \/ daemon = "down"

(* Liveness: an accepted answer takes the buttons off the row, on the CLI  *)
(* path too, where nobody but the woken task marks it (server.rs:75-77).   *)
AnswerIsShown ==
  \A h \in Hooks : chan[h] # "none" ~>
    \/ row[sess[h]].id # h
    \/ row[sess[h]].resolution = accepted[h]
    \/ daemon = "down"

(* Liveness: whoever answers gets a reply or loses the daemon; an answer   *)
(* never blocks on the hook it is for.                                     *)
EveryAskIsReplied ==
  \A a \in Answerers : ask[a] = "sent" ~> told[a] # "none"

-----------------------------------------------------------------------------
(* What comments and messages of the code say of it, and the code does not *)
(* do.                                                                     *)

(* "`false` means there was nothing waiting on that id - already answered, *)
(* timed out, or never existed" (pending.rs:38-40) and "answered" against  *)
(* "too late" (approve.rs:4-6): an answer is only accepted for a hook that *)
(* still waits.                                                            *)
AcceptedOnlyWhileWaiting ==
  [][\A h \in Hooks :
       accepted'[h] # accepted[h] => shim[h] = "waiting"]_vars

(* The same lines from the other side: an answer to an approval that still *)
(* waits, was not answered and did not lose its daemon is not refused.     *)
RefusedOnlyIfNotWaiting ==
  [][\A a \in Answerers :
       told[a] # "refused" /\ told'[a] = "refused" =>
         \/ shim[target[a]] # "waiting"
         \/ accepted[target[a]] # "none"
         \/ wire[target[a]] = "closed"]_vars
=============================================================================
