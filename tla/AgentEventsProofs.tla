-------------------------- MODULE AgentEventsProofs --------------------------
(***************************************************************************)
(* Proofs about AgentEvents, for any number of hooks and sessions, any set *)
(* of agents installed together and any terminals.  The tables of AgentHooks*)
(* are constants: Decides is what they have to say together, and the rest  *)
(* is the order in which a hook, its line and its row come about.          *)
(***************************************************************************)
EXTENDS AgentEvents, TLAPS

Deciders == {"claude_code", "codex", "qwen"}

(* Hooks whose line is out. *)
Out == {"waiting", "refused", "killed", "done"}

(* Only they have a line, in one place at a time, an approval, a push, a   *)
(* decision or a row.                                                      *)
Sent ==
  /\ \A h \in wire \union accepted \union parked \union pushing : hook[h].phase \in Out
  /\ wire \cap accepted = {}
  /\ \A k \in Keys : row[k] # None => hook[row[k].by].phase \in Out
  /\ \A h \in Hooks : printed[h] # None => hook[h].phase \in Out

(* What is printed is one of the forms of the hook's agent. *)
Decided ==
  /\ DOMAIN printed = Hooks
  /\ \A h \in Hooks : printed[h] # None =>
       /\ hook[h].agent \in Deciders
       /\ \E allow \in BOOLEAN : printed[h] = RenderDecision(hook[h].agent, allow)

(* The terminal a row shows was told by a line of its session. *)
RowsAreTold ==
  \A k \in Keys : row[k] # None /\ row[k].terminal # None =>
    \E h \in Hooks : HandledHook(h) /\ Key(h) = k /\ hook[h].terminal = row[k].terminal

(* While an id that a hook found settled is sent, nobody mints another. *)
Minting == {"minting", "writing"}

Holds(h) ==
  hook[h].phase \in Launched /\ hook[h].found # None =>
    /\ IsId(file) /\ file = hook[h].found
    /\ hook[h].phase # "reading" => hook[h].host = hook[h].found
    /\ \A x \in Hooks : hook[x].phase \notin Minting

HostIdIsKept == ~misread => \A h \in Hooks : Holds(h)

IndInv ==
  /\ TypeOK /\ Sent /\ HeldOnlyForAnAnswer /\ NeverKilledWaiting /\ Decided
  /\ RowsAreTold /\ StateComesFromAPane /\ HostIdIsKept

-----------------------------------------------------------------------------
(* The tables.                                                             *)

LEMMA Agents ==
  KnownAgents = {"claude_code", "codex", "gemini", "cursor", "kimi", "qwen", "opencode", "pi"}
  BY DEF KnownAgents, Adapter

(* An event is decided on stdout exactly if the hook was installed to wait *)
(* for it, and only three agents have one.                                 *)
LEMMA Decides ==
  ASSUME NEW a \in KnownAgents, NEW e
  PROVE  IsDecidable(a, e) <=> WaitsForADecision(a, e)
  <1>1. CASE a = "claude_code"
    BY <1>1 DEF IsDecidable, WaitsForADecision, Adapter, ClaudeCode
  <1>2. CASE a = "codex"
    BY <1>2 DEF IsDecidable, WaitsForADecision, Adapter, Codex
  <1>3. CASE a = "qwen"
    BY <1>3 DEF IsDecidable, WaitsForADecision, Adapter, Qwen
  <1>4. CASE a = "gemini"
    BY <1>4 DEF IsDecidable, WaitsForADecision, Adapter, Gemini
  <1>5. CASE a = "cursor"
    BY <1>5 DEF IsDecidable, WaitsForADecision, Adapter, Cursor
  <1>6. CASE a = "kimi"
    BY <1>6 DEF IsDecidable, WaitsForADecision, Adapter, Kimi
  <1>7. CASE a = "opencode"
    BY <1>7 DEF IsDecidable, WaitsForADecision, Adapter, OpenCode
  <1>8. CASE a = "pi"
    BY <1>8 DEF IsDecidable, WaitsForADecision, Adapter, Pi
  <1> QED
    BY <1>1, <1>2, <1>3, <1>4, <1>5, <1>6, <1>7, <1>8, Agents

(* What is waited for has an id. *)
LEMMA DecidableHasId ==
  ASSUME NEW a, NEW e, WaitsForADecision(a, e)
  PROVE  MintsAnId(a, e)
  <1> DEFINE In(c) == "PermissionRequest" \in Adapter[a][c]
  <1>1. CASE a = "claude_code"
    <2>1. \A c \in Categories : In(c) <=> c = "approval_required"
      BY <1>1 DEF Adapter, ClaudeCode, Categories
    <2> QED
      BY <1>1, <2>1 DEF MintsAnId, CategoryOf, WaitsForADecision, Adapter, ClaudeCode, Categories
  <1>2. CASE a = "codex"
    <2>1. \A c \in Categories : In(c) <=> c = "approval_required"
      BY <1>2 DEF Adapter, Codex, Categories
    <2> QED
      BY <1>2, <2>1 DEF MintsAnId, CategoryOf, WaitsForADecision, Adapter, Codex, Categories
  <1>3. CASE a = "qwen"
    <2>1. \A c \in Categories : In(c) <=> c = "approval_required"
      BY <1>3 DEF Adapter, Qwen, Categories
    <2> QED
      BY <1>3, <2>1 DEF MintsAnId, CategoryOf, WaitsForADecision, Adapter, Qwen, Categories
  <1> QED
    BY <1>1, <1>2, <1>3 DEF WaitsForADecision

(* The time-out of a hook that is waited for outlives the wait. *)
LEMMA OutlivesTheWait ==
  ASSUME NEW a, NEW e, WaitsForADecision(a, e), NEW n \in 0..2
  PROVE  ~(n * 120 * 1000 >= TimeoutField(a, e) * MillisecondsPerUnit(a))
  BY DEF WaitsForADecision, TimeoutField, MillisecondsPerUnit

(* The forms of a decision. *)
LEMMA Forms ==
  ASSUME NEW a \in Deciders, NEW allow \in BOOLEAN
  PROVE  LET d == RenderDecision(a, allow) IN
         /\ d.updatedInput = (d.behavior = "allow" /\ a # "codex")
         /\ d.message = (d.behavior = "deny")
  BY DEF RenderDecision, Deciders, Adapter, ClaudeCode, Codex, Qwen

LEMMA RemainingInRange ==
  ASSUME NEW u \in Nat
  PROVE  Remaining(u) \in 0..100
  BY DEF Remaining

-----------------------------------------------------------------------------
(* Hooks: once a line is out, what it says of its event stays.             *)

Hook == Payloads \union {Phase("unborn"), Phase("ended")}

SamePayload(x) ==
  /\ hook'[x].agent = hook[x].agent /\ hook'[x].event = hook[x].event
  /\ hook'[x].session = hook[x].session /\ hook'[x].terminal = hook[x].terminal

Reports(x) ==
  hook[x].phase \in Launched =>
    hook[x].agent \in fleet /\ hook[x].event \in Reported(hook[x].agent)

HooksOK ==
  /\ fleet' = fleet
  /\ hook' \in [Hooks -> Hook]
  /\ \A x \in Hooks : Reports(x)'
  /\ \A x \in Hooks : hook[x].phase \in Out => hook'[x].phase \in Out /\ SamePayload(x)

LEMMA HasPayload ==
  ASSUME TypeOK, NEW h \in Hooks, hook[h].phase \in Launched
  PROVE  hook[h] \in Payloads
  BY DEF TypeOK, Phase, Launched

LEMMA GoesOn ==
  ASSUME TypeOK, NEW h \in Hooks, NEW from, NEW to, Goes(h, from, to),
         from \in Launched, to \in Launched, from \in Out => to \in Out, fleet' = fleet
  PROVE  HooksOK
  <1>1. hook[h] \in Payloads /\ hook' = [hook EXCEPT ![h] = [hook[h] EXCEPT !.phase = to]]
    BY HasPayload DEF Goes, TypeOK
  <1>2. [hook[h] EXCEPT !.phase = to] \in Payloads
    BY <1>1 DEF Payloads
  <1>3. hook' \in [Hooks -> Hook]
    BY <1>1, <1>2 DEF TypeOK, Hook
  <1>4. /\ \A x \in Hooks \ {h} : hook'[x] = hook[x]
        /\ hook'[h].phase = to /\ SamePayload(h) /\ hook[h].phase = from
    BY <1>1, <1>2 DEF TypeOK, Payloads, SamePayload, Goes
  <1>5. ASSUME NEW x \in Hooks
        PROVE  Reports(x)' /\ (hook[x].phase \in Out => hook'[x].phase \in Out /\ SamePayload(x))
    <2>1. CASE x = h
      BY <1>4, <2>1 DEF TypeOK, Reports, SamePayload
    <2>2. CASE x # h
      BY <1>4, <2>2 DEF TypeOK, Reports, SamePayload
    <2> QED
      BY <2>1, <2>2
  <1> QED
    BY <1>3, <1>5 DEF HooksOK

LEMMA StampsOn ==
  ASSUME TypeOK, NEW h \in Hooks, NEW id \in Hooks \union {None}, Stamps(h, id),
         hook[h].phase \in {"reading", "minting", "writing"}, fleet' = fleet
  PROVE  HooksOK
  <1> DEFINE new == [hook[h] EXCEPT !.phase = "sending", !.host = id]
  <1>1. hook[h] \in Payloads /\ hook' = [hook EXCEPT ![h] = new]
    BY HasPayload DEF Stamps, TypeOK, Launched, Phases
  <1>2. new \in Payloads /\ new.agent = hook[h].agent /\ new.event = hook[h].event
    BY <1>1 DEF Payloads, Launched, Phases
  <1>3. hook' \in [Hooks -> Hook]
    BY <1>1, <1>2 DEF TypeOK, Hook
  <1>4. (\A x \in Hooks \ {h} : hook'[x] = hook[x]) /\ hook'[h] = new
    BY <1>1 DEF TypeOK
  <1>5. ASSUME NEW x \in Hooks
        PROVE  Reports(x)' /\ (hook[x].phase \in Out => hook'[x].phase \in Out /\ SamePayload(x))
    <2>1. CASE x = h
      BY <1>2, <1>4, <2>1 DEF TypeOK, Reports, Out, Launched, Phases
    <2>2. CASE x # h
      BY <1>4, <2>2 DEF TypeOK, Reports, SamePayload
    <2> QED
      BY <2>1, <2>2
  <1> QED
    BY <1>3, <1>5 DEF HooksOK

LEMMA EndsThere ==
  ASSUME TypeOK, NEW h \in Hooks, Ends(h), hook[h].phase \notin Out, fleet' = fleet
  PROVE  HooksOK
  <1>1. hook' \in [Hooks -> Hook]
    BY DEF Ends, TypeOK, Hook
  <1>2. (\A x \in Hooks \ {h} : hook'[x] = hook[x]) /\ hook'[h].phase = "ended"
    BY DEF Ends, TypeOK, Phase
  <1> QED
    BY <1>1, <1>2 DEF HooksOK, Reports, SamePayload, TypeOK, Launched

LEMMA HooksStay ==
  ASSUME TypeOK, hook' = hook, fleet' = fleet
  PROVE  HooksOK
  BY DEF HooksOK, Reports, SamePayload, TypeOK, Hook

(* A hook starts with a payload that its agent reports. *)
LEMMA LaunchOK ==
  ASSUME TypeOK, NEW h \in Hooks, NEW a \in fleet, NEW e \in Reported(a),
         NEW s \in Sessions \union {Anonymous}, NEW env \in Envs, NEW c \in ContextsOf(a, e),
         Launch(h, a, e, s, env, c)
  PROVE  HooksOK
  <1> DEFINE new == IF ~Handled(a, e) THEN Phase("ended")
                    ELSE [phase |-> "reading", agent |-> a, event |-> e, session |-> s,
                          terminal |-> Detect(env), context |-> c, found |-> SettledId,
                          host |-> None, age |-> 0]
  <1>1. fleet' = fleet /\ hook' = [hook EXCEPT ![h] = new] /\ hook[h].phase = "unborn"
    BY DEF Launch
  <1>2. a \in KnownAgents
    BY FleetsAssumption DEF TypeOK
  <1>3. c \in Contexts
    BY UsagesAssumption, RemainingInRange DEF ContextsOf, Contexts
  <1>4. Detect(env) \in Terminals
    BY DEF Terminals
  <1>10. SettledId \in Hooks \union {None}
    BY DEF SettledId, IsId, TypeOK
  <1>5. new \in Hook
    BY <1>2, <1>3, <1>4, <1>10 DEF Hook, Payloads, Launched, Phases
  <1>6. hook' \in [Hooks -> Hook]
    BY <1>1, <1>5 DEF TypeOK, Hook
  <1>7. (\A x \in Hooks \ {h} : hook'[x] = hook[x]) /\ hook'[h] = new
    BY <1>1 DEF TypeOK
  <1>8. new.phase \in Launched => new.agent = a /\ new.event = e
    BY DEF Phase, Launched
  <1>9. ASSUME NEW x \in Hooks
        PROVE  Reports(x)' /\ (hook[x].phase \in Out => hook'[x].phase \in Out /\ SamePayload(x))
    <2>1. CASE x = h
      BY <1>1, <1>7, <1>8, <2>1 DEF Reports, Out
    <2>2. CASE x # h
      BY <1>1, <1>7, <2>2 DEF TypeOK, Reports, SamePayload
    <2> QED
      BY <2>1, <2>2
  <1> QED
    BY <1>1, <1>6, <1>9 DEF HooksOK

(* Time passes for those who wait. *)
LEMMA TickOK ==
  ASSUME TypeOK, Tick
  PROVE  HooksOK
  <1>1. ASSUME NEW x \in Hooks
        PROVE  /\ hook'[x] \in Hook /\ Reports(x)'
               /\ (hook[x].phase \in Out => hook'[x].phase \in Out /\ SamePayload(x))
    <2>1. CASE x \notin Waiting
      BY <2>1 DEF Tick, TypeOK, Hook, Reports, SamePayload, agentVars
    <2>2. CASE x \in Waiting
      <3>1. hook[x] \in Payloads
        BY <2>2, HasPayload DEF Waiting, Launched, Phases
      <3>2. hook'[x] = [hook[x] EXCEPT !.age = hook[x].age + 1]
        BY <2>2 DEF Tick
      <3>3. hook[x].age \in 0..2 /\ hook[x].age * 120 < 240
        BY <2>2, <3>1 DEF Tick, Waited, APPROVAL_WAIT_SECS, Payloads
      <3>4. hook[x].age + 1 \in 0..2
        BY <3>3
      <3>5. hook'[x] \in Payloads
        BY <3>1, <3>2, <3>4 DEF Payloads
      <3>6. hook'[x].phase = hook[x].phase /\ SamePayload(x)
        BY <3>1, <3>2 DEF Payloads, SamePayload
      <3> QED
        BY <3>5, <3>6 DEF TypeOK, Reports, Hook, SamePayload, Tick, agentVars
    <2> QED
      BY <2>1, <2>2
  <1>2. DOMAIN hook' = Hooks /\ hook' = [x \in Hooks |-> hook'[x]]
    BY DEF Tick
  <1>3. hook' \in [Hooks -> Hook]
    BY <1>1, <1>2
  <1> QED
    BY <1>1, <1>3 DEF HooksOK, Tick, agentVars

(* Any step. *)
LEMMA HooksStep ==
  ASSUME TypeOK, [Next]_vars
  PROVE  HooksOK
  <1> USE DEF agentVars, shimVars, daemonVars
  <1>1. CASE Tick
    BY <1>1, TickOK
  <1>2. CASE \/ Shutdown \/ PollStarts \/ UNCHANGED vars
             \/ \E state \in HerdrStates \union {None} : PollReturns(state)
             \/ \E h \in Hooks : Accept(h)
    BY <1>2, HooksStay DEF Shutdown, PollStarts, PollReturns, Accept, vars
  <1>3. ASSUME NEW h \in Hooks, Report(h)
        PROVE  HooksOK
    BY <1>3, LaunchOK DEF Report
  <1>4. ASSUME NEW h \in Hooks, ReadHostId(h)
        PROVE  HooksOK
    <2>1. fleet' = fleet /\ file \in Hooks \union {None, Blank}
      BY <1>4 DEF ReadHostId, TypeOK
    <2>2. CASE IsId(file)
      BY <1>4, <2>1, <2>2, StampsOn DEF ReadHostId, IsId
    <2>3. CASE ~IsId(file)
      BY <1>4, <2>1, <2>3, GoesOn DEF ReadHostId, Launched, Phases, Out
    <2> QED
      BY <2>2, <2>3
  <1>5. ASSUME NEW h \in Hooks, TruncateHostId(h) \/ MisreadHostId(h)
        PROVE  HooksOK
    BY <1>5, GoesOn DEF TruncateHostId, MisreadHostId, Launched, Phases, Out
  <1>6. ASSUME NEW h \in Hooks, WriteHostId(h) \/ MintFails(h)
        PROVE  HooksOK
    BY <1>6, StampsOn DEF WriteHostId, MintFails
  <1>7. ASSUME NEW h \in Hooks, Send(h)
        PROVE  HooksOK
    BY <1>7, GoesOn DEF Send, Launched, Phases, Out
  <1>8. ASSUME NEW h \in Hooks, DropEvent(h)
        PROVE  HooksOK
    BY <1>8, EndsThere DEF DropEvent, Out
  <1>9. ASSUME NEW h \in Hooks, TimeOut(h)
        PROVE  HooksOK
    <2>1. CASE OutOfTime(h)
      BY <1>9, <2>1, GoesOn DEF TimeOut, Launched, Phases, Out
    <2>2. CASE ~OutOfTime(h)
      BY <1>9, <2>2, GoesOn DEF TimeOut, Launched, Phases, Out
    <2> QED
      BY <2>1, <2>2
  <1>10. ASSUME NEW h \in Hooks, Die(h)
         PROVE  HooksOK
    BY <1>10, GoesOn, EndsThere DEF Die, Launched, Phases, Out
  <1>11. ASSUME NEW h \in Hooks, HandleLine(h)
         PROVE  HooksOK
    <2>1. CASE hook' = hook
      BY <1>11, <2>1, HooksStay DEF HandleLine
    <2>2. CASE hook' # hook
      <3>1. Goes(h, "waiting", "refused") /\ fleet' = fleet
        BY <1>11, <2>2 DEF HandleLine, Goes
      <3> QED
        BY <3>1, GoesOn DEF Launched, Phases, Out
    <2> QED
      BY <2>1, <2>2
  <1>12. ASSUME NEW h \in Hooks, DeliverPush(h)
         PROVE  HooksOK
    BY <1>12, HooksStay DEF DeliverPush
  <1>13. ASSUME NEW h \in Hooks, NEW allow \in BOOLEAN, Answer(h, allow)
         PROVE  HooksOK
    <2>1. CASE Goes(h, "waiting", "done")
      BY <1>13, <2>1, GoesOn DEF Answer, Launched, Phases, Out
    <2>2. CASE hook' = hook
      BY <1>13, <2>2, HooksStay DEF Answer
    <2> QED
      BY <1>13, <2>1, <2>2 DEF Answer
  <1> QED
    BY <1>1, <1>2, <1>3, <1>4, <1>5, <1>6, <1>7, <1>8, <1>9, <1>10, <1>11, <1>12, <1>13
       DEF Next, Mint

-----------------------------------------------------------------------------
(* Rows.                                                                   *)

RowsOK ==
  /\ row \in [Keys -> Rows \union {None}]
  /\ \A k \in Keys : row[k] # None => Key(row[k].by) = k

LEMMA KeyIsAKey ==
  ASSUME TypeOK, NEW h \in Hooks, hook[h].phase \in Launched
  PROVE  Key(h) \in Keys
  <1>1. hook[h] \in Payloads
    BY HasPayload
  <1>2. hook[h].agent \in KnownAgents /\ hook[h].session \in Sessions \union {Anonymous}
    BY <1>1 DEF Payloads
  <1> QED
    BY <1>2 DEF Key, Keys

(* What an event folds into is a row. *)
LEMMA FoldIsARow ==
  ASSUME TypeOK, NEW h \in Hooks, hook[h].phase \in Launched
  PROVE  Fold(h) \in Rows /\ Fold(h).by = h
  <1>1. hook[h] \in Payloads
    BY HasPayload
  <1>2. hook[h].host \in Hooks \union {None} /\ hook[h].terminal \in Terminals /\ hook[h].context \in Contexts
    BY <1>1 DEF Payloads
  <1>3. row[Key(h)] \in Rows \union {None}
    BY KeyIsAKey DEF TypeOK
  <1>4. CASE row[Key(h)] = None
    BY <1>2, <1>4 DEF Fold, Rows, Contexts
  <1>5. CASE row[Key(h)] # None
    <2>1. /\ row[Key(h)].terminal \in Terminals \union {None} /\ row[Key(h)].context \in Contexts
          /\ row[Key(h)].state \in HerdrStates \union {None}
      BY <1>3, <1>5 DEF Rows
    <2> QED
      BY <1>2, <1>5, <2>1 DEF Fold, Rows, Kept
  <1> QED
    BY <1>4, <1>5

(* A line out of wire has a payload. *)
LEMMA OutIsLaunched == Out \subseteq Launched
  BY DEF Out, Launched, Phases

NextKey(x) == SessionKey(hook'[x].agent, hook'[x].session)

LEMMA RowsStep ==
  ASSUME TypeOK, Sent, [Next]_vars
  PROVE  RowsOK'
  <1> USE OutIsLaunched
  <1>1. HooksOK
    BY HooksStep
  <1>2. ASSUME NEW k \in Keys, row[k] # None
        PROVE  NextKey(row[k].by) = k
    <2>1. row[k].by \in Hooks /\ hook[row[k].by].phase \in Out /\ Key(row[k].by) = k
      BY <1>2 DEF TypeOK, Sent, Rows
    <2>2. SamePayload(row[k].by)
      BY <1>1, <2>1 DEF HooksOK
    <2> QED
      BY <2>1, <2>2 DEF SamePayload, Key, NextKey
  <1>3. CASE row' = row
    BY <1>2, <1>3 DEF RowsOK, TypeOK, Key, NextKey
  <1>4. ASSUME NEW h \in Hooks, HandleLine(h)
        PROVE  RowsOK'
    <2>1. hook[h].phase \in Out
      BY <1>4 DEF HandleLine, Free, Sent
    <2>2. Key(h) \in Keys /\ Fold(h) \in Rows /\ Fold(h).by = h
      BY <2>1, KeyIsAKey, FoldIsARow
    <2>3. row' = [row EXCEPT ![Key(h)] = Fold(h)]
      BY <1>4 DEF HandleLine
    <2>4. NextKey(h) = Key(h)
      BY <1>1, <2>1 DEF HooksOK, SamePayload, Key, NextKey
    <2>5. row' \in [Keys -> Rows \union {None}]
      BY <2>2, <2>3 DEF TypeOK
    <2>6. \A k \in Keys : row'[k] = IF k = Key(h) THEN Fold(h) ELSE row[k]
      BY <2>3 DEF TypeOK
    <2>7. ASSUME NEW k \in Keys, row'[k] # None
          PROVE  NextKey(row'[k].by) = k
      BY <1>2, <2>2, <2>4, <2>6, <2>7
    <2> QED
      BY <2>5, <2>7 DEF RowsOK, Key, NextKey
  <1>5. ASSUME NEW new \in [Keys -> Rows \union {None}], row' = new,
               \A k \in Keys : new[k] # None => row[k] # None /\ new[k].by = row[k].by
        PROVE  RowsOK'
    <2>1. ASSUME NEW k \in Keys, row'[k] # None
          PROVE  NextKey(row'[k].by) = k
      <3>1. /\ row[k] # None /\ row'[k].by = row[k].by /\ row[k].by \in Hooks
            /\ hook[row[k].by].phase \in Out /\ Key(row[k].by) = k
        BY <1>5, <2>1 DEF TypeOK, Sent, Rows
      <3>2. SamePayload(row[k].by)
        BY <1>1, <3>1 DEF HooksOK
      <3> QED
        BY <3>1, <3>2 DEF SamePayload, Key, NextKey
    <2> QED
      BY <1>5, <2>1 DEF RowsOK, Key, NextKey
  <1>6. ASSUME NEW h \in Hooks, NEW allow \in BOOLEAN, Answer(h, allow)
        PROVE  RowsOK'
    <2> DEFINE k == Key(h)
    <2>1. CASE ~(row[k] # None /\ row[k].by = h)
      BY <1>3, <1>6, <2>1 DEF Answer
    <2>2. CASE row[k] # None /\ row[k].by = h
      <3>1. k \in Keys
        BY <1>6, KeyIsAKey DEF Answer, Sent
      <3>2. row' = [row EXCEPT ![k] = [row[k] EXCEPT !.resolved = TRUE]] /\ row[k] \in Rows
        BY <1>6, <2>2, <3>1 DEF Answer, TypeOK
      <3>3. [row[k] EXCEPT !.resolved = TRUE] \in Rows /\ [row[k] EXCEPT !.resolved = TRUE].by = row[k].by
        BY <3>2 DEF Rows
      <3> HIDE DEF k
      <3>4. row' \in [Keys -> Rows \union {None}]
        BY <3>2, <3>3 DEF TypeOK
      <3>5. \A j \in Keys : row'[j] # None => row[j] # None /\ row'[j].by = row[j].by
        BY <2>2, <3>1, <3>2, <3>3 DEF TypeOK
      <3> QED
        BY <1>5, <3>4, <3>5
    <2> QED
      BY <2>1, <2>2
  <1>7. ASSUME NEW state \in HerdrStates \union {None}, PollReturns(state)
        PROVE  RowsOK'
    <2>1. row' = [k \in Keys |-> IF state # None /\ InAPane(k)
                                THEN [row[k] EXCEPT !.state = state] ELSE row[k]]
      BY <1>7 DEF PollReturns
    <2>2. ASSUME NEW k \in Keys
          PROVE  /\ row'[k] \in Rows \union {None}
                 /\ row'[k] # None => row[k] # None /\ row'[k].by = row[k].by
      <3>1. CASE state # None /\ InAPane(k)
        <4>1. row[k] \in Rows /\ row[k] # None
          BY <3>1 DEF InAPane, TypeOK
        <4>2. [row[k] EXCEPT !.state = state] \in Rows /\ [row[k] EXCEPT !.state = state].by = row[k].by
          BY <4>1 DEF Rows
        <4> QED
          BY <2>1, <3>1, <4>1, <4>2
      <3>2. CASE ~(state # None /\ InAPane(k))
        BY <2>1, <3>2 DEF TypeOK
      <3> QED
        BY <3>1, <3>2
    <2>3. row' \in [Keys -> Rows \union {None}]
      BY <2>1, <2>2
    <2> QED
      BY <1>5, <2>2, <2>3
  <1> QED
    BY <1>3, <1>4, <1>6, <1>7
       DEF Next, Mint, Report, Launch, Shutdown, Tick, ReadHostId, MisreadHostId, TruncateHostId, WriteHostId,
           MintFails, Send, DropEvent, TimeOut, Die, Accept, DeliverPush, PollStarts, daemonVars, vars

(* Type correctness, one step. *)
LEMMA TypeStep ==
  ASSUME TypeOK, Sent, [Next]_vars
  PROVE  TypeOK'
  <1>1. HooksOK /\ RowsOK'
    BY HooksStep, RowsStep
  <1>2. active' \in BOOLEAN
    <2>1. CASE active' = active \/ Shutdown
      BY <2>1 DEF Shutdown, TypeOK
    <2>2. ASSUME NEW h \in Hooks, Report(h)
          PROVE  active' \in BOOLEAN
      BY <2>2 DEF Report, Launch, TypeOK
    <2> QED
      BY <2>1, <2>2
              DEF Next, Mint, Tick, ReadHostId, MisreadHostId, TruncateHostId, WriteHostId,
           MintFails, Send, DropEvent, TimeOut, Die, Accept, HandleLine, DeliverPush,
           Answer, PollStarts, PollReturns, agentVars, shimVars, daemonVars, vars
  <1>5. polling' \in BOOLEAN
    <2>1. CASE polling' = polling \/ PollStarts \/ \E state \in HerdrStates \union {None} : PollReturns(state)
      BY <2>1 DEF PollStarts, PollReturns, TypeOK
    <2> QED
      BY <2>1
              DEF Next, Mint, Report, Launch, Shutdown, Tick, ReadHostId, MisreadHostId,
           TruncateHostId, WriteHostId, MintFails, Send, DropEvent, TimeOut, Die, Accept,
           HandleLine, DeliverPush, Answer, agentVars, shimVars, daemonVars, vars
  <1>6. misread' \in BOOLEAN
    <2>1. CASE misread' = misread \/ \E h \in Hooks : MisreadHostId(h)
      BY <2>1 DEF MisreadHostId, TypeOK
    <2> QED
      BY <2>1
              DEF Next, Mint, Report, Launch, Shutdown, Tick, ReadHostId, TruncateHostId,
           WriteHostId, MintFails, Send, DropEvent, TimeOut, Die, Accept, HandleLine,
           DeliverPush, Answer, PollStarts, PollReturns, agentVars, shimVars, daemonVars,
           vars
  <1>4. file' \in Hooks \union {None, Blank}
    BY DEF TypeOK, Next, Mint, Report, Launch, Shutdown, Tick, ReadHostId, MisreadHostId, TruncateHostId, WriteHostId,
           MintFails, Send, DropEvent, TimeOut, Die, Accept, HandleLine, DeliverPush, Answer, PollStarts, PollReturns,
           agentVars, shimVars, daemonVars, vars
  <1>3. wire' \union accepted' \union parked' \union pushing' \subseteq Hooks
    BY DEF TypeOK, Next, Mint, Report, Launch, Shutdown, Tick, ReadHostId, MisreadHostId, TruncateHostId, WriteHostId,
           MintFails, Send, DropEvent, TimeOut, Die, Accept, HandleLine, DeliverPush, Answer, PollStarts, PollReturns,
           agentVars, shimVars, daemonVars, vars
  <1> QED
    BY <1>1, <1>2, <1>3, <1>4, <1>5, <1>6 DEF TypeOK, HooksOK, RowsOK, Reports, Hook

-----------------------------------------------------------------------------
(* What is sent, held, decided and known of a terminal.                    *)

(* A hook that gets a line, an approval, a push, a decision or a row has   *)
(* its line out.                                                           *)
LEMMA SentStep ==
  ASSUME TypeOK, Sent, Decided, [Next]_vars
  PROVE  Sent'
  <1> USE DEF agentVars, shimVars, daemonVars
  <1>1. \A x \in Hooks : hook[x].phase \in Out => hook'[x].phase \in Out
    BY HooksStep DEF HooksOK
  <1>2. \A x \in wire \union accepted \union parked \union pushing : x \in Hooks /\ hook'[x].phase \in Out
    BY <1>1 DEF TypeOK, Sent
  <1>3. \A k \in Keys : row[k] # None => row[k].by \in Hooks /\ hook'[row[k].by].phase \in Out
    BY <1>1 DEF TypeOK, Sent, Rows
  <1>4. \A x \in Hooks : printed[x] # None => hook'[x].phase \in Out
    BY <1>1 DEF Sent
  <1>5. ASSUME NEW h \in Hooks, Send(h)
        PROVE  Sent'
    <2>1. hook'[h].phase \in Out
      <3>1. hook[h] \in Payloads
        BY <1>5, HasPayload DEF Send, Goes, Launched, Phases
      <3> QED
        BY <1>5, <3>1 DEF Send, Goes, Out, TypeOK, Payloads
    <2>2. h \notin accepted
      BY <1>5 DEF Send, Goes, Out, Sent
    <2> QED
      BY <1>2, <1>3, <1>4, <1>5, <2>1, <2>2 DEF Send, Sent
  <1>11. ASSUME NEW h \in Hooks, Accept(h)
         PROVE  Sent'
    BY <1>2, <1>3, <1>4, <1>11 DEF Accept, Sent
  <1>6. ASSUME NEW h \in Hooks, HandleLine(h)
        PROVE  Sent'
    <2>1. h \in accepted /\ hook[h].phase \in Launched
      BY <1>6, OutIsLaunched DEF HandleLine, Free, Sent
    <2>2. hook'[h].phase \in Out
      BY <1>2, <2>1
    <2>3. \A k \in Keys : row'[k] = IF k = Key(h) THEN Fold(h) ELSE row[k]
      BY <1>6 DEF HandleLine, TypeOK
    <2>4. Fold(h).by = h
      BY <2>1, FoldIsARow
    <2>5. \A k \in Keys : row'[k] # None => hook'[row'[k].by].phase \in Out
      BY <1>3, <2>2, <2>3, <2>4
    <2>6. /\ parked' \union pushing' \subseteq parked \union pushing \union {h}
          /\ wire' = wire /\ accepted' \subseteq accepted
      BY <1>6 DEF HandleLine
    <2>7. printed' = printed
      BY <1>6 DEF HandleLine
    <2> QED
      BY <1>2, <1>4, <2>2, <2>5, <2>6, <2>7 DEF Sent
  <1>7. ASSUME NEW h \in Hooks, DeliverPush(h)
        PROVE  Sent'
    BY <1>2, <1>3, <1>4, <1>7 DEF DeliverPush, Sent
  <1>8. ASSUME NEW h \in Hooks, NEW allow \in BOOLEAN, Answer(h, allow)
        PROVE  Sent'
    <2>1. \A k \in Keys : row'[k] # None => hook'[row'[k].by].phase \in Out
      <3> TAKE k \in Keys
      <3>1. CASE row'[k] = row[k]
        BY <1>3, <3>1
      <3>2. CASE row'[k] # row[k]
        <4>1. k = Key(h) /\ row[k] # None /\ row'[k] = [row[k] EXCEPT !.resolved = TRUE]
          BY <1>8, <3>2 DEF Answer, TypeOK
        <4>2. row'[k].by = row[k].by
          BY <4>1 DEF TypeOK, Rows
        <4> QED
          BY <1>3, <4>1, <4>2
      <3> QED
        BY <3>1, <3>2
    <2>2. \A x \in Hooks : printed'[x] # None => hook'[x].phase \in Out
      <3>1. hook'[h].phase \in Out
        BY <1>2, <1>8 DEF Answer
      <3>2. \A x \in Hooks : x # h => printed'[x] = printed[x]
        BY <1>8 DEF Answer, Decided
      <3> QED
        BY <1>4, <3>1, <3>2
    <2> QED
      BY <1>2, <1>8, <2>1, <2>2 DEF Answer, Sent
  <1>9. ASSUME NEW state \in HerdrStates \union {None}, PollReturns(state)
        PROVE  Sent'
    <2>1. \A k \in Keys : row'[k] # None => row[k] # None /\ row'[k].by = row[k].by
      <3> TAKE k \in Keys
      <3>1. row'[k] = IF state # None /\ InAPane(k) THEN [row[k] EXCEPT !.state = state] ELSE row[k]
        BY <1>9 DEF PollReturns
      <3>2. InAPane(k) => row[k] \in Rows /\ row[k] # None
        BY DEF InAPane, TypeOK
      <3> QED
        BY <3>1, <3>2 DEF Rows
    <2> QED
      BY <1>2, <1>3, <1>4, <1>9, <2>1 DEF PollReturns, Sent
  <1>10. CASE UNCHANGED <<printed, wire, accepted, parked, pushing, row>>
    BY <1>2, <1>3, <1>4, <1>10 DEF Sent
  <1> QED
    BY <1>5, <1>6, <1>7, <1>8, <1>9, <1>10, <1>11
       DEF Next, Mint, Report, Launch, Shutdown, Tick, ReadHostId, MisreadHostId, TruncateHostId, WriteHostId,
           MintFails, DropEvent, TimeOut, Die, PollStarts, vars

(* Who waits: what a hook's phase, its line and its approval say.          *)
HeldBy(h) ==
  /\ hook[h].phase \notin {"refused", "killed"}
  /\ hook[h].phase = "waiting" /\ h \notin wire \union accepted => h \in parked
  /\ hook[h].phase = "waiting" => WaitsForADecision(hook[h].agent, hook[h].event)

LEMMA Held == HeldOnlyForAnAnswer /\ NeverKilledWaiting <=> \A h \in Hooks : HeldBy(h)
  BY DEF HeldOnlyForAnAnswer, NeverKilledWaiting, HeldBy

(* Whoever waits has an id and time enough.                                *)
LEMMA Waiter ==
  ASSUME TypeOK, NEW h \in Hooks, HeldBy(h), hook[h].phase = "waiting"
  PROVE  Waits(h) /\ HasId(h) /\ ~OutOfTime(h)
  <1>1. hook[h] \in Payloads
    BY HasPayload DEF Launched, Phases
  <1>2. hook[h].agent \in KnownAgents /\ hook[h].age \in 0..2
    BY <1>1 DEF Payloads
  <1> QED
    BY <1>2, Decides, DecidableHasId, OutlivesTheWait DEF HeldBy, Waits, HasId, OutOfTime, Waited

(* No hook begins to wait but by sending a line it has to wait for.        *)
LEMMA StillHeld ==
  ASSUME TypeOK, NEW x \in Hooks, HeldBy(x), HooksOK,
         hook'[x].phase = "waiting" => hook[x].phase = "waiting",
         hook'[x].phase \notin {"refused", "killed"},
         x \in wire \union accepted => x \in wire' \union accepted' \/ x \in parked',
         x \in parked => x \in parked' \/ hook'[x].phase # "waiting"
  PROVE  HeldBy(x)'
  BY DEF HeldBy, HooksOK, SamePayload, Out

LEMMA HeldStep ==
  ASSUME TypeOK, Sent, \A h \in Hooks : HeldBy(h), [Next]_vars, NEW x \in Hooks
  PROVE  HeldBy(x)'
  <1> USE DEF agentVars, shimVars, daemonVars
  <1>1. HooksOK
    BY HooksStep
  <1>2. CASE /\ hook'[x] = hook[x] /\ parked \subseteq parked'
             /\ wire \union accepted \subseteq wire' \union accepted'
    BY <1>1, <1>2, StillHeld DEF HeldBy
  <1>3. ASSUME NEW h \in Hooks, Report(h)
        PROVE  HeldBy(x)'
    <2>1. /\ hook'[x] = hook[x] \/ hook'[x].phase \in {"reading", "ended"}
          /\ wire' = wire /\ accepted' = accepted /\ parked' = parked
      BY <1>3 DEF Report, Launch, TypeOK, Phase
    <2> QED
      BY <1>1, <1>2, <2>1, StillHeld
  <1>4. ASSUME NEW h \in Hooks, ReadHostId(h) \/ MisreadHostId(h) \/ Mint(h) \/ DropEvent(h) \/ Die(h)
        PROVE  HeldBy(x)'
    <2>1. /\ wire' = wire /\ accepted' = accepted /\ parked' = parked
          /\ \/ hook'[x] = hook[x]
             \/ hook'[x].phase \in {"sending", "minting", "writing", "ended", "done"}
      <3>1. CASE x # h
        BY <1>4, <3>1 DEF ReadHostId, MisreadHostId, Mint, TruncateHostId, WriteHostId, MintFails, DropEvent,
                  Die, Goes, Stamps, Ends, TypeOK
      <3>2. CASE x = h
        <4>1. CASE Ends(h)
          BY <1>4, <3>2, <4>1 DEF ReadHostId, MisreadHostId, Mint, TruncateHostId, WriteHostId, MintFails, DropEvent,
                    Die, Ends, Phase, TypeOK
        <4>2. CASE ~Ends(h)
          <5>1. hook[h].phase \in Launched
            BY <1>4, <4>2 DEF ReadHostId, MisreadHostId, Mint, TruncateHostId, WriteHostId, MintFails, DropEvent,
                      Die, Goes, Launched, Phases
          <5>2. hook[h] \in Payloads
            BY <5>1, HasPayload
          <5> QED
            BY <1>4, <3>2, <4>2, <5>2 DEF ReadHostId, MisreadHostId, Mint, TruncateHostId, WriteHostId, MintFails,
                      DropEvent, Die, Goes, Stamps, TypeOK, Payloads
        <4> QED
          BY <4>1, <4>2
      <3> QED
        BY <3>1, <3>2
    <2> QED
      BY <1>1, <1>2, <2>1, StillHeld
  <1>5. ASSUME NEW h \in Hooks, TimeOut(h)
        PROVE  HeldBy(x)'
    <2>1. hook[h].phase = "waiting"
      BY <1>5 DEF TimeOut, Goes
    <2>2. ~OutOfTime(h)
      BY <2>1, Waiter
    <2>3. /\ Goes(h, "waiting", "done")
          /\ wire' = wire /\ accepted' = accepted /\ parked' = parked
      BY <1>5, <2>2 DEF TimeOut
    <2>4. hook'[x] = hook[x] \/ hook'[x].phase = "done"
      <3>1. hook[h] \in Payloads
        BY <2>1, HasPayload DEF Launched, Phases
      <3> QED
        BY <2>3, <3>1 DEF Goes, TypeOK, Payloads
    <2> QED
      BY <1>1, <1>2, <2>3, <2>4, StillHeld
  <1>6. ASSUME NEW h \in Hooks, Send(h)
        PROVE  HeldBy(x)'
    <2>1. wire' = wire \union {h} /\ accepted' = accepted /\ parked' = parked
      BY <1>6 DEF Send
    <2>2. CASE x # h
      <3>1. hook'[x] = hook[x]
        BY <1>6, <2>2 DEF Send, Goes, TypeOK
      <3> QED
        BY <1>2, <2>1, <3>1
    <2>3. CASE x = h
      <3>1. hook[h] \in Payloads
        BY <1>6, HasPayload DEF Send, Goes, Launched, Phases
      <3>2. /\ hook'[h].phase = IF Waits(h) THEN "waiting" ELSE "done"
            /\ hook'[h].agent = hook[h].agent /\ hook'[h].event = hook[h].event
        BY <1>6, <3>1 DEF Send, Goes, TypeOK, Payloads
      <3>3. Waits(h) => WaitsForADecision(hook[h].agent, hook[h].event)
        BY <3>1, Decides DEF Waits, Payloads
      <3> QED
        BY <2>1, <2>3, <3>2, <3>3 DEF HeldBy
    <2> QED
      BY <2>2, <2>3
  <1>7. CASE Tick
    <2>1. wire' = wire /\ accepted' = accepted /\ parked' = parked
      BY <1>7 DEF Tick
    <2>2. CASE x \notin Waiting
      BY <1>2, <1>7, <2>1, <2>2 DEF Tick
    <2>3. CASE x \in Waiting
      <3>1. hook[x] \in Payloads /\ hook[x].phase = "waiting"
        BY <2>3, HasPayload DEF Waiting, Launched, Phases
      <3>2. hook'[x].phase = hook[x].phase
        BY <1>7, <2>3, <3>1 DEF Tick, Payloads
      <3> QED
        BY <1>1, <2>1, <3>1, <3>2, StillHeld
    <2> QED
      BY <2>2, <2>3
  <1>8. ASSUME NEW h \in Hooks, HandleLine(h)
        PROVE  HeldBy(x)'
    <2>1. hook[h].phase = "waiting" => Waits(h) /\ HasId(h)
      BY Waiter
    <2>2. hook' = hook /\ wire' = wire /\ accepted' = accepted \ {h} /\ parked \subseteq parked'
      BY <1>8, <2>1 DEF HandleLine
    <2>3. hook[h].phase = "waiting" => h \in parked'
      BY <1>8, <2>1 DEF HandleLine
    <2> QED
      BY <2>2, <2>3 DEF HeldBy
  <1>9. ASSUME NEW h \in Hooks, NEW allow \in BOOLEAN, Answer(h, allow)
        PROVE  HeldBy(x)'
    <2>1. wire' = wire /\ accepted' = accepted /\ parked' = parked \ {h}
      BY <1>9 DEF Answer
    <2>2. CASE x # h
      <3>1. hook'[x] = hook[x]
        BY <1>9, <2>2 DEF Answer, Goes, TypeOK
      <3> QED
        BY <2>1, <2>2, <3>1 DEF HeldBy
    <2>3. CASE x = h
      <3>1. CASE hook[h].phase = "waiting"
        <4>1. hook[h] \in Payloads
          BY <3>1, HasPayload DEF Launched, Phases
        <4>2. hook'[h].phase = "done"
          BY <1>9, <3>1, <4>1 DEF Answer, Goes, TypeOK, Payloads
        <4> QED
          BY <2>3, <4>2 DEF HeldBy
      <3>2. CASE hook[h].phase # "waiting"
        <4>1. hook' = hook
          BY <1>9, <3>2 DEF Answer
        <4> QED
          BY <2>3, <3>2, <4>1 DEF HeldBy
      <3> QED
        BY <3>1, <3>2
    <2> QED
      BY <2>2, <2>3
  <1>10. CASE \/ Shutdown \/ PollStarts \/ UNCHANGED vars
              \/ \E h \in Hooks : Accept(h) \/ DeliverPush(h)
              \/ \E state \in HerdrStates \union {None} : PollReturns(state)
    BY <1>2, <1>10 DEF Shutdown, Accept, DeliverPush, PollStarts, PollReturns, vars
  <1> QED
    BY <1>3, <1>4, <1>5, <1>6, <1>7, <1>8, <1>9, <1>10 DEF Next

(* Decisions are printed by Answer only. *)
LEMMA DecidedStep ==
  ASSUME TypeOK, Sent, Decided, \A h \in Hooks : HeldBy(h), [Next]_vars
  PROVE  Decided'
  <1> USE DEF agentVars, shimVars, daemonVars
  <1>1. \A x \in Hooks : printed[x] # None => hook'[x].agent = hook[x].agent
    BY HooksStep DEF HooksOK, SamePayload, Sent
  <1>2. CASE printed' = printed
    BY <1>1, <1>2 DEF Decided
  <1>3. ASSUME NEW h \in Hooks, NEW allow \in BOOLEAN, Answer(h, allow)
        PROVE  Decided'
    <2>1. CASE hook[h].phase # "waiting"
      BY <1>2, <1>3, <2>1 DEF Answer
    <2>2. CASE hook[h].phase = "waiting"
      <3>1. printed' = [printed EXCEPT ![h] = RenderDecision(hook[h].agent, allow)]
        BY <1>3, <2>2 DEF Answer
      <3>2. hook[h].agent \in Deciders
        BY <2>2 DEF HeldBy, WaitsForADecision, Deciders
      <3>3. hook'[h].agent = hook[h].agent
        BY <2>2, HooksStep DEF HooksOK, SamePayload, Out
      <3>4. ASSUME NEW x \in Hooks, printed'[x] # None
            PROVE  /\ hook'[x].agent \in Deciders
                   /\ \E a \in BOOLEAN : printed'[x] = RenderDecision(hook'[x].agent, a)
        <4>1. CASE x = h
          BY <3>1, <3>2, <3>3, <4>1 DEF Decided
        <4>2. CASE x # h
          <5>1. printed'[x] = printed[x]
            BY <3>1, <4>2 DEF Decided
          <5> QED
            BY <1>1, <3>4, <5>1 DEF Decided
        <4> QED
          BY <4>1, <4>2
      <3> QED
        BY <3>1, <3>4 DEF Decided
    <2> QED
      BY <2>1, <2>2
  <1> QED
    BY <1>2, <1>3
       DEF Next, Mint, Report, Launch, Shutdown, Tick, ReadHostId, MisreadHostId, TruncateHostId, WriteHostId,
           MintFails, Send, DropEvent, TimeOut, Die, Accept, HandleLine, DeliverPush, PollStarts,
           PollReturns, vars

(* What a step does to a row: it stays, is marked, gets Herdr's state if   *)
(* it is in a pane of Herdr's, or is folded with a line.                   *)
Kin(k, new) ==
  /\ new.terminal = row[k].terminal /\ new.context = row[k].context
  /\ new.state = row[k].state \/ InAPane(k)

LEMMA RowSteps ==
  ASSUME TypeOK, Sent, [Next]_vars, NEW k \in Keys
  PROVE  \/ row'[k] = row[k]
         \/ row[k] # None /\ Kin(k, row'[k])
         \/ \E h \in Hooks : HandleLine(h) /\ k = Key(h) /\ row'[k] = Fold(h)
  <1>1. ASSUME NEW h \in Hooks, HandleLine(h)
        PROVE  row'[k] = row[k] \/ (k = Key(h) /\ row'[k] = Fold(h))
    BY <1>1 DEF HandleLine, TypeOK
  <1>2. ASSUME NEW h \in Hooks, NEW allow \in BOOLEAN, Answer(h, allow)
        PROVE  row'[k] = row[k] \/ (row[k] # None /\ Kin(k, row'[k]))
    <2>1. CASE row'[k] # row[k]
      <3>1. row[k] # None /\ row'[k] = [row[k] EXCEPT !.resolved = TRUE]
        BY <1>2, <2>1 DEF Answer, TypeOK
      <3>2. row[k] \in Rows
        BY <3>1 DEF TypeOK
      <3> QED
        BY <3>1, <3>2 DEF Kin, Rows
    <2> QED
      BY <2>1
  <1>3. ASSUME NEW state \in HerdrStates \union {None}, PollReturns(state)
        PROVE  row'[k] = row[k] \/ (row[k] # None /\ Kin(k, row'[k]))
    <2>1. CASE ~(state # None /\ InAPane(k))
      BY <1>3, <2>1 DEF PollReturns
    <2>2. CASE state # None /\ InAPane(k)
      <3>1. row'[k] = [row[k] EXCEPT !.state = state]
        BY <1>3, <2>2 DEF PollReturns
      <3>2. row[k] \in Rows /\ row[k] # None
        BY <2>2 DEF TypeOK, InAPane
      <3> QED
        BY <2>2, <3>1, <3>2 DEF Kin, Rows
    <2> QED
      BY <2>1, <2>2
  <1> QED
    BY <1>1, <1>2, <1>3
       DEF Next, Mint, Report, Launch, Shutdown, Tick, ReadHostId, MisreadHostId, TruncateHostId, WriteHostId,
           MintFails, Send, DropEvent, TimeOut, Die, Accept, DeliverPush, PollStarts, daemonVars, vars

(* A line leaves what it does not say. *)
LEMMA FoldKeeps ==
  ASSUME NEW h \in Hooks, row[Key(h)] # None
  PROVE  /\ row[Key(h)].terminal # None => Fold(h).terminal # None
         /\ row[Key(h)].context # None => Fold(h).context # None
         /\ Fold(h).state = row[Key(h)].state
         /\ Fold(h).terminal \in {hook[h].terminal, row[Key(h)].terminal}
  BY DEF Fold, Kept

(* A line that was handled stays so, and says what it said. *)
LEMMA HandledStays ==
  ASSUME TypeOK, Sent, [Next]_vars, NEW x \in Hooks, HandledHook(x)
  PROVE  HandledHook(x)' /\ Key(x)' = Key(x) /\ hook'[x].terminal = hook[x].terminal
  <1> USE DEF agentVars, shimVars, daemonVars
  <1>1. hook[x].phase \in Out
    BY DEF HandledHook, Out
  <1>2. hook'[x].phase \in Out /\ SamePayload(x)
    BY <1>1, HooksStep DEF HooksOK
  <1>3. x \notin wire' \union accepted'
    <2>1. ASSUME NEW h \in Hooks, Send(h)
          PROVE  x \notin wire' \union accepted'
      BY <1>1, <2>1 DEF Send, Goes, Out, HandledHook
    <2> QED
      BY <2>1
       DEF HandledHook, Next, Mint, Report, Launch, Shutdown, Tick, ReadHostId, MisreadHostId,
           TruncateHostId, WriteHostId, MintFails, DropEvent, TimeOut, Die, Accept, HandleLine,
           DeliverPush, Answer, PollStarts, PollReturns, vars
  <1> QED
    BY <1>2, <1>3 DEF HandledHook, Out, SamePayload, Key

(* A line that is handled has been. *)
LEMMA HandledNow ==
  ASSUME TypeOK, Sent, [Next]_vars, NEW h \in Hooks, HandleLine(h)
  PROVE  HandledHook(h)' /\ Key(h)' = Key(h) /\ hook'[h].terminal = hook[h].terminal
  <1>1. hook[h].phase \in Out /\ h \notin wire
    BY DEF HandleLine, Free, Sent
  <1>2. hook'[h].phase \in Out /\ SamePayload(h)
    BY <1>1, HooksStep DEF HooksOK
  <1>3. h \notin wire' \union accepted'
    BY <1>1 DEF HandleLine
  <1> QED
    BY <1>2, <1>3 DEF HandledHook, Out, SamePayload, Key

LEMMA ToldStep ==
  ASSUME TypeOK, Sent, RowsAreTold, StateComesFromAPane, [Next]_vars
  PROVE  RowsAreTold' /\ StateComesFromAPane'
  <1> DEFINE ToldBy(k, h, t) == HandledHook(h)' /\ Key(h)' = k /\ hook'[h].terminal = t
  <1>1. ASSUME NEW k \in Keys, row[k] # None, row[k].terminal # None
        PROVE  \E h \in Hooks : ToldBy(k, h, row[k].terminal)
    <2>1. PICK h \in Hooks : HandledHook(h) /\ Key(h) = k /\ hook[h].terminal = row[k].terminal
      BY <1>1 DEF RowsAreTold
    <2> QED
      BY <2>1, HandledStays
  <1>2. ASSUME NEW k \in Keys, row[k] # None, row[k].state # None
        PROVE  \E h \in Hooks : ToldBy(k, h, hook[h].terminal) /\ InHerdrPane(hook[h].terminal)
    <2>1. PICK h \in Hooks : HandledHook(h) /\ Key(h) = k /\ InHerdrPane(hook[h].terminal)
      BY <1>2 DEF StateComesFromAPane
    <2> QED
      BY <2>1, HandledStays
  <1>3. ASSUME NEW k \in Keys, row'[k] # None
        PROVE  /\ row'[k].terminal # None => \E h \in Hooks : ToldBy(k, h, row'[k].terminal)
               /\ row'[k].state # None =>
                    \E h \in Hooks : HandledHook(h)' /\ Key(h)' = k /\ InHerdrPane(hook'[h].terminal)
    <2>1. CASE row'[k] = row[k]
      BY <1>1, <1>2, <1>3, <2>1
    <2>2. CASE row[k] # None /\ Kin(k, row'[k])
      <3>1. row'[k].terminal = row[k].terminal
        BY <2>2 DEF Kin
      <3>2. CASE row'[k].state = row[k].state
        BY <1>1, <1>2, <2>2, <3>1, <3>2
      <3>3. CASE InAPane(k)
        <4>1. row[k].terminal # None /\ InHerdrPane(row[k].terminal)
          BY <3>3 DEF InAPane, InHerdrPane, InHerdr
        <4>2. PICK h \in Hooks : ToldBy(k, h, row[k].terminal)
          BY <1>1, <2>2, <4>1
        <4> QED
          BY <3>1, <4>1, <4>2
      <3> QED
        BY <2>2, <3>2, <3>3 DEF Kin
    <2>3. ASSUME NEW h \in Hooks, HandleLine(h), k = Key(h), row'[k] = Fold(h)
          PROVE  /\ row'[k].terminal # None => \E x \in Hooks : ToldBy(k, x, row'[k].terminal)
                 /\ row'[k].state # None =>
                      \E x \in Hooks : HandledHook(x)' /\ Key(x)' = k /\ InHerdrPane(hook'[x].terminal)
      <3>1. ToldBy(k, h, hook[h].terminal)
        BY <2>3, HandledNow
      <3>2. CASE row[k] = None
        BY <2>3, <3>1, <3>2 DEF Fold
      <3>3. CASE row[k] # None
        <4>1. /\ row'[k].terminal \in {hook[h].terminal, row[k].terminal}
              /\ row'[k].state = row[k].state
          BY <2>3, <3>3, FoldKeeps
        <4> QED
          BY <1>1, <1>2, <3>1, <3>3, <4>1
      <3> QED
        BY <3>2, <3>3
    <2> QED
      BY <2>1, <2>2, <2>3, RowSteps
  <1>4. RowsAreTold'
    BY <1>3 DEF RowsAreTold
  <1>5. StateComesFromAPane'
    BY <1>3 DEF StateComesFromAPane
  <1> QED
    BY <1>4, <1>5

-----------------------------------------------------------------------------
(* The host id.                                                            *)

(* A hook that was launched, stays so or ends, and neither stamps nor mints*)
(* anything.                                                               *)
Calm(x) ==
  hook'[x].phase \in Launched =>
    /\ hook[x].phase \in Launched
    /\ hook'[x].found = hook[x].found /\ hook'[x].host = hook[x].host
    /\ hook[x].phase = "reading" => hook'[x].phase = "reading"
    /\ hook'[x].phase \in Minting => hook[x].phase \in Minting

LEMMA MintingIsLaunched == Minting \subseteq Launched /\ "reading" \in Launched
  BY DEF Minting, Launched, Phases

LEMMA CalmKeeps ==
  ASSUME HostIdIsKept, file' = file, misread' = misread, \A x \in Hooks : Calm(x)
  PROVE  HostIdIsKept'
  BY MintingIsLaunched DEF HostIdIsKept, Holds, Calm, Minting, IsId

LEMMA GoesCalmly ==
  ASSUME TypeOK, NEW h \in Hooks, NEW from, NEW to, Goes(h, from, to),
         from \in Launched, from # "reading", to \in Launched, to \notin Minting
  PROVE  \A x \in Hooks : Calm(x)
  <1>1. hook[h] \in Payloads
    BY HasPayload DEF Goes
  <1> QED
    BY <1>1 DEF Goes, Calm, TypeOK, Payloads

LEMMA EndsCalmly ==
  ASSUME TypeOK, NEW h \in Hooks, Ends(h)
  PROVE  \A x \in Hooks : Calm(x)
  BY DEF Ends, Phase, Calm, TypeOK, Launched

LEMMA HostStep ==
  ASSUME TypeOK, HostIdIsKept, [Next]_vars
  PROVE  HostIdIsKept'
  <1> USE DEF agentVars, shimVars, daemonVars
  <1>1. CASE hook' = hook /\ file' = file /\ misread' = misread
    BY <1>1, CalmKeeps DEF Calm
  <1>2. CASE misread' = TRUE
    BY <1>2 DEF HostIdIsKept
  <1>3. ASSUME NEW h \in Hooks, Report(h)
        PROVE  HostIdIsKept'
    <2>1. /\ file' = file /\ misread' = misread
          /\ \A x \in Hooks : x # h => hook'[x] = hook[x]
          /\ \/ hook'[h] = Phase("ended")
             \/ hook'[h].phase = "reading" /\ hook'[h].found = SettledId
      BY <1>3 DEF Report, Launch, TypeOK
    <2>2. CASE hook'[h] = Phase("ended")
      BY <2>1, <2>2, CalmKeeps DEF Calm, Phase, Launched
    <2>3. CASE hook'[h].phase = "reading" /\ hook'[h].found = SettledId
      <3> SUFFICES ASSUME ~misread, NEW x \in Hooks, hook'[x].phase \in Launched, hook'[x].found # None
                   PROVE  Holds(x)'
        BY <2>1 DEF HostIdIsKept, Holds
      <3>1. \A y \in Hooks : hook'[y].phase \in Minting => hook[y].phase \in Minting
        BY <2>1, <2>3 DEF Minting
      <3>2. CASE x = h
        BY <2>1, <2>3, <3>1, <3>2 DEF SettledId, Holds, Minting, IsId
      <3>3. CASE x # h
        BY <2>1, <3>1, <3>3 DEF HostIdIsKept, Holds, IsId
      <3> QED
        BY <3>2, <3>3
    <2> QED
      BY <2>1, <2>2, <2>3
  <1>4. ASSUME NEW h \in Hooks, ReadHostId(h)
        PROVE  HostIdIsKept'
    <2>1. hook[h].phase = "reading" /\ file' = file /\ misread' = misread
      BY <1>4 DEF ReadHostId, Goes
    <2>2. hook[h] \in Payloads
      BY <2>1, HasPayload, MintingIsLaunched
    <2> SUFFICES ASSUME ~misread, NEW x \in Hooks, hook'[x].phase \in Launched, hook'[x].found # None
                 PROVE  Holds(x)'
      BY <2>1 DEF HostIdIsKept, Holds
    <2>3. CASE IsId(file)
      <3>1. hook' = [hook EXCEPT ![h] = [hook[h] EXCEPT !.phase = "sending", !.host = file]]
        BY <1>4, <2>3 DEF ReadHostId, Stamps, TypeOK
      <3>2. /\ hook'[h].phase = "sending" /\ hook'[h].host = file /\ hook'[h].found = hook[h].found
            /\ \A y \in Hooks : y # h => hook'[y] = hook[y]
        BY <2>2, <3>1 DEF TypeOK, Payloads
      <3>3. hook[x].phase \in Launched /\ hook[x].found # None
        BY <2>1, <3>2, MintingIsLaunched
      <3>4. Holds(x)
        BY DEF HostIdIsKept
      <3> QED
        BY <2>1, <3>2, <3>3, <3>4 DEF Holds, Minting, IsId
    <2>4. CASE ~IsId(file)
      <3>1. hook' = [hook EXCEPT ![h] = [hook[h] EXCEPT !.phase = "minting"]]
        BY <1>4, <2>4 DEF ReadHostId, Goes, TypeOK
      <3>2. hook[x].phase \in Launched /\ hook[x].found # None
        BY <2>1, <2>2, <3>1, MintingIsLaunched DEF TypeOK, Payloads
      <3> QED
        BY <2>4, <3>2 DEF HostIdIsKept, Holds
    <2> QED
      BY <2>3, <2>4
  <1>5. ASSUME NEW h \in Hooks, Mint(h)
        PROVE  HostIdIsKept'
    <2>1. hook[h].phase \in Minting /\ misread' = misread
      BY <1>5 DEF Mint, TruncateHostId, WriteHostId, MintFails, Goes, Minting
    <2>2. hook[h] \in Payloads
      BY <2>1, HasPayload, MintingIsLaunched
    <2>3. /\ hook'[h].found = hook[h].found
          /\ \A x \in Hooks : x # h => hook'[x] = hook[x]
      BY <1>5, <2>2 DEF Mint, TruncateHostId, WriteHostId, MintFails, Goes, Stamps, TypeOK, Payloads
    <2>4. ~misread => \A x \in Hooks : hook'[x].phase \in Launched => hook'[x].found = None
      BY <2>1, <2>3, MintingIsLaunched DEF HostIdIsKept, Holds
    <2> QED
      BY <2>1, <2>4 DEF HostIdIsKept, Holds
  <1>6. ASSUME NEW h \in Hooks, Send(h) \/ DropEvent(h) \/ TimeOut(h) \/ Die(h)
        PROVE  HostIdIsKept'
    <2>1. file' = file /\ misread' = misread
      BY <1>6 DEF Send, DropEvent, TimeOut, Die
    <2>2. \A x \in Hooks : Calm(x)
      <3>1. CASE Ends(h)
        BY <3>1, EndsCalmly
      <3>2. CASE Goes(h, "sending", "waiting") \/ Goes(h, "sending", "done")
        BY <3>2, GoesCalmly DEF Launched, Phases, Minting
      <3>3. CASE Goes(h, "waiting", "killed") \/ Goes(h, "waiting", "done")
        BY <3>3, GoesCalmly DEF Launched, Phases, Minting
      <3> QED
        BY <1>6, <3>1, <3>2, <3>3 DEF Send, DropEvent, TimeOut, Die
    <2> QED
      BY <2>1, <2>2, CalmKeeps
  <1>7. CASE Tick
    <2>1. file' = file /\ misread' = misread
      BY <1>7 DEF Tick
    <2>2. ASSUME NEW x \in Hooks PROVE Calm(x)
      <3>1. CASE x \notin Waiting
        BY <1>7, <3>1 DEF Tick, Calm
      <3>2. CASE x \in Waiting
        <4>1. hook[x] \in Payloads /\ hook[x].phase = "waiting"
          BY <3>2, HasPayload DEF Waiting, Launched, Phases
        <4>2. hook'[x] = [hook[x] EXCEPT !.age = @ + 1]
          BY <1>7, <3>2 DEF Tick
        <4> QED
          BY <4>1, <4>2 DEF Calm, Payloads, Minting, Launched, Phases
      <3> QED
        BY <3>1, <3>2
    <2> QED
      BY <2>1, <2>2, CalmKeeps
  <1>8. ASSUME NEW h \in Hooks, HandleLine(h) \/ \E allow \in BOOLEAN : Answer(h, allow)
        PROVE  HostIdIsKept'
    <2>1. file' = file /\ misread' = misread
      BY <1>8 DEF HandleLine, Answer
    <2>2. CASE hook' = hook
      BY <1>1, <2>1, <2>2
    <2>3. CASE hook' # hook
      <3>1. Goes(h, "waiting", "refused") \/ Goes(h, "waiting", "done")
        BY <1>8, <2>3 DEF HandleLine, Answer, Goes
      <3>2. \A x \in Hooks : Calm(x)
        BY <3>1, GoesCalmly DEF Launched, Phases, Minting
      <3> QED
        BY <2>1, <3>2, CalmKeeps
    <2> QED
      BY <2>2, <2>3
  <1>9. CASE \/ Shutdown \/ PollStarts \/ UNCHANGED vars
             \/ \E h \in Hooks : Accept(h) \/ DeliverPush(h)
             \/ \E state \in HerdrStates \union {None} : PollReturns(state)
    BY <1>1, <1>9 DEF Shutdown, PollStarts, Accept, DeliverPush, PollReturns, vars
  <1>10. ASSUME NEW h \in Hooks, MisreadHostId(h)
         PROVE  HostIdIsKept'
    BY <1>2, <1>10 DEF MisreadHostId
  <1> QED
    BY <1>3, <1>4, <1>5, <1>6, <1>7, <1>8, <1>9, <1>10 DEF Next

-----------------------------------------------------------------------------
(* The theorems.                                                           *)

(* The inductive invariant: types, whose line is out, who waits and for    *)
(* what, what was printed, where a row's terminal and state come from, and *)
(* which id is sent.                                                       *)
THEOREM IndInvHolds == Spec => []IndInv
  <1>1. Init => IndInv
    <2> SUFFICES ASSUME Init PROVE IndInv
      OBVIOUS
    <2>1. \A h \in Hooks : hook[h] = Phase("unborn") /\ hook[h].phase = "unborn"
      BY DEF Init, Phase
    <2>2. TypeOK
      BY <2>1 DEF Init, TypeOK, Launched
    <2> QED
      BY <2>1, <2>2 DEF Init, IndInv, Sent, HeldOnlyForAnAnswer, NeverKilledWaiting, Decided,
           RowsAreTold, StateComesFromAPane, HostIdIsKept, Holds, Launched
  <1>2. IndInv /\ [Next]_vars => IndInv'
    <2> SUFFICES ASSUME IndInv, [Next]_vars PROVE IndInv'
      OBVIOUS
    <2>1. \A h \in Hooks : HeldBy(h)
      BY Held DEF IndInv
    <2>2. TypeOK' /\ Sent' /\ Decided' /\ RowsAreTold' /\ StateComesFromAPane' /\ HostIdIsKept'
      BY <2>1, TypeStep, SentStep, DecidedStep, ToldStep, HostStep DEF IndInv
    <2>3. \A h \in Hooks : HeldBy(h)'
      BY <2>1, HeldStep DEF IndInv
    <2>4. HeldOnlyForAnAnswer' /\ NeverKilledWaiting'
      BY <2>3 DEF HeldBy, HeldOnlyForAnAnswer, NeverKilledWaiting
    <2> QED
      BY <2>2, <2>4 DEF IndInv
  <1> QED
    BY <1>1, <1>2, PTL DEF Spec

(* Type correctness, with the context between 0 and 100, the age of a wait *)
(* and every row under the key of the event it shows.                      *)
THEOREM TypeCorrect == Spec => []TypeOK
  BY IndInvHolds, PTL DEF IndInv

(* "So this process always gets to answer rather than being killed         *)
(* mid-write" (cli.rs:58-61): no agent's time-out comes before the wait    *)
(* ends.                                                                   *)
THEOREM NeverKilled == Spec => []NeverKilledWaiting
  BY IndInvHolds, PTL DEF IndInv

(* "Only the latter is worth blocking the agent for" (adapters/mod.rs:     *)
(* 38-42): a hook is held back only for an approval that is registered or  *)
(* on its way.                                                             *)
THEOREM HeldForAnAnswer == Spec => []HeldOnlyForAnAnswer
  BY IndInvHolds, PTL DEF IndInv

(* Every decision on stdout has its agent's form (codex.rs:42-44).         *)
THEOREM Readable == Spec => []DecisionsAreReadable
  <1>1. IndInv => DecisionsAreReadable
    <2> SUFFICES ASSUME IndInv, NEW h \in Hooks, printed[h] # None
                 PROVE  /\ hook[h].agent \in Deciders
                        /\ printed[h].updatedInput = (printed[h].behavior = "allow"
                                                      /\ hook[h].agent # "codex")
                        /\ printed[h].message = (printed[h].behavior = "deny")
      BY DEF DecisionsAreReadable, Deciders
    <2> QED
      BY Forms DEF IndInv, Decided
  <1> QED
    BY <1>1, IndInvHolds, PTL

(* Herdr's state is for rows of panes of Herdr (inbox.rs:43-45): a row that*)
(* shows one was told of such a pane by a line of its session.             *)
THEOREM StateFromAPane == Spec => []StateComesFromAPane
  BY IndInvHolds, PTL DEF IndInv

(* "The file is the source of truth" (hostid.rs:4-5): whoever starts when  *)
(* an id is there and nobody replaces it sends that id, and nobody mints   *)
(* another, as long as no read of it fails.                                *)
THEOREM HostIdShared == Spec => []HostIdIsShared
  <1>1. IndInv => HostIdIsShared
    BY DEF IndInv, HostIdIsKept, Holds, HostIdIsShared
  <1> QED
    BY <1>1, IndInvHolds, PTL

(* "Keeps whatever the event left unsaid" (inbox.rs:81-83): terminal and   *)
(* context, once known, stay known.                                        *)
THEOREM NothingForgotten == Spec => NothingLearntIsForgotten
  <1> DEFINE Remembers ==
        \A k \in Keys : row[k] # None /\ row'[k] # None =>
          /\ row[k].terminal # None => row'[k].terminal # None
          /\ row[k].context # None => row'[k].context # None
  <1>1. ASSUME IndInv, [Next]_vars
        PROVE  [Remembers]_vars
    <2> SUFFICES ASSUME NEW k \in Keys, row[k] # None, row'[k] # None
                 PROVE  /\ row[k].terminal # None => row'[k].terminal # None
                        /\ row[k].context # None => row'[k].context # None
      OBVIOUS
    <2> QED
      BY <1>1, NoneAssumption, RowSteps, FoldKeeps DEF IndInv, Kin
  <1> QED
    BY <1>1, IndInvHolds, PTL DEF Spec, NothingLearntIsForgotten

=============================================================================
