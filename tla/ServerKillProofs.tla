-------------------------- MODULE ServerKillProofs --------------------------
(***************************************************************************)
(* Proofs about ServerKill, for any number of processes, pids that pass    *)
(* from one to the next, ports and sites.  A pid's lives only ever go up,  *)
(* so what the listing said of a pid stays true of it or of who had it     *)
(* before; the rest is the order of the command's steps.                   *)
(***************************************************************************)
EXTENDS ServerKill, TLAPS

Signalled == termed \union slain

(* Someone who had this pid, the present one or one before, listened there.*)
Listened(pid, port, lives) == \E n \in 0..lives : <<<<pid, n>>, port>> \in listeners

(* The command's steps come in their order. *)
InOrder ==
  /\ phase \in {"list", "probe", "term"} => Signalled = {} /\ ~forced
  /\ phase \in {"wait", "kill", "wait again", "report"} => termed # {}
  /\ phase = "kill" => command.force
  /\ outcome # None <=> phase = "done"
  /\ outcome \in {"killed", "alive"} => termed # {}

(* What is to be probed, and what was found, comes from the listing. *)
Sourced ==
  /\ \A s \in todo \union found : Listened(s.pid, s.port, life[s.pid])
  /\ \A s \in found : s.port = command.port => served # {}
  /\ phase = "list" => todo = {} /\ found = {}

(* From SIGTERM on the command is about a server. *)
Verified ==
  /\ phase \in {"term", "wait", "kill", "wait again", "report"} =>
       /\ served # {}
       /\ Listened(command.pid, command.port, life[command.pid])

NobodyThere == outcome = "killed" /\ ~blind => ~up[command.pid]

IndInv ==
  TypeOK /\ InOrder /\ Sourced /\ Verified /\ OnlyServersAreSignalled /\ NobodyThere

-----------------------------------------------------------------------------
(* Who served is remembered, and listened.                                 *)
LEMMA HistoryKept ==
  ASSUME Watch, TypeOK, sockets' \subseteq Sockets,
         life' \in [Pids -> 0..MaxLives]
  PROVE  heard' \subseteq Processes /\ served \subseteq served' /\ served' \subseteq heard'
  <1>1. CASE UNCHANGED <<heard, served>>
    BY <1>1 DEF TypeOK
  <1>2. CASE heard' = heard \union HeardNow' /\ served' = served \union ServedNow'
    <2>1. ServedNow' \subseteq HeardNow'
      BY DEF ServedNow, HeardNow, Answering
    <2>2. HeardNow' \subseteq Processes
      BY DEF HeardNow, Process, Processes, Sockets
    <2> QED
      BY <1>2, <2>1, <2>2 DEF TypeOK
  <1> QED
    BY <1>1, <1>2 DEF Watch

LEMMA ListenedBefore ==
  ASSUME NEW pid, NEW port, NEW m \in Nat, NEW n \in Nat, m <= n,
         Listened(pid, port, m), listeners' = listeners
  PROVE  Listened(pid, port, n)'
  BY DEF Listened

(* Lives only go up. *)
Older == \A pid \in Pids : life[pid] \in Nat /\ life'[pid] \in Nat /\ life[pid] <= life'[pid]

ProcessesOK ==
  life \in [Pids -> 0..MaxLives] /\ up \in [Pids -> BOOLEAN] /\ sockets \subseteq Sockets

LEMMA ProcessesKept ==
  ASSUME ProcessesOK, Next
  PROVE  ProcessesOK' /\ Older
  <1> USE LivesAssumption DEF ProcessesOK, Older
  <1>1. CASE UNCHANGED life
    <2>1. up' \in [Pids -> BOOLEAN] /\ sockets' \subseteq Sockets
      BY <1>1 DEF Next, Others, Start, Exit, Listen, Close, Command, List, Probe, Verify, Term,
           WaitsEnd, Kill, WaitsEndAgain, Report, procVars
    <2> QED
      BY <1>1, <2>1
  <1>2. ASSUME NEW pid \in Pids, Start(pid)
        PROVE  ProcessesOK' /\ Older
    <2>1. life[pid] \in Nat /\ life[pid] + 1 \in 0..MaxLives
      BY <1>2 DEF Start
    <2>2. life' = [life EXCEPT ![pid] = life[pid] + 1]
      BY <1>2 DEF Start
    <2>3. \A q \in Pids : life'[q] = IF q = pid THEN life[q] + 1 ELSE life[q]
      BY <2>2
    <2>4. life' \in [Pids -> 0..MaxLives]
      BY <2>1, <2>2
    <2>5. up' \in [Pids -> BOOLEAN] /\ sockets' = sockets
      BY <1>2 DEF Start
    <2>6. Older
      BY <2>1, <2>3
    <2> QED
      BY <2>4, <2>5, <2>6
  <1> QED
    BY <1>1, <1>2 DEF Next, Others, Exit, Listen, Close, Command, List, Probe, Verify, Term,
         WaitsEnd, Kill, WaitsEndAgain, Report, procVars

(* What any step keeps: the types of processes, the command, and histories. *)
LEMMA StepKeeps ==
  ASSUME TypeOK, Next
  PROVE  /\ life' \in [Pids -> 0..MaxLives] /\ up' \in [Pids -> BOOLEAN]
         /\ sockets' \subseteq Sockets
         /\ Older
         /\ command' = command /\ command \in [pid : Pids, port : Ports, force : BOOLEAN]
         /\ heard' \subseteq Processes /\ served \subseteq served' /\ served' \subseteq heard'
         /\ (phase # "list" => listeners' = listeners)
  <1>1. Watch
    BY DEF Next, Others, Command, List, Probe, Verify, Term, WaitsEnd, Kill, WaitsEndAgain, Report
  <1>2. command' = command /\ (phase # "list" => listeners' = listeners)
    BY DEF Next, Others, Command, List, Probe, Verify, Term, WaitsEnd, Kill, WaitsEndAgain, Report,
         At, cmdVars
  <1> QED
    BY <1>1, <1>2, ProcessesKept, HistoryKept DEF TypeOK, ProcessesOK

(* Type correctness. *)
LEMMA TypeStep ==
  ASSUME TypeOK, InOrder, Next
  PROVE  TypeOK'
  <1> USE StepKeeps, NoneAssumption, LivesAssumption
      DEF TypeOK, InOrder, Signalled, At, Go, Finish, Outcomes, Phases, cmdVars, procVars
  <1> DEFINE Target == Process(command.pid)
  <1>1. Target \in Processes
    BY DEF Process, Processes
  <1>2. CASE List
    <2>1. ASSUME NEW s \in sockets
          PROVE  <<Process(s.pid), s.at.port>> \in Processes \X Ports /\ s.pid \in Pids
      <3>1. s.pid \in Pids /\ s.at \in Sites
        BY DEF Sockets
      <3>2. s.at.port \in Ports
        BY <3>1, SitesAssumption
      <3> QED
        BY <3>1, <3>2 DEF Process, Processes
    <2>2. listeners' \subseteq Processes \X Ports
      <3>1. listeners' = {<<Process(s.pid), s.at.port>> : s \in sockets}
        BY <1>2 DEF List
      <3>2. ASSUME NEW l \in listeners'
            PROVE  l \in Processes \X Ports
        <4>1. PICK s \in sockets : l = <<Process(s.pid), s.at.port>>
          BY <3>1
        <4> QED
          BY <2>1, <4>1
      <3> QED
        BY <3>2
    <2>3. todo' \union found' \subseteq [pid : Pids, port : Ports \ LowPorts]
      <3>1. found' = found /\ \A x \in todo' : \E s \in sockets :
              x = [pid |-> s.pid, port |-> s.at.port] /\ s.at.port \in Probed
        BY <1>2 DEF List
      <3>2. ASSUME NEW x \in todo'
            PROVE  x \in [pid : Pids, port : Ports \ LowPorts]
        <4>1. PICK s \in sockets :
                x = [pid |-> s.pid, port |-> s.at.port] /\ s.at.port \in Probed
          BY <3>1
        <4> QED
          BY <2>1, <4>1 DEF Probed
      <3> QED
        BY <3>1, <3>2
    <2> QED
      BY <1>2, <2>2, <2>3 DEF List
  <1>3. ASSUME NEW s \in todo, Probe(s)
        PROVE  TypeOK'
    BY <1>3 DEF Probe
  <1>4. CASE Verify
    BY <1>4 DEF Verify
  <1>5. CASE Term
    BY <1>1, <1>5 DEF Term
  <1>6. CASE WaitsEnd
    BY <1>6 DEF WaitsEnd, SeesNobody, SeesIt
  <1>7. CASE Kill
    BY <1>1, <1>7 DEF Kill
  <1>8. CASE WaitsEndAgain
    BY <1>8 DEF WaitsEndAgain, SeesNobody, SeesIt
  <1>9. CASE Report
    BY <1>9 DEF Report, SeesNobody, SeesIt, Killed
  <1>10. CASE Others
    BY <1>10 DEF Others
  <1> QED
    BY <1>2, <1>3, <1>4, <1>5, <1>6, <1>7, <1>8, <1>9, <1>10 DEF Next, Command

(* The order of the command's steps. *)
LEMMA OrderStep ==
  ASSUME TypeOK, InOrder, Next
  PROVE  InOrder'
  <1> USE StepKeeps, NoneAssumption
      DEF TypeOK, InOrder, Signalled, At, Go, Finish, Outcomes, Phases, cmdVars, procVars
  <1>1. CASE List
    BY <1>1 DEF List
  <1>2. ASSUME NEW s \in todo, Probe(s)
        PROVE  InOrder'
    BY <1>2 DEF Probe
  <1>3. CASE Verify
    BY <1>3 DEF Verify
  <1>4. CASE Term
    BY <1>4 DEF Term
  <1>5. CASE WaitsEnd
    BY <1>5 DEF WaitsEnd, SeesNobody, SeesIt
  <1>6. CASE Kill
    BY <1>6 DEF Kill
  <1>7. CASE WaitsEndAgain
    BY <1>7 DEF WaitsEndAgain, SeesNobody, SeesIt
  <1>8. CASE Report
    BY <1>8 DEF Report, SeesNobody, SeesIt, Killed
  <1>9. CASE Others
    BY <1>9 DEF Others
  <1> QED
    BY <1>1, <1>2, <1>3, <1>4, <1>5, <1>6, <1>7, <1>8, <1>9 DEF Next, Command

(* What is probed and found was listed, and had a page when it was found.  *)
LEMMA SourcedStep ==
  ASSUME TypeOK, Sourced, InOrder, Next
  PROVE  Sourced'
  <1> USE StepKeeps DEF Sourced, Older
  <1>1. CASE List
    <2>1. phase' # "list" /\ found' = found /\ found = {} /\ life' = life
      BY <1>1 DEF List, At, procVars
    <2>2. \A s \in todo' : Listened(s.pid, s.port, life[s.pid])'
      <3> TAKE s \in todo'
      <3>1. PICK t \in sockets : s = [pid |-> t.pid, port |-> t.at.port]
        BY <1>1 DEF List
      <3>2. <<<<s.pid, life[s.pid]>>, s.port>> \in listeners'
        BY <1>1, <3>1 DEF List, Process
      <3>3. s.pid \in Pids
        BY <3>1 DEF TypeOK, Sockets
      <3>4. life[s.pid] \in Nat
        BY <3>3 DEF Older
      <3>5. life[s.pid] \in 0..life[s.pid] /\ life'[s.pid] = life[s.pid]
        BY <2>1, <3>4
      <3> QED
        BY <3>2, <3>5 DEF Listened
    <2> QED
      BY <2>1, <2>2
  <1>2. CASE phase # "list"
    <2>1. \A s \in todo \union found : Listened(s.pid, s.port, life[s.pid])'
      <3> TAKE s \in todo \union found
      <3>1. s.pid \in Pids
        BY DEF TypeOK
      <3>2. /\ life[s.pid] \in Nat /\ life'[s.pid] \in Nat /\ life[s.pid] <= life'[s.pid]
            /\ listeners' = listeners
        BY <1>2, <3>1
      <3> QED
        BY <3>2, ListenedBefore DEF Listened
    <2>2. CASE UNCHANGED <<todo, found>>
      BY <1>2, <2>1, <2>2 DEF InOrder, Next, Others, Command, List, Probe, Verify, Term, WaitsEnd,
           Kill, WaitsEndAgain, Report, At, Go, Finish, cmdVars
    <2>3. ASSUME NEW s \in todo, Probe(s)
          PROVE  Sourced'
      <3>1. CASE UNCHANGED found
        BY <2>1, <2>3, <3>1 DEF Probe, At
      <3>2. CASE HasPage(s.port) /\ found' = found \union {s}
        <4>1. /\ sockets' = sockets /\ life' = life /\ phase' = "probe"
              /\ served' = served \union ServedNow'
          BY <2>3 DEF Probe, Watch, At, procVars
        <4>2. ASSUME s.port = command.port
              PROVE  served' # {}
          <5>1. PICK t \in Answering(command.port) : t.at.page
            BY <3>2, <4>2 DEF HasPage
          <5>2. Process(t.pid) \in ServedNow
            BY <5>1 DEF ServedNow
          <5>3. ServedNow' = ServedNow
            BY <4>1 DEF ServedNow, Answering, Process
          <5> QED
            BY <4>1, <5>2, <5>3
        <4> QED
          BY <2>1, <2>3, <3>2, <4>2 DEF Probe, At
      <3> QED
        BY <2>3, <3>1, <3>2 DEF Probe
    <2> QED
      BY <1>2, <2>2, <2>3 DEF Next, Others, Command, List, Verify, Term, WaitsEnd, Kill,
           WaitsEndAgain, Report, At, cmdVars
  <1> QED
    BY <1>1, <1>2 DEF Next, Others, Command, List, Probe, Verify, Term, WaitsEnd, Kill,
         WaitsEndAgain, Report, At, cmdVars

(* From SIGTERM on the command is about the server it verified.            *)
LEMMA VerifiedStep ==
  ASSUME TypeOK, InOrder, Sourced, Verified, Next
  PROVE  Verified'
  <1> USE StepKeeps DEF Older
  <1> SUFFICES ASSUME phase' \in {"term", "wait", "kill", "wait again", "report"}
               PROVE  /\ served' # {}
                      /\ Listened(command.pid, command.port, life[command.pid])'
    BY DEF Verified
  <1>1. phase # "list" /\ command.pid \in Pids
    BY DEF Next, Others, Command, List, Probe, Verify, Term, WaitsEnd, Kill, WaitsEndAgain, Report,
         At, cmdVars
  <1>2. \/ phase \in {"term", "wait", "kill", "wait again", "report"}
        \/ [pid |-> command.pid, port |-> command.port] \in found
    BY DEF Next, Others, Command, List, Probe, Verify, Term, WaitsEnd, Kill, WaitsEndAgain, Report,
         At, Go, Finish, cmdVars, IsDiscovered
  <1>3. served # {} /\ Listened(command.pid, command.port, life[command.pid])
    <2>1. CASE phase \in {"term", "wait", "kill", "wait again", "report"}
      BY <2>1 DEF Verified
    <2>2. ASSUME NEW s \in found, s = [pid |-> command.pid, port |-> command.port]
          PROVE  served # {} /\ Listened(command.pid, command.port, life[command.pid])
      <3>1. s.pid = command.pid /\ s.port = command.port
        BY <2>2
      <3>2. served # {} /\ Listened(s.pid, s.port, life[s.pid])
        BY <3>1 DEF Sourced
      <3> QED
        BY <3>1, <3>2
    <2> QED
      BY <1>2, <2>1, <2>2
  <1> QED
    BY <1>1, <1>3, ListenedBefore DEF Listened

(* Whoever is sent a signal has the pid that was verified.                 *)
LEMMA SignalStep ==
  ASSUME TypeOK, InOrder, Verified, OnlyServersAreSignalled, Next
  PROVE  OnlyServersAreSignalled'
  <1> USE StepKeeps DEF Older
  <1>1. ASSUME NEW proc \in Signalled, proc \in Signalled', phase # "list"
        PROVE  /\ proc[1] = command.pid /\ served' # {}
               /\ \E n \in 0..proc[2] : <<<<command.pid, n>>, command.port>> \in listeners'
    BY <1>1 DEF OnlyServersAreSignalled, Signalled
  <1>2. ASSUME phase \in {"term", "kill"},
               Signalled' \subseteq Signalled \union {Process(command.pid)}
        PROVE  OnlyServersAreSignalled'
    <2>1. /\ served' # {}
          /\ \E n \in 0..life[command.pid] : <<<<command.pid, n>>, command.port>> \in listeners'
      BY <1>2 DEF Verified, Listened
    <2>2. Process(command.pid)[1] = command.pid /\ Process(command.pid)[2] = life[command.pid]
      BY DEF Process
    <2> QED
      BY <1>1, <1>2, <2>1, <2>2 DEF OnlyServersAreSignalled, Signalled
  <1>3. CASE Term
    BY <1>2, <1>3 DEF Term, At, Signalled
  <1>4. CASE Kill
    BY <1>2, <1>4 DEF Kill, At, Signalled
  <1>5. CASE phase = "list"
    BY <1>5 DEF InOrder, OnlyServersAreSignalled, Signalled, Next, Others, Command, List, Probe, Verify,
         Term, WaitsEnd, Kill, WaitsEndAgain, Report, At, cmdVars
  <1>6. CASE phase # "list" /\ Signalled' = Signalled
    BY <1>1, <1>6 DEF OnlyServersAreSignalled, Signalled
  <1> QED
    BY <1>3, <1>4, <1>5, <1>6 DEF Signalled, Next, Others, Command, List, Probe, Verify, WaitsEnd,
         WaitsEndAgain, Report, cmdVars

(* ps that runs sees nobody only where nobody is, and nothing moves after  *)
(* the outcome.                                                            *)
LEMMA NobodyStep ==
  ASSUME TypeOK, InOrder, NobodyThere, Next
  PROVE  NobodyThere'
  <1> USE StepKeeps, NoneAssumption DEF NobodyThere, InOrder
  <1>1. CASE Report
    BY <1>1 DEF Report, SeesNobody, SeesIt, Finish, Killed, procVars
  <1>2. CASE ~Report
    BY <1>2 DEF Next, Others, Command, List, Probe, Verify, Term, WaitsEnd, Kill, WaitsEndAgain,
         At, Go, Finish, cmdVars
  <1> QED
    BY <1>1, <1>2

(* The inductive invariant: types, the order of the steps, and where what  *)
(* is probed, found, verified and signalled comes from.                    *)
THEOREM IndInvHolds == Spec => []IndInv
  <1>1. Init => IndInv
    <2> SUFFICES ASSUME Init PROVE IndInv
      OBVIOUS
    <2>1. TypeOK
      <3>1. life \in [Pids -> 0..MaxLives]
        BY LivesAssumption DEF Init
      <3> QED
        BY <3>1, NoneAssumption DEF Init, TypeOK, Outcomes, Phases
    <2> QED
      BY <2>1, NoneAssumption DEF Init, IndInv, InOrder, Sourced, Verified, Signalled,
           OnlyServersAreSignalled, NobodyThere
  <1>2. IndInv /\ [Next]_vars => IndInv'
    <2> SUFFICES ASSUME IndInv, [Next]_vars PROVE IndInv'
      OBVIOUS
    <2>1. CASE Next
      BY <2>1, TypeStep, OrderStep, SourcedStep, VerifiedStep, SignalStep, NobodyStep DEF IndInv
    <2>2. CASE UNCHANGED vars
      BY <2>2 DEF IndInv, TypeOK, InOrder, Sourced, Verified, Signalled, Listened,
           OnlyServersAreSignalled, NobodyThere, vars, procVars, cmdVars, Processes
    <2> QED
      BY <2>1, <2>2
  <1> QED
    BY <1>1, <1>2, PTL DEF Spec

(* Type correctness, with what the flags and the outcome say of each other.*)
THEOREM TypeCorrect == Spec => []TypeOK
  BY IndInvHolds, PTL DEF IndInv

(* "Re-validate that pid:port is still a discovered HTML server, then      *)
(* terminate it" (servers.rs:188): whoever is signalled has the pid that   *)
(* was verified, at whatever speed processes come and go.                  *)
THEOREM OnlyServers == Spec => []OnlyServersAreSignalled
  BY IndInvHolds, PTL DEF IndInv

(* "killed" (servers.rs:213): whoever was signalled or listened there under*)
(* that pid is gone, unless ps could not be run.                           *)
THEOREM KilledGone == Spec => []KilledMeansGone
  <1>1. IndInv => KilledMeansGone
    <2> SUFFICES ASSUME IndInv, outcome = "killed", ~blind
                 PROVE  KilledMeansGone
      BY DEF KilledMeansGone
    <2>1. ~up[command.pid] /\ termed # {}
      BY DEF IndInv, NobodyThere, InOrder
    <2>2. \A proc \in termed \union slain : proc[1] = command.pid
      BY DEF IndInv, OnlyServersAreSignalled
    <2> QED
      BY <2>1, <2>2 DEF KilledMeansGone, IsGone
  <1> QED
    BY <1>1, IndInvHolds, PTL

=============================================================================
