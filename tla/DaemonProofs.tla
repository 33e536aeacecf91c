---------------------------- MODULE DaemonProofs ----------------------------
(***************************************************************************)
(* Proofs about Daemon.  IndInv is inductive: the lock's holder is the only*)
(* process past it, so the path, the listeners and, on a network, the file *)
(* of the token change only under it; everything else is the order in which*)
(* a start takes them.                                                     *)
(***************************************************************************)
EXTENDS Daemon, TLAPS

(* One more of what has not come to its bound. *)
LEMMA OneMore ==
  ASSUME NEW n \in 0..MaxPolls, n # MaxPolls
  PROVE  n + 1 \in 0..MaxPolls
  BY PollsAssumption

(* Type correctness: the token of a process. *)
LEMMA TypeToken ==
  ASSUME TypeOK, NEW x \in Procs, TokenStep(x)
  PROVE  TypeOK'
  <1> USE ProcsAssumption, PollsAssumption DEF TypeOK, Go, host, Procs, Tokens, Running, Closing
  <1>1. CASE ReadToken(x)
    BY <1>1 DEF ReadToken, AfterToken, Known
  <1>2. CASE Mint(x)
    BY <1>2 DEF Mint, Known
  <1>3. CASE TruncateToken(x)
    BY <1>3 DEF TruncateToken
  <1>4. CASE WriteToken(x)
    BY <1>4 DEF WriteToken, AfterToken, Persist
  <1>5. CASE WriteTokenFails(x)
    BY <1>5 DEF WriteTokenFails
  <1> QED
    BY <1>1, <1>2, <1>3, <1>4, <1>5 DEF TokenStep

(* Type correctness: a run of serve. *)
LEMMA TypeServe ==
  ASSUME TypeOK, NEW p \in Serves, ServeStep(p)
  PROVE  TypeOK'
  <1> USE ProcsAssumption, PollsAssumption DEF TypeOK, Go, host, Procs, Tokens, Running, Closing
  <1>1. CASE Start(p)
    BY <1>1 DEF Start
  <1>2. CASE Lock(p)
    BY <1>2 DEF Lock, LockFree, Networked
  <1>3. CASE LockTaken(p)
    BY <1>3 DEF LockTaken, LockFree
  <1>4. CASE Check(p)
    BY <1>4 DEF Check, Stale
  <1>5. CASE Unlink(p)
    BY <1>5 DEF Unlink
  <1>6. CASE Bind(p)
    BY <1>6 DEF Bind
  <1>7. CASE PathInUse(p)
    BY <1>7 DEF PathInUse
  <1>8. CASE Gateway(p)
    BY <1>8 DEF Gateway
  <1>9. CASE PortInUse(p)
    BY <1>9 DEF PortInUse
  <1>10. CASE Stop(p)
    BY <1>10 DEF Stop
  <1>11. CASE CloseLock(p)
    BY <1>11 DEF CloseLock
  <1>12. CASE CloseSocket(p)
    BY <1>12 DEF CloseSocket
  <1>13. CASE ClosePort(p)
    BY <1>13 DEF ClosePort
  <1> QED
    BY <1>1, <1>2, <1>3, <1>4, <1>5, <1>6, <1>7, <1>8, <1>9, <1>10, <1>11, <1>12, <1>13 DEF ServeStep

(* Type correctness: a run of easy-pair. *)
LEMMA TypePair ==
  ASSUME TypeOK, NEW e \in Pairs, PairStep(e)
  PROVE  TypeOK'
  <1> USE ProcsAssumption, PollsAssumption DEF TypeOK, Go, host, Procs, Tokens, Running, Closing
  <1>1. CASE Pair(e)
    BY <1>1 DEF Pair
  <1>2. CASE Answered(e)
    BY <1>2 DEF Answered
  <1>3. CASE Unanswered(e)
    BY <1>3 DEF Unanswered
  <1>4. CASE SpawnGateway(e)
    BY <1>4 DEF SpawnGateway
  <1>5. CASE NoSpawn(e)
    BY <1>5 DEF NoSpawn
  <1>6. CASE PollAgain(e)
    <2>1. polls[e] \in 0..MaxPolls /\ polls[e] # MaxPolls
      BY <1>6 DEF PollAgain
    <2>2. polls[e] + 1 \in 0..MaxPolls
      BY <2>1, OneMore
    <2>3. polls' \in [Pairs -> (0..MaxPolls) \union {None}]
      BY <1>6, <2>2 DEF PollAgain
    <2>4. \A f \in Pairs : pc'[f] \notin {"printed", "gone"} => polls'[f] # MaxPolls
      BY <1>6, <2>1 DEF PollAgain, LastPoll
    <2> QED
      BY <1>6, <2>3, <2>4 DEF PollAgain
  <1>7. CASE Abandon(e)
    BY <1>7 DEF Abandon
  <1> QED
    BY <1>1, <1>2, <1>3, <1>4, <1>5, <1>6, <1>7 DEF PairStep

(* Steps of token: who is past the lock. *)
LEMMA TokenKeepsLockHeld ==
  ASSUME IndInv, NEW x \in Procs, TokenStep(x)
  PROVE  LockHeld'
  <1> USE ProcsAssumption DEF IndInv, TypeOK, Go, host, Procs, Tokens, Running, Closing,
       LockHeld, Locked
  <1>1. CASE ReadToken(x)
    BY <1>1 DEF ReadToken, AfterToken
  <1>2. CASE Mint(x)
    BY <1>2 DEF Mint
  <1>3. CASE TruncateToken(x)
    BY <1>3 DEF TruncateToken
  <1>4. CASE WriteToken(x)
    BY <1>4 DEF WriteToken, AfterToken, Persist
  <1>5. CASE WriteTokenFails(x)
    BY <1>5 DEF WriteTokenFails
  <1> QED
    BY <1>1, <1>2, <1>3, <1>4, <1>5 DEF TokenStep

(* Steps of serve: who is past the lock. *)
LEMMA ServeKeepsLockHeld ==
  ASSUME IndInv, NEW p \in Serves, ServeStep(p)
  PROVE  LockHeld'
  <1> USE ProcsAssumption DEF IndInv, TypeOK, Go, host, Procs, Tokens, Running, Closing,
       LockHeld, Locked
  <1>1. CASE Start(p)
    BY <1>1 DEF Start
  <1>2. CASE Lock(p)
    BY <1>2 DEF Lock, LockFree
  <1>3. CASE LockTaken(p)
    BY <1>3 DEF LockTaken, LockFree
  <1>4. CASE Check(p)
    BY <1>4 DEF Check, Stale
  <1>5. CASE Unlink(p)
    BY <1>5 DEF Unlink
  <1>6. CASE Bind(p)
    BY <1>6 DEF Bind
  <1>7. CASE PathInUse(p)
    BY <1>7 DEF PathInUse
  <1>8. CASE Gateway(p)
    BY <1>8 DEF Gateway
  <1>9. CASE PortInUse(p)
    BY <1>9 DEF PortInUse
  <1>10. CASE Stop(p)
    BY <1>10 DEF Stop
  <1>11. CASE CloseLock(p)
    BY <1>11 DEF CloseLock
  <1>12. CASE CloseSocket(p)
    BY <1>12 DEF CloseSocket
  <1>13. CASE ClosePort(p)
    BY <1>13 DEF ClosePort
  <1> QED
    BY <1>1, <1>2, <1>3, <1>4, <1>5, <1>6, <1>7, <1>8, <1>9, <1>10, <1>11, <1>12, <1>13 DEF ServeStep

(* Steps of easy-pair: who is past the lock. *)
LEMMA PairKeepsLockHeld ==
  ASSUME IndInv, NEW e \in Pairs, PairStep(e)
  PROVE  LockHeld'
  <1> USE ProcsAssumption DEF IndInv, TypeOK, Go, host, Procs, Tokens, Running, Closing,
       LockHeld, Locked
  <1>1. CASE Pair(e)
    BY <1>1 DEF Pair
  <1>2. CASE Answered(e)
    BY <1>2 DEF Answered
  <1>3. CASE Unanswered(e)
    BY <1>3 DEF Unanswered
  <1>4. CASE SpawnGateway(e)
    BY <1>4 DEF SpawnGateway
  <1>5. CASE NoSpawn(e)
    BY <1>5 DEF NoSpawn
  <1>6. CASE PollAgain(e)
    BY <1>6 DEF PollAgain, LastPoll
  <1>7. CASE Abandon(e)
    BY <1>7 DEF Abandon
  <1> QED
    BY <1>1, <1>2, <1>3, <1>4, <1>5, <1>6, <1>7 DEF PairStep

(* Steps of token: whose listeners are open. *)
LEMMA TokenKeepsListenersHeld ==
  ASSUME IndInv, NEW x \in Procs, TokenStep(x)
  PROVE  ListenersHeld'
  <1> USE ProcsAssumption DEF IndInv, TypeOK, Go, host, Procs, Tokens, Running, Closing,
       ListenersHeld, LockHeld, Locked, Bound
  <1>1. CASE ReadToken(x)
    BY <1>1 DEF ReadToken, AfterToken
  <1>2. CASE Mint(x)
    BY <1>2 DEF Mint
  <1>3. CASE TruncateToken(x)
    BY <1>3 DEF TruncateToken
  <1>4. CASE WriteToken(x)
    BY <1>4 DEF WriteToken, AfterToken, Persist
  <1>5. CASE WriteTokenFails(x)
    BY <1>5 DEF WriteTokenFails
  <1> QED
    BY <1>1, <1>2, <1>3, <1>4, <1>5 DEF TokenStep

(* Steps of serve: whose listeners are open. *)
LEMMA ServeKeepsListenersHeld ==
  ASSUME IndInv, NEW p \in Serves, ServeStep(p)
  PROVE  ListenersHeld'
  <1> USE ProcsAssumption DEF IndInv, TypeOK, Go, host, Procs, Tokens, Running, Closing,
       ListenersHeld, LockHeld, Locked, Bound
  <1>1. CASE Start(p)
    BY <1>1 DEF Start
  <1>2. CASE Lock(p)
    BY <1>2 DEF Lock, LockFree
  <1>3. CASE LockTaken(p)
    BY <1>3 DEF LockTaken, LockFree
  <1>4. CASE Check(p)
    BY <1>4 DEF Check, Stale
  <1>5. CASE Unlink(p)
    BY <1>5 DEF Unlink
  <1>6. CASE Bind(p)
    BY <1>6 DEF Bind
  <1>7. CASE PathInUse(p)
    BY <1>7 DEF PathInUse
  <1>8. CASE Gateway(p)
    BY <1>8 DEF Gateway
  <1>9. CASE PortInUse(p)
    BY <1>9 DEF PortInUse
  <1>10. CASE Stop(p)
    BY <1>10 DEF Stop
  <1>11. CASE CloseLock(p)
    BY <1>11 DEF CloseLock
  <1>12. CASE CloseSocket(p)
    BY <1>12 DEF CloseSocket
  <1>13. CASE ClosePort(p)
    BY <1>13 DEF ClosePort
  <1> QED
    BY <1>1, <1>2, <1>3, <1>4, <1>5, <1>6, <1>7, <1>8, <1>9, <1>10, <1>11, <1>12, <1>13 DEF ServeStep

(* Steps of easy-pair: whose listeners are open. *)
LEMMA PairKeepsListenersHeld ==
  ASSUME IndInv, NEW e \in Pairs, PairStep(e)
  PROVE  ListenersHeld'
  <1> USE ProcsAssumption DEF IndInv, TypeOK, Go, host, Procs, Tokens, Running, Closing,
       ListenersHeld, LockHeld, Locked, Bound
  <1>1. CASE Pair(e)
    BY <1>1 DEF Pair
  <1>2. CASE Answered(e)
    BY <1>2 DEF Answered
  <1>3. CASE Unanswered(e)
    BY <1>3 DEF Unanswered
  <1>4. CASE SpawnGateway(e)
    BY <1>4 DEF SpawnGateway
  <1>5. CASE NoSpawn(e)
    BY <1>5 DEF NoSpawn
  <1>6. CASE PollAgain(e)
    BY <1>6 DEF PollAgain, LastPoll
  <1>7. CASE Abandon(e)
    BY <1>7 DEF Abandon
  <1> QED
    BY <1>1, <1>2, <1>3, <1>4, <1>5, <1>6, <1>7 DEF PairStep

(* Steps of token: the path of a daemon that is up. *)
LEMMA TokenKeepsSocketIsTheServers ==
  ASSUME IndInv, NEW x \in Procs, TokenStep(x)
  PROVE  SocketIsTheServers'
  <1> USE ProcsAssumption DEF IndInv, TypeOK, Go, host, Procs, Tokens, Running, Closing,
       SocketIsTheServers, ListenersHeld, LockHeld, Locked, Bound
  <1>1. CASE ReadToken(x)
    BY <1>1 DEF ReadToken, AfterToken
  <1>2. CASE Mint(x)
    BY <1>2 DEF Mint
  <1>3. CASE TruncateToken(x)
    BY <1>3 DEF TruncateToken
  <1>4. CASE WriteToken(x)
    BY <1>4 DEF WriteToken, AfterToken, Persist
  <1>5. CASE WriteTokenFails(x)
    BY <1>5 DEF WriteTokenFails
  <1> QED
    BY <1>1, <1>2, <1>3, <1>4, <1>5 DEF TokenStep

(* Steps of serve: the path of a daemon that is up. *)
LEMMA ServeKeepsSocketIsTheServers ==
  ASSUME IndInv, NEW p \in Serves, ServeStep(p)
  PROVE  SocketIsTheServers'
  <1> USE ProcsAssumption DEF IndInv, TypeOK, Go, host, Procs, Tokens, Running, Closing,
       SocketIsTheServers, ListenersHeld, LockHeld, Locked, Bound
  <1>1. CASE Start(p)
    BY <1>1 DEF Start
  <1>2. CASE Lock(p)
    BY <1>2 DEF Lock, LockFree
  <1>3. CASE LockTaken(p)
    BY <1>3 DEF LockTaken, LockFree
  <1>4. CASE Check(p)
    BY <1>4 DEF Check, Stale
  <1>5. CASE Unlink(p)
    BY <1>5 DEF Unlink
  <1>6. CASE Bind(p)
    BY <1>6 DEF Bind
  <1>7. CASE PathInUse(p)
    BY <1>7 DEF PathInUse
  <1>8. CASE Gateway(p)
    BY <1>8 DEF Gateway
  <1>9. CASE PortInUse(p)
    BY <1>9 DEF PortInUse
  <1>10. CASE Stop(p)
    BY <1>10 DEF Stop
  <1>11. CASE CloseLock(p)
    BY <1>11 DEF CloseLock
  <1>12. CASE CloseSocket(p)
    BY <1>12 DEF CloseSocket
  <1>13. CASE ClosePort(p)
    BY <1>13 DEF ClosePort
  <1> QED
    BY <1>1, <1>2, <1>3, <1>4, <1>5, <1>6, <1>7, <1>8, <1>9, <1>10, <1>11, <1>12, <1>13 DEF ServeStep

(* Steps of easy-pair: the path of a daemon that is up. *)
LEMMA PairKeepsSocketIsTheServers ==
  ASSUME IndInv, NEW e \in Pairs, PairStep(e)
  PROVE  SocketIsTheServers'
  <1> USE ProcsAssumption DEF IndInv, TypeOK, Go, host, Procs, Tokens, Running, Closing,
       SocketIsTheServers, ListenersHeld, LockHeld, Locked, Bound
  <1>1. CASE Pair(e)
    BY <1>1 DEF Pair
  <1>2. CASE Answered(e)
    BY <1>2 DEF Answered
  <1>3. CASE Unanswered(e)
    BY <1>3 DEF Unanswered
  <1>4. CASE SpawnGateway(e)
    BY <1>4 DEF SpawnGateway
  <1>5. CASE NoSpawn(e)
    BY <1>5 DEF NoSpawn
  <1>6. CASE PollAgain(e)
    BY <1>6 DEF PollAgain, LastPoll
  <1>7. CASE Abandon(e)
    BY <1>7 DEF Abandon
  <1> QED
    BY <1>1, <1>2, <1>3, <1>4, <1>5, <1>6, <1>7 DEF PairStep

(* Steps of token: the way of a start that found nothing open. *)
LEMMA TokenKeepsWayIsClear ==
  ASSUME IndInv, NEW x \in Procs, TokenStep(x)
  PROVE  WayIsClear'
  <1> USE ProcsAssumption DEF IndInv, TypeOK, Go, host, Procs, Tokens, Running, Closing,
       WayIsClear, ListenersHeld, LockHeld, Locked, Bound
  <1>1. CASE ReadToken(x)
    BY <1>1 DEF ReadToken, AfterToken
  <1>2. CASE Mint(x)
    BY <1>2 DEF Mint
  <1>3. CASE TruncateToken(x)
    BY <1>3 DEF TruncateToken
  <1>4. CASE WriteToken(x)
    BY <1>4 DEF WriteToken, AfterToken, Persist
  <1>5. CASE WriteTokenFails(x)
    BY <1>5 DEF WriteTokenFails
  <1> QED
    BY <1>1, <1>2, <1>3, <1>4, <1>5 DEF TokenStep

(* Steps of serve: the way of a start that found nothing open. *)
LEMMA ServeKeepsWayIsClear ==
  ASSUME IndInv, NEW p \in Serves, ServeStep(p)
  PROVE  WayIsClear'
  <1> USE ProcsAssumption DEF IndInv, TypeOK, Go, host, Procs, Tokens, Running, Closing,
       WayIsClear, ListenersHeld, LockHeld, Locked, Bound
  <1>1. CASE Start(p)
    BY <1>1 DEF Start
  <1>2. CASE Lock(p)
    BY <1>2 DEF Lock, LockFree
  <1>3. CASE LockTaken(p)
    BY <1>3 DEF LockTaken, LockFree
  <1>4. CASE Check(p)
    BY <1>4 DEF Check, Stale
  <1>5. CASE Unlink(p)
    BY <1>5 DEF Unlink
  <1>6. CASE Bind(p)
    BY <1>6 DEF Bind
  <1>7. CASE PathInUse(p)
    BY <1>7 DEF PathInUse
  <1>8. CASE Gateway(p)
    BY <1>8 DEF Gateway
  <1>9. CASE PortInUse(p)
    BY <1>9 DEF PortInUse
  <1>10. CASE Stop(p)
    BY <1>10 DEF Stop
  <1>11. CASE CloseLock(p)
    BY <1>11 DEF CloseLock
  <1>12. CASE CloseSocket(p)
    BY <1>12 DEF CloseSocket
  <1>13. CASE ClosePort(p)
    BY <1>13 DEF ClosePort
  <1> QED
    BY <1>1, <1>2, <1>3, <1>4, <1>5, <1>6, <1>7, <1>8, <1>9, <1>10, <1>11, <1>12, <1>13 DEF ServeStep

(* Steps of easy-pair: the way of a start that found nothing open. *)
LEMMA PairKeepsWayIsClear ==
  ASSUME IndInv, NEW e \in Pairs, PairStep(e)
  PROVE  WayIsClear'
  <1> USE ProcsAssumption DEF IndInv, TypeOK, Go, host, Procs, Tokens, Running, Closing,
       WayIsClear, ListenersHeld, LockHeld, Locked, Bound
  <1>1. CASE Pair(e)
    BY <1>1 DEF Pair
  <1>2. CASE Answered(e)
    BY <1>2 DEF Answered
  <1>3. CASE Unanswered(e)
    BY <1>3 DEF Unanswered
  <1>4. CASE SpawnGateway(e)
    BY <1>4 DEF SpawnGateway
  <1>5. CASE NoSpawn(e)
    BY <1>5 DEF NoSpawn
  <1>6. CASE PollAgain(e)
    BY <1>6 DEF PollAgain, LastPoll
  <1>7. CASE Abandon(e)
    BY <1>7 DEF Abandon
  <1> QED
    BY <1>1, <1>2, <1>3, <1>4, <1>5, <1>6, <1>7 DEF PairStep

(* Steps of token: the tokens that have to agree. *)
LEMMA TokenKeepsTokenAgrees ==
  ASSUME IndInv, NetworkOnly, NEW x \in Procs, TokenStep(x)
  PROVE  TokenAgrees'
  <1> USE ProcsAssumption, NoTokenAssumption DEF IndInv, TypeOK, Go, host, Procs,
       Running, Closing, NetworkOnly, TokenAgrees, ListenersHeld, LockHeld, Locked,
       Bound, Settled, Known, Networked
  <1>1. CASE ReadToken(x)
    BY <1>1 DEF ReadToken, AfterToken
  <1>2. CASE Mint(x)
    <2>1. x \in Serves /\ ~Known
      BY <1>2 DEF Mint
    <2>2. <<x, "whole">> \in Tokens
      BY DEF Tokens
    <2> QED
      BY <1>2, <2>1, <2>2 DEF Mint
  <1>3. CASE TruncateToken(x)
    BY <1>3 DEF TruncateToken
  <1>4. CASE WriteToken(x)
    BY <1>4 DEF WriteToken, AfterToken, Persist
  <1>5. CASE WriteTokenFails(x)
    <2>1. x \in Serves /\ ~Known
      BY <1>5 DEF WriteTokenFails
    <2>2. /\ pc' = [pc EXCEPT ![x] = "stopping"]
          /\ key' = [key EXCEPT ![x] = None]
          /\ UNCHANGED <<addr, port>>
      BY <1>5, <2>1 DEF WriteTokenFails
    <2>3. \A p \in Serves : pc'[p] \in Settled => ~Networked(p)'
      BY <2>1, <2>2
    <2>4. \A p \in Serves : pc'[p] \notin {"truncate", "write"}
      BY <1>5, <2>1, <2>2 DEF WriteTokenFails
    <2>5. \A e \in Pairs : pc'[e] = pc[e] /\ key'[e] = None /\ pc[e] # "token"
      BY <2>1, <2>2
    <2>6. \A a \in Addrs \ Loopback : port'[a] = None
      BY <2>1, <2>2
    <2> QED
      BY <2>3, <2>4, <2>5, <2>6
  <1> QED
    BY <1>1, <1>2, <1>3, <1>4, <1>5 DEF TokenStep

(* Steps of serve: the tokens that have to agree. *)
LEMMA ServeKeepsTokenAgrees ==
  ASSUME IndInv, NetworkOnly, NEW p \in Serves, ServeStep(p)
  PROVE  TokenAgrees'
  <1> USE ProcsAssumption, NoTokenAssumption DEF IndInv, TypeOK, Go, host, Procs,
       Running, Closing, NetworkOnly, TokenAgrees, ListenersHeld, LockHeld, Locked,
       Bound, Settled, Known, Networked
  <1>1. CASE Start(p)
    BY <1>1 DEF Start
  <1>2. CASE Lock(p)
    BY <1>2 DEF Lock, LockFree
  <1>3. CASE LockTaken(p)
    BY <1>3 DEF LockTaken, LockFree
  <1>4. CASE Check(p)
    BY <1>4 DEF Check, Stale
  <1>5. CASE Unlink(p)
    BY <1>5 DEF Unlink
  <1>6. CASE Bind(p)
    BY <1>6 DEF Bind
  <1>7. CASE PathInUse(p)
    BY <1>7 DEF PathInUse
  <1>8. CASE Gateway(p)
    BY <1>8 DEF Gateway
  <1>9. CASE PortInUse(p)
    BY <1>9 DEF PortInUse
  <1>10. CASE Stop(p)
    BY <1>10 DEF Stop
  <1>11. CASE CloseLock(p)
    BY <1>11 DEF CloseLock
  <1>12. CASE CloseSocket(p)
    BY <1>12 DEF CloseSocket
  <1>13. CASE ClosePort(p)
    BY <1>13 DEF ClosePort
  <1> QED
    BY <1>1, <1>2, <1>3, <1>4, <1>5, <1>6, <1>7, <1>8, <1>9, <1>10, <1>11, <1>12, <1>13 DEF ServeStep

(* Steps of easy-pair: the tokens that have to agree. *)
LEMMA PairKeepsTokenAgrees ==
  ASSUME IndInv, NetworkOnly, NEW e \in Pairs, PairStep(e)
  PROVE  TokenAgrees'
  <1> USE ProcsAssumption, NoTokenAssumption DEF IndInv, TypeOK, Go, host, Procs,
       Running, Closing, NetworkOnly, TokenAgrees, ListenersHeld, LockHeld, Locked,
       Bound, Settled, Known, Networked
  <1>1. CASE Pair(e)
    BY <1>1 DEF Pair
  <1>2. CASE Answered(e)
    BY <1>2 DEF Answered
  <1>3. CASE Unanswered(e)
    BY <1>3 DEF Unanswered
  <1>4. CASE SpawnGateway(e)
    BY <1>4 DEF SpawnGateway
  <1>5. CASE NoSpawn(e)
    BY <1>5 DEF NoSpawn
  <1>6. CASE PollAgain(e)
    BY <1>6 DEF PollAgain, LastPoll
  <1>7. CASE Abandon(e)
    BY <1>7 DEF Abandon
  <1> QED
    BY <1>1, <1>2, <1>3, <1>4, <1>5, <1>6, <1>7 DEF PairStep

(* Types, whatever the step. *)
LEMMA TypeNext == TypeOK /\ [Next]_vars => TypeOK'
  <1> SUFFICES ASSUME TypeOK, [Next]_vars PROVE TypeOK'
    OBVIOUS
  <1>1. CASE UNCHANGED vars
    BY <1>1 DEF TypeOK, vars, host
  <1>2. CASE Next
    BY <1>2, TypeToken, TypeServe, TypePair DEF Next
  <1> QED
    BY <1>1, <1>2

(* Initially nothing runs and there is no token. *)
LEMMA InitIndInv == Init => IndInv
  <1> SUFFICES ASSUME Init PROVE IndInv
    OBVIOUS
  <1> USE DEF Init
  <1>1. TypeOK
    BY ProcsAssumption, PollsAssumption DEF TypeOK, Procs, Running, Closing
  <1>2. LockHeld /\ ListenersHeld /\ SocketIsTheServers /\ WayIsClear
    BY DEF LockHeld, ListenersHeld, SocketIsTheServers, WayIsClear, Locked, Bound, Procs
  <1>3. TokenAgrees
    BY NoTokenAssumption DEF TokenAgrees, Settled, Procs
  <1> QED
    BY <1>1, <1>2, <1>3 DEF IndInv

(* Every step keeps it. *)
LEMMA NextIndInv == IndInv /\ [Next]_vars => IndInv'
  <1> SUFFICES ASSUME IndInv, [Next]_vars PROVE IndInv'
    OBVIOUS
  <1>1. CASE UNCHANGED vars
    BY <1>1 DEF IndInv, TypeOK, LockHeld, ListenersHeld, SocketIsTheServers,
       WayIsClear, TokenAgrees, Known, Networked, NetworkOnly, vars, host
  <1>2. CASE Next
    <2>1. TypeOK'
      BY TypeNext DEF IndInv
    <2>2. LockHeld'
      BY <1>2, TokenKeepsLockHeld, ServeKeepsLockHeld, PairKeepsLockHeld DEF Next
    <2>3. ListenersHeld'
      BY <1>2, TokenKeepsListenersHeld, ServeKeepsListenersHeld,
         PairKeepsListenersHeld DEF Next
    <2>4. SocketIsTheServers'
      BY <1>2, TokenKeepsSocketIsTheServers, ServeKeepsSocketIsTheServers,
         PairKeepsSocketIsTheServers DEF Next
    <2>5. WayIsClear'
      BY <1>2, TokenKeepsWayIsClear, ServeKeepsWayIsClear, PairKeepsWayIsClear DEF Next
    <2>6. NetworkOnly => TokenAgrees'
      BY <1>2, TokenKeepsTokenAgrees, ServeKeepsTokenAgrees, PairKeepsTokenAgrees DEF Next
    <2> QED
      BY <2>1, <2>2, <2>3, <2>4, <2>5, <2>6 DEF IndInv, NetworkOnly
  <1> QED
    BY <1>1, <1>2

(* The inductive invariant, for any number of processes and addresses. *)
THEOREM IndInvHolds == Spec => []IndInv
  BY InitIndInv, NextIndInv, PTL DEF Spec

(* Every variable stays among the states the processes and files have. *)
THEOREM TypeCorrect == Spec => []TypeOK
  <1>1. IndInv => TypeOK
    BY DEF IndInv
  <1> QED
    BY <1>1, IndInvHolds, PTL

(* No start, however it races with a running daemon, takes the path of its *)
(* socket away (ipc.rs:128-132, under serve.rs:31's lock).                 *)
THEOREM SocketKept == Spec => []SocketIsTheServers
  <1>1. IndInv => SocketIsTheServers
    BY DEF IndInv
  <1> QED
    BY <1>1, IndInvHolds, PTL

(* A daemon that gets the lock with no other listener open comes up: what a*)
(* dead one left on disk is never in its way (ipc.rs:123-132).             *)
THEOREM StaleReplaced == Spec => []StaleNeverBlocks
  <1>1. IndInv => StaleNeverBlocks
    BY DEF IndInv, WayIsClear, StaleNeverBlocks
  <1> QED
    BY <1>1, IndInvHolds, PTL

(* Serve and easy-pair converge on one token (secret.rs:85-86), if easy-   *)
(* pair is given addresses of the network only.                            *)
THEOREM TokensConverge == Spec => []QrIsHonoured
  <1>1. IndInv => QrIsHonoured
    BY DEF IndInv, TokenAgrees, QrIsHonoured
  <1> QED
    BY <1>1, IndInvHolds, PTL
=============================================================================
