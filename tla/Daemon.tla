------------------------------- MODULE Daemon -------------------------------
(***************************************************************************)
(* Starting and stopping daemons, and pairing a phone with one             *)
(* (src/src/commands/serve.rs, src/src/ipc.rs, src/src/gateway.rs,         *)
(* src/src/secret.rs, src/src/commands/easy_pair.rs).  Processes share four*)
(* things of the host: the instance lock, the path of the hook socket, the *)
(* gateway's port, and the file of its bearer token.  Any process may be   *)
(* stopped between two steps; what it held open is closed by the kernel one*)
(* descriptor after the other, and the socket's path stays behind.         *)
(***************************************************************************)

EXTENDS Naturals

CONSTANTS
  Serves,    \* runs of `sailor-hook serve`
  Pairs,     \* runs of `sailor-hook easy-pair`
  Addrs,     \* addresses of this host
  Loopback,  \* those no other host can reach
  Hosts,     \* addresses easy-pair is given
  None,      \* nothing, nobody
  Blank,     \* a token file with nothing in it
  MaxPolls   \* bound: polls of easy-pair (20 in the code)

Procs == Serves \union Pairs

(* A minted token, and one whose write was cut short. *)
Tokens == Procs \X {"whole", "part"}

ASSUME ProcsAssumption ==
  /\ Serves \intersect Pairs = {}
  /\ None \notin Procs
  /\ Hosts \subseteq Addrs
ASSUME NoTokenAssumption == None \notin Tokens /\ Blank \notin Tokens
ASSUME PollsAssumption == MaxPolls \in Nat \ {0} /\ None \notin 0..MaxPolls

VARIABLES
  pc,     \* pc[x]: the next step of a process
  addr,   \* addr[x]: the address it binds, or dials
  lock,   \* who holds serve.lock
  path,   \* whose listener the socket's path leads to
  open,   \* the runs of serve whose hook listener is open
  port,   \* port[a]: who listens there for the phone
  token,  \* the file of the gateway token
  key,    \* key[x]: the token a process goes by
  polls,  \* polls[e]: None before the daemon was spawned, then polls made
  clear   \* history: clear[p]: no other listener was open when p got the lock

host == <<lock, path, open, port, token>>
vars == <<pc, addr, host, key, polls, clear>>

(* Off-loopback means the gateway is on a network and asks for the token. *)
Networked(p) == addr[p] \notin Loopback

Go(x, step) == pc' = [pc EXCEPT ![x] = step]

Init ==
  /\ pc = [x \in Procs |-> "off"]
  /\ addr \in [Procs -> Addrs]
  /\ \A e \in Pairs : addr[e] \in Hosts
  /\ lock = None
  /\ path = None
  /\ open = {}
  /\ port = [a \in Addrs |-> None]
  /\ token \in {None, Blank}
  /\ key = [x \in Procs |-> None]
  /\ polls = [e \in Pairs |-> None]
  /\ clear = [p \in Serves |-> FALSE]

-----------------------------------------------------------------------------
(* The gateway token, the same for serve and easy-pair.                    *)

AfterToken(x) == IF x \in Serves THEN "check" ELSE "printed"

(* There is a token in the file. *)
Known == token \in Tokens

ReadToken(x) ==
  /\ pc[x] = "token"
  /\ Known
  /\ key' = [key EXCEPT ![x] = token]
  /\ Go(x, AfterToken(x))
  /\ UNCHANGED <<addr, host, polls, clear>>

Mint(x) ==
  /\ pc[x] = "token"
  /\ ~Known
  /\ key' = [key EXCEPT ![x] = <<x, "whole">>]
  /\ Go(x, "truncate")
  /\ UNCHANGED <<addr, host, polls, clear>>

(* fs::write empties the file, ... *)
TruncateToken(x) ==
  /\ pc[x] = "truncate"
  /\ token' = Blank
  /\ Go(x, "write")
  /\ UNCHANGED <<addr, lock, path, open, port, key, polls, clear>>

(* ... then fills it. *)
PersistNothing(x) == UNCHANGED token
Persist(x) == token' = key[x]

WriteToken(x) ==
  /\ pc[x] = "write"
  /\ Persist(x)
  /\ Go(x, AfterToken(x))
  /\ UNCHANGED <<addr, lock, path, open, port, key, polls, clear>>

(* The disk is full: serve gives up, easy-pair goes on without a token. *)
WriteTokenFails(x) ==
  /\ pc[x] = "write"
  /\ \E left \in {Blank, <<x, "part">>} : token' = left
  /\ key' = [key EXCEPT ![x] = None]
  /\ Go(x, IF x \in Serves THEN "stopping" ELSE "missed")
  /\ UNCHANGED <<addr, lock, path, open, port, polls, clear>>

-----------------------------------------------------------------------------
(* serve.                                                                  *)

Start(p) ==
  /\ pc[p] = "off"
  /\ Go(p, "lock")
  /\ UNCHANGED <<addr, host, key, polls, clear>>

AlwaysFree == TRUE
LockFree == lock = None

(* acquire_instance_lock; loopback needs no token. *)
Lock(p) ==
  /\ pc[p] = "lock"
  /\ LockFree
  /\ lock' = p
  /\ clear' = [clear EXCEPT ![p] = open = {} /\ \A a \in Addrs : port[a] = None]
  /\ Go(p, IF Networked(p) THEN "token" ELSE "check")
  /\ UNCHANGED <<addr, path, open, port, token, key, polls>>

LockTaken(p) ==
  /\ pc[p] = "lock"
  /\ ~LockFree
  /\ Go(p, "failing")
  /\ UNCHANGED <<addr, host, key, polls, clear>>

(* bind: a path nobody listens behind is stale, ... *)
NeverStale == FALSE
Stale == path # None /\ path \notin open

Check(p) ==
  /\ pc[p] = "check"
  /\ Go(p, IF Stale THEN "unlink" ELSE "bind")
  /\ UNCHANGED <<addr, host, key, polls, clear>>

(* ... and removed, *)
Unlink(p) ==
  /\ pc[p] = "unlink"
  /\ path' = None
  /\ Go(p, IF path = None THEN "failing" ELSE "bind")
  /\ UNCHANGED <<addr, lock, open, port, token, key, polls, clear>>

(* then the path must be free. *)
Bind(p) ==
  /\ pc[p] = "bind"
  /\ path = None
  /\ path' = p
  /\ open' = open \union {p}
  /\ Go(p, "gateway")
  /\ UNCHANGED <<addr, lock, port, token, key, polls, clear>>

PathInUse(p) ==
  /\ pc[p] = "bind"
  /\ path # None
  /\ Go(p, "failing")
  /\ UNCHANGED <<addr, host, key, polls, clear>>

(* gateway::serve. *)
Gateway(p) ==
  /\ pc[p] = "gateway"
  /\ port[addr[p]] = None
  /\ port' = [port EXCEPT ![addr[p]] = p]
  /\ Go(p, "serving")
  /\ UNCHANGED <<addr, lock, path, open, token, key, polls, clear>>

PortInUse(p) ==
  /\ pc[p] = "gateway"
  /\ port[addr[p]] # None
  /\ Go(p, "failing")
  /\ UNCHANGED <<addr, host, key, polls, clear>>

(* Ctrl-C, a signal, or an error of a part that select! runs. *)
Running == {"lock", "token", "truncate", "write", "check", "unlink", "bind",
            "gateway", "serving"}
Closing == {"stopping", "failing"}

Stop(p) ==
  /\ pc[p] \in Running
  /\ Go(p, "stopping")
  /\ UNCHANGED <<addr, host, key, polls, clear>>

(* The process is gone one descriptor after the other, in any order. *)
CloseLock(p) ==
  /\ pc[p] \in Closing
  /\ lock = p
  /\ lock' = None
  /\ UNCHANGED <<pc, addr, path, open, port, token, key, polls, clear>>

CloseSocket(p) ==
  /\ pc[p] \in Closing
  /\ p \in open
  /\ open' = open \ {p}
  /\ UNCHANGED <<pc, addr, lock, path, port, token, key, polls, clear>>

ClosePort(p) ==
  /\ pc[p] \in Closing
  /\ port[addr[p]] = p
  /\ port' = [port EXCEPT ![addr[p]] = None]
  /\ UNCHANGED <<pc, addr, lock, path, open, token, key, polls, clear>>

-----------------------------------------------------------------------------
(* easy-pair.                                                              *)

Pair(e) ==
  /\ pc[e] = "off"
  /\ Go(e, "probe")
  /\ UNCHANGED <<addr, host, key, polls, clear>>

(* /health answers; the token comes from local storage. *)
Answered(e) ==
  /\ pc[e] = "probe"
  /\ port[addr[e]] # None
  /\ Go(e, "token")
  /\ UNCHANGED <<addr, host, key, polls, clear>>

(* Nobody answers, or not within the time-out. *)
Unanswered(e) ==
  /\ pc[e] = "probe"
  /\ Go(e, "missed")
  /\ UNCHANGED <<addr, host, key, polls, clear>>

(* The first miss spawns a daemon, once; *)
SpawnGateway(e) ==
  /\ pc[e] = "missed"
  /\ polls[e] = None
  /\ \E p \in Serves :
       /\ pc[p] = "off"
       /\ addr' = [addr EXCEPT ![p] = addr[e]]
       /\ pc' = [pc EXCEPT ![p] = "lock", ![e] = "probe"]
  /\ polls' = [polls EXCEPT ![e] = 0]
  /\ UNCHANGED <<host, key, clear>>

(* without one (--serve is off, or spawn fails) the QR has no token.       *)
NoSpawn(e) ==
  /\ pc[e] = "missed"
  /\ polls[e] = None
  /\ Go(e, "printed")
  /\ UNCHANGED <<addr, host, key, polls, clear>>

(* Later misses are counted. *)
NeverTheLast(e) == FALSE
LastPoll(e) == polls[e] + 1 = MaxPolls

PollAgain(e) ==
  /\ pc[e] = "missed"
  /\ polls[e] # None
  /\ polls' = [polls EXCEPT ![e] = @ + 1]
  /\ Go(e, IF LastPoll(e) THEN "printed" ELSE "probe")
  /\ UNCHANGED <<addr, host, key, clear>>

(* Ctrl-C. *)
Abandon(e) ==
  /\ pc[e] \in {"probe", "missed", "token", "truncate", "write"}
  /\ Go(e, "gone")
  /\ UNCHANGED <<addr, host, key, polls, clear>>

-----------------------------------------------------------------------------
TokenStep(x) ==
  ReadToken(x) \/ Mint(x) \/ TruncateToken(x) \/ WriteToken(x) \/ WriteTokenFails(x)

ServeStep(p) ==
  \/ Start(p) \/ Lock(p) \/ LockTaken(p) \/ Check(p) \/ Unlink(p) \/ Bind(p)
  \/ PathInUse(p) \/ Gateway(p) \/ PortInUse(p) \/ Stop(p)
  \/ CloseLock(p) \/ CloseSocket(p) \/ ClosePort(p)

PairStep(e) ==
  \/ Pair(e) \/ Answered(e) \/ Unanswered(e) \/ SpawnGateway(e) \/ NoSpawn(e)
  \/ PollAgain(e) \/ Abandon(e)

Next ==
  \/ \E x \in Procs : TokenStep(x)
  \/ \E p \in Serves : ServeStep(p)
  \/ \E e \in Pairs : PairStep(e)

Spec == Init /\ [][Next]_vars

-----------------------------------------------------------------------------
(* Steps a process takes only once it has the lock, and only once it has a *)
(* token.                                                                  *)
Locked == {"token", "truncate", "write", "check", "unlink", "bind", "gateway",
           "serving"}
Settled == {"check", "unlink", "bind", "gateway", "serving"}
Bound == {"gateway", "serving"}

(* Type invariant. *)
TypeOK ==
  /\ pc \in [Procs -> Running \union Closing \union
                      {"off", "probe", "missed", "printed", "gone"}]
  /\ \A p \in Serves : pc[p] \in Running \union Closing \union {"off"}
  /\ \A e \in Pairs : pc[e] \in {"off", "probe", "missed", "token", "truncate",
                                 "write", "printed", "gone"}
  /\ addr \in [Procs -> Addrs]
  /\ \A e \in Pairs : addr[e] \in Hosts
  /\ lock \in Serves \union {None}
  /\ path \in Serves \union {None}
  /\ open \subseteq Serves
  /\ port \in [Addrs -> Serves \union {None}]
  /\ token \in Tokens \union {None, Blank}
  /\ key \in [Procs -> Tokens \union {None}]
  /\ polls \in [Pairs -> (0..MaxPolls) \union {None}]
  /\ \A e \in Pairs : pc[e] \notin {"printed", "gone"} => polls[e] # MaxPolls
  /\ clear \in [Serves -> BOOLEAN]

(* "A socket file outlives the process that made it; if nothing is         *)
(* listening on it, it's stale and safe to replace" (ipc.rs:128-129): the  *)
(* path of a daemon that is up leads to that daemon.  A second start that  *)
(* took the path for stale a moment ago does not remove it.                *)
SocketIsTheServers ==
  \A p \in Serves : pc[p] \in Bound => path = p /\ p \in open

(* "Replacing a stale one left by a crashed daemon" (ipc.rs:123): a daemon *)
(* that gets the lock when no listener of another is left open comes up;   *)
(* no path and no port stands in its way, wherever its predecessors died.  *)
StaleNeverBlocks ==
  \A p \in Serves : clear[p] => pc[p] # "failing"

(* Easy-pair is only given addresses that a phone can reach.               *)
NetworkOnly == Hosts \intersect Loopback = {}

(* "They have to converge on the same value" (secret.rs:85-86): whatever   *)
(* daemons started, died or failed to write in between, the token in a     *)
(* phone's QR is the one every daemon on the network asks for, then and    *)
(* later.  Easy-pair has to be given an address of the network: a daemon on*)
(* loopback answers without having minted one.                             *)
QrIsHonoured ==
  NetworkOnly =>
    \A e \in Pairs, p \in Serves :
      pc[e] = "printed" /\ key[e] # None /\ pc[p] \in Settled /\ Networked(p) =>
        key[e] = key[p]

-----------------------------------------------------------------------------
(* Strengthening for the proofs in DaemonProofs.                           *)

(* Who is past the lock holds it. *)
LockHeld == \A p \in Serves : pc[p] \in Locked => lock = p

(* Whose listeners are open. *)
ListenersHeld ==
  /\ \A p \in open : pc[p] \in Bound \union Closing
  /\ \A a \in Addrs : port[a] # None =>
       pc[port[a]] \in Closing \union {"serving"} /\ addr[port[a]] = a

(* What a start that found nothing open finds on its way. *)
WayIsClear ==
  \A p \in Serves : clear[p] =>
    /\ pc[p] \notin {"off", "lock", "failing"}
    /\ pc[p] \in Locked \ Bound => open = {}
    /\ pc[p] \in Locked \ {"serving"} => \A a \in Addrs : port[a] = None
    /\ pc[p] = "unlink" => path # None
    /\ pc[p] = "bind" => path = None

(* Only a daemon mints, while there is no token; what a networked daemon   *)
(* and a QR have is the token in the file.                                 *)
TokenAgrees ==
  /\ \A p \in Serves :
       /\ pc[p] \in {"truncate", "write"} => ~Known /\ key[p] \in Tokens
       /\ pc[p] \in Settled /\ Networked(p) => Known /\ key[p] = token
  /\ \A e \in Pairs :
       /\ pc[e] \notin {"truncate", "write"}
       /\ pc[e] = "token" => Known
       /\ key[e] # None => Known /\ key[e] = token
  /\ \A a \in Addrs \ Loopback : port[a] # None => Known

IndInv ==
  /\ TypeOK
  /\ LockHeld
  /\ ListenersHeld
  /\ SocketIsTheServers
  /\ WayIsClear
  /\ NetworkOnly => TokenAgrees
=============================================================================
