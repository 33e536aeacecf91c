------------------------------ MODULE InboxFeed ------------------------------
(***************************************************************************)
(* The inbox as the phone sees it: rows folded from events                 *)
(* (src/src/inbox.rs), the broadcast ring every update is published on,    *)
(* and the subscribers that take a snapshot and then follow the ring       *)
(* (GET /events upgraded to a WebSocket in src/src/gateway.rs, `subscribe` *)
(* on the hook socket in src/src/server.rs).                               *)
(*                                                                         *)
(* Every operation changes rows under the lock and publishes the copy it   *)
(* took after releasing it, so the two are separate steps here and other   *)
(* writers and subscribers come in between.  A row is reduced to what tells*)
(* two of its states apart: the event it shows, whether that event's       *)
(* approval was answered, and Herdr's view of its pane.                    *)
(***************************************************************************)

EXTENDS Integers, Sequences, FiniteSets, Functions

CONSTANTS
  Sessions,     \* agent sessions, one row each
  Gone,         \* the session has no row
  Writers,      \* daemon threads running an inbox operation
  Clients,      \* subscribers
  Once,         \* subscribers that only want the snapshot
  Capacity,     \* BROADCAST_CAPACITY
  MaxChanges,   \* bound on changes to rows
  MaxConnects   \* bound on subscriptions

ASSUME SessionsAssumption == IsFiniteSet(Sessions)
ASSUME OnceAssumption == Once \subseteq Clients
ASSUME CapacityAssumption == Capacity \in Nat \ {0}
ASSUME BoundsAssumption == MaxChanges \in Nat /\ MaxConnects \in Nat

(* Two of the four states Herdr reports (src/src/herdr.rs:20-25) are enough *)
(* to tell a changed row from an unchanged one.                            *)
HerdrStates == {"working", "blocked"}

(* Who may still mark a registered approval: the task it woke, and the HTTP*)
(* handler if the answer came that way.                                    *)
Markers == {"task", "http"}

VARIABLES
  row,        \* row[s]: the session's row, or Gone
  aged,       \* sessions whose row had its last event over 3h ago
  changes,    \* changes made so far; also numbers the events
  outbox,     \* outbox[w]: row copies writer w still has to publish
  applying,   \* applying[w]: w is in apply, and registers its id afterwards
  marks,      \* <<session, event, marker>> of registered approvals
  sent,       \* every message published; the ring holds the last Capacity
  phase,      \* phase[c]: "off", "subscribed", "streaming", "closed"
  cursor,     \* cursor[c]: index in sent of the next message c reads
  view,       \* view[c]: the row c shows for each session, or Gone
  seen,       \* seen[c]: every row c was sent since it subscribed
  connects    \* subscriptions made so far

rowVars == <<row, aged, changes>>
feedVars == <<outbox, applying, marks, sent>>
clientVars == <<phase, cursor, view, seen, connects>>
(* One change publishes at most one message per session. *)
MaxSent == MaxChanges * Cardinality(Sessions)

vars == <<rowVars, feedVars, clientVars>>

Rows == [session : Sessions, event : 1..MaxChanges, resolved : BOOLEAN,
         state : HerdrStates \union {"unknown"}]

ASSUME GoneAssumption == Gone \notin Rows

Present == {s \in Sessions : row[s] # Gone}

Init ==
  /\ row = [s \in Sessions |-> Gone]
  /\ aged = {}
  /\ changes = 0
  /\ outbox = [w \in Writers |-> <<>>]
  /\ applying = [w \in Writers |-> FALSE]
  /\ marks = {}
  /\ sent = <<>>
  /\ phase = [c \in Clients |-> "off"]
  /\ cursor = [c \in Clients |-> 1]
  /\ view = [c \in Clients |-> [s \in Sessions |-> Gone]]
  /\ seen = [c \in Clients |-> {}]
  /\ connects = 0

-----------------------------------------------------------------------------
(* Writers.                                                                *)

Idle(w) == outbox[w] = <<>>

(* from_event and update: a later event replaces what the row shows, clears*)
(* the resolution and keeps Herdr's state.                                 *)
Fold(s, n) ==
  [session |-> s, event |-> n, resolved |-> FALSE,
   state |-> IF row[s] = Gone THEN "unknown" ELSE row[s].state]

(* Inbox::apply, under the lock. *)
Apply(w, s) ==
  /\ Idle(w)
  /\ changes < MaxChanges
  /\ changes' = changes + 1
  /\ row' = [row EXCEPT ![s] = Fold(s, changes')]
  /\ aged' = aged \ {s}
  /\ outbox' = [outbox EXCEPT ![w] = <<row'[s]>>]
  /\ applying' = [applying EXCEPT ![w] = TRUE]
  /\ UNCHANGED <<marks, sent, clientVars>>

(* Inbox::resolve, under the lock, for an approval that was registered: the*)
(* row is marked if it still carries that id, and nothing happens if not.  *)
(* The HTTP handler and the woken task both get here.                      *)
Resolve(w, m) ==
  LET s == m[1] IN
  /\ Idle(w)
  /\ changes < MaxChanges
  /\ row[s] # Gone
  /\ row[s].event = m[2]
  /\ changes' = changes + 1
  /\ row' = [row EXCEPT ![s].resolved = TRUE]
  /\ outbox' = [outbox EXCEPT ![w] = <<row'[s]>>]
  /\ marks' = marks \ {m}
  /\ UNCHANGED <<aged, applying, sent, clientVars>>

(* apply_agent_states, under the lock: the rows whose pane has a new state *)
(* are changed together and published one after the other, in the order of *)
(* the map's iteration.                                                    *)
ApplyAgentStates(w, states) ==
  LET changed == {s \in DOMAIN states : row[s].state # states[s]} IN
  /\ Idle(w)
  /\ changes < MaxChanges
  /\ changed # {}
  /\ changes' = changes + 1
  /\ row' = [s \in Sessions |-> IF s \in changed
                                THEN [row[s] EXCEPT !.state = states[s]]
                                ELSE row[s]]
  /\ \E order \in Surjection(1..Cardinality(changed), changed) :
       outbox' = [outbox EXCEPT ![w] = [i \in DOMAIN order |-> row'[order[i]]]]
  /\ UNCHANGED <<aged, applying, marks, sent, clientVars>>

(* tx.send, after the lock is released.  Only once its row is published    *)
(* does the task that applied an event register the approval.              *)
Publish(w) ==
  LET msg == Head(outbox[w]) IN
  /\ ~Idle(w)
  /\ sent' = Append(sent, msg)
  /\ outbox' = [outbox EXCEPT ![w] = Tail(@)]
  /\ marks' = IF applying[w]
              THEN marks \union ({msg.session} \X {msg.event} \X Markers)
              ELSE marks
  /\ applying' = [applying EXCEPT ![w] = FALSE]
  /\ UNCHANGED <<rowVars, clientVars>>

(* Three hours pass without an event for the session. *)
Age(s) ==
  /\ s \in Present \ aged
  /\ aged' = aged \union {s}
  /\ UNCHANGED <<row, changes, feedVars, clientVars>>

(* prune: archived rows are dropped, and nothing is published. *)
Prune ==
  /\ aged # {}
  /\ row' = [s \in Sessions |-> IF s \in aged THEN Gone ELSE row[s]]
  /\ aged' = {}
  /\ UNCHANGED <<changes, feedVars, clientVars>>

-----------------------------------------------------------------------------
(* Subscribers.                                                            *)

(* A fresh receiver starts behind the last message sent. *)
SkipsOne == Len(sent) + 2
NextMessage == Len(sent) + 1

(* A client, or one that was dropped and comes back, subscribes: from here *)
(* on every message is kept for it.                                        *)
Subscribe(c) ==
  /\ phase[c] \in {"off", "closed"}
  /\ connects < MaxConnects
  /\ connects' = connects + 1
  /\ phase' = [phase EXCEPT ![c] = "subscribed"]
  /\ cursor' = [cursor EXCEPT ![c] = NextMessage]
  /\ view' = [view EXCEPT ![c] = [s \in Sessions |-> Gone]]
  /\ seen' = [seen EXCEPT ![c] = {}]
  /\ UNCHANGED <<rowVars, feedVars>>

(* rows(): what is not archived. *)
ArchivedOnly == Present \intersect aged
Live == Present \ aged

(* The snapshot is taken under the lock and sent. *)
Snapshot(c) ==
  /\ phase[c] = "subscribed"
  /\ phase' = [phase EXCEPT ![c] = IF c \in Once THEN "closed" ELSE "streaming"]
  /\ view' = [view EXCEPT ![c] =
                [s \in Sessions |-> IF s \in Live THEN row[s] ELSE Gone]]
  /\ seen' = [seen EXCEPT ![c] = {row[s] : s \in Live}]
  /\ UNCHANGED <<rowVars, feedVars, cursor, connects>>

(* The ring has dropped the message the client would read next. *)
Lagged(c) == cursor[c] + Capacity <= Len(sent)

NotTheLast(c) == cursor[c] < Len(sent)
HasNext(c) == cursor[c] <= Len(sent)

(* recv, and the row written to the client. *)
Recv(c) ==
  LET msg == sent[cursor[c]] IN
  /\ phase[c] = "streaming"
  /\ HasNext(c)
  /\ ~Lagged(c)
  /\ view' = [view EXCEPT ![c][msg.session] = msg]
  /\ seen' = [seen EXCEPT ![c] = @ \union {msg}]
  /\ cursor' = [cursor EXCEPT ![c] = @ + 1]
  /\ UNCHANGED <<rowVars, feedVars, phase, connects>>

(* A stream that goes on with the oldest message still there. *)
ResumeLagged(c) ==
  /\ phase[c] = "streaming"
  /\ Lagged(c)
  /\ cursor' = [cursor EXCEPT ![c] = Len(sent) - Capacity + 1]
  /\ UNCHANGED <<rowVars, feedVars, phase, view, seen, connects>>

(* recv reports the lag and the stream is closed. *)
DropLagged(c) ==
  /\ phase[c] = "streaming"
  /\ Lagged(c)
  /\ phase' = [phase EXCEPT ![c] = "closed"]
  /\ UNCHANGED <<rowVars, feedVars, cursor, view, seen, connects>>

(* The client goes away; the next write to it fails. *)
Disconnect(c) ==
  /\ phase[c] \in {"subscribed", "streaming"}
  /\ phase' = [phase EXCEPT ![c] = "closed"]
  /\ UNCHANGED <<rowVars, feedVars, cursor, view, seen, connects>>

-----------------------------------------------------------------------------
Write(w) ==
  \/ \E s \in Sessions : Apply(w, s)
  \/ \E m \in marks : Resolve(w, m)
  \/ \E known \in SUBSET Present : \E states \in [known -> HerdrStates] :
       ApplyAgentStates(w, states)

Serve(c) == Snapshot(c) \/ Recv(c) \/ DropLagged(c)

Next ==
  \/ \E w \in Writers : Write(w) \/ Publish(w)
  \/ \E s \in Sessions : Age(s)
  \/ Prune
  \/ \E c \in Clients : Subscribe(c) \/ Serve(c) \/ Disconnect(c)

Spec == Init /\ [][Next]_vars

(* A writer that released the lock goes on to publish, and a subscriber's  *)
(* task is polled whenever it has something to send.                       *)
Fairness ==
  /\ \A w \in Writers : WF_vars(Publish(w))
  /\ \A c \in Clients : WF_vars(Serve(c))

FairSpec == Spec /\ Fairness

-----------------------------------------------------------------------------
(* Type invariant, with the bounds of the cursors. *)
TypeOK ==
  /\ row \in [Sessions -> Rows \union {Gone}]
  /\ aged \subseteq Present
  /\ changes \in 0..MaxChanges
  /\ outbox \in [Writers -> Seq(Rows)]
  /\ applying \in [Writers -> BOOLEAN]
  /\ marks \subseteq Sessions \X (1..MaxChanges) \X Markers
  /\ sent \in Seq(Rows)
  /\ phase \in [Clients -> {"off", "subscribed", "streaming", "closed"}]
  /\ cursor \in [Clients -> 1..(Len(sent) + 1)]
  /\ view \in [Clients -> [Sessions -> Rows \union {Gone}]]
  /\ seen \in [Clients -> SUBSET Rows]
  /\ connects \in 0..MaxConnects

(* The client has read all there is, and nobody is about to publish more. *)
CaughtUp(c) ==
  /\ phase[c] = "streaming"
  /\ cursor[c] = Len(sent) + 1
  /\ \A w \in Writers : Idle(w)

(* "Late rather than lost" (gateway.rs:149-150, server.rs:95-96): a stream *)
(* that caught up without being dropped was sent every row as it now       *)
(* stands, whatever landed between subscribing and the snapshot and however*)
(* often the ring wrapped.                                                 *)
NothingIsLost ==
  \A c \in Clients : CaughtUp(c) => \A s \in Live : row[s] \in seen[c]

(* "Carrying the row as it now stands" (inbox.rs:127-128), "so a phone that*)
(* didn't send the answer still sees the button go away" (152-153): a      *)
(* client that caught up shows what the inbox holds.                       *)
ViewMatchesInbox ==
  \A c \in Clients : CaughtUp(c) => \A s \in Live : view[c][s] = row[s]

(* Liveness: a message published while a client streams is sent to it, or  *)
(* the stream is closed so that the client starts again from a snapshot    *)
(* (gateway.rs:157-163).                                                   *)
EveryUpdateArrives ==
  \A c \in Clients : \A n \in 1..MaxSent :
    phase[c] = "streaming" /\ cursor[c] <= n /\ Len(sent) >= n
      ~> cursor[c] > n \/ phase[c] # "streaming"
=============================================================================
