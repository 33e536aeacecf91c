--------------------------- MODULE InboxFeedProofs ---------------------------
(***************************************************************************)
(* Proofs about InboxFeed, for any number of sessions, writers and         *)
(* subscribers and a ring of any size.  NothingIsLost follows from OnItsWay*)
(* : a row a stream was not sent yet is behind its cursor in the ring, or  *)
(* in the outbox of a writer that has released the lock.                   *)
(***************************************************************************)
EXTENDS InboxFeed, FiniteSetTheorems, TLAPS

(* The row of s as it stands was sent to c, is still to be read by it, or  *)
(* is still to be published.                                               *)
WasSent(c, s) == row[s] \in seen[c]
IsInTheRing(c, s) == \E n \in cursor[c]..Len(sent) : sent[n] = row[s]
IsPublishedBy(w, s) == \E i \in DOMAIN outbox[w] : outbox[w][i] = row[s]

OnItsWay(c, s) ==
  WasSent(c, s) \/ IsInTheRing(c, s) \/ \E w \in Writers : IsPublishedBy(w, s)

Following == \A c \in Clients : phase[c] = "streaming" =>
                \A s \in Live : OnItsWay(c, s)

IndInv == TypeOK /\ Following

-----------------------------------------------------------------------------
(* Type correctness.                                                       *)

(* What apply leaves the row of s at is a row. *)
LEMMA FoldIsARow ==
  ASSUME TypeOK, NEW s \in Sessions, NEW n \in 1..MaxChanges
  PROVE  Fold(s, n) \in Rows
  BY DEF TypeOK, Fold, Rows

(* A row written under the lock: a new event, an answer, Herdr's states.   *)
LEMMA TypeWrite ==
  ASSUME TypeOK, NEW w \in Writers, Write(w)
  PROVE  TypeOK'
  <1> USE GoneAssumption, BoundsAssumption DEF TypeOK, clientVars
  <1>1. ASSUME NEW s \in Sessions, Apply(w, s)
        PROVE  TypeOK'
    <2>1. changes' \in 1..MaxChanges
      BY <1>1 DEF Apply
    <2>2. row' = [row EXCEPT ![s] = Fold(s, changes')] /\ Fold(s, changes') \in Rows
      BY <1>1, <2>1, FoldIsARow DEF Apply
    <2>3. outbox' \in [Writers -> Seq(Rows)]
      BY <1>1, <2>2 DEF Apply
    <2>4. aged' \subseteq Present'
      BY <1>1, <2>2 DEF Apply, Present
    <2> QED
      BY <1>1, <2>1, <2>2, <2>3, <2>4 DEF Apply
  <1>2. ASSUME NEW m \in marks, Resolve(w, m)
        PROVE  TypeOK'
    <2> DEFINE s == m[1]
    <2>1. s \in Sessions /\ row[s] \in Rows
      BY <1>2 DEF Resolve
    <2>2. [row[s] EXCEPT !.resolved = TRUE] \in Rows
      BY <2>1 DEF Rows
    <2>3. row' = [row EXCEPT ![s] = [row[s] EXCEPT !.resolved = TRUE]]
      BY <1>2, <2>1 DEF Resolve
    <2>6. row'[s] \in Rows
      BY <2>1, <2>2, <2>3
    <2>7. outbox' = [outbox EXCEPT ![w] = <<row'[s]>>]
      BY <1>2 DEF Resolve
    <2>8. outbox' \in [Writers -> Seq(Rows)]
      BY <2>6, <2>7
    <2>4. row' \in [Sessions -> Rows \union {Gone}]
      BY <2>1, <2>2, <2>3
    <2>5. aged' \subseteq Present'
      BY <1>2, <2>1, <2>2, <2>3 DEF Resolve, Present
    <2> QED
      BY <1>2, <2>4, <2>5, <2>8 DEF Resolve
  <1>3. ASSUME NEW known \in SUBSET Present, NEW states \in [known -> HerdrStates],
               ApplyAgentStates(w, states)
        PROVE  TypeOK'
    <2> DEFINE changed == {s \in DOMAIN states : row[s].state # states[s]}
    <2>1. changed \subseteq Present /\ Present \subseteq Sessions
      BY DEF Present
    <2>2. Cardinality(changed) \in Nat
      BY <2>1, SessionsAssumption, FS_Subset, FS_CardinalityType
    <2>3. \A s \in changed : [row[s] EXCEPT !.state = states[s]] \in Rows
      <3> TAKE s \in changed
      <3>1. row[s] \in Rows
        BY <2>1 DEF Present
      <3>2. states[s] \in HerdrStates
        OBVIOUS
      <3> QED
        BY <3>1, <3>2 DEF Rows
    <2>4. /\ row' = [s \in Sessions |-> IF s \in changed
                                        THEN [row[s] EXCEPT !.state = states[s]]
                                        ELSE row[s]]
          /\ changes' = changes + 1 /\ changes < MaxChanges
          /\ UNCHANGED <<aged, applying, marks, sent, clientVars>>
      BY <1>3 DEF ApplyAgentStates
    <2>5. row' \in [Sessions -> Rows \union {Gone}] /\ \A s \in changed : row'[s] \in Rows
      BY <2>1, <2>3, <2>4
    <2>6. aged' \subseteq Present'
      BY <2>1, <2>4, <2>5 DEF Present
    <2>7. PICK order \in Surjection(1..Cardinality(changed), changed) :
            outbox' = [outbox EXCEPT ![w] = [i \in DOMAIN order |-> row'[order[i]]]]
      BY <1>3 DEF ApplyAgentStates
    <2>8. [i \in DOMAIN order |-> row'[order[i]]] \in Seq(Rows)
      <3> DEFINE k == Cardinality(changed)
      <3> HIDE DEF k
      <3>1. k \in Nat
        BY <2>2 DEF k
      <3>2. order \in [1..k -> changed]
        BY DEF Surjection, k
      <3> HIDE DEF changed
      <3> QED
        BY <2>5, <3>1, <3>2
    <2> HIDE DEF changed
    <2>9. outbox' \in [Writers -> Seq(Rows)]
      BY <2>7, <2>8
    <2> QED
      BY <2>4, <2>5, <2>6, <2>9
  <1> QED
    BY <1>1, <1>2, <1>3 DEF Write

(* Everything that leaves the rows to others. *)
LEMMA TypeRest ==
  ASSUME TypeOK,
         \/ \E w \in Writers : Publish(w)
         \/ \E s \in Sessions : Age(s)
         \/ Prune
         \/ \E c \in Clients : Subscribe(c) \/ Serve(c) \/ Disconnect(c)
  PROVE  TypeOK'
  <1> USE GoneAssumption, BoundsAssumption DEF TypeOK
  <1>1. ASSUME NEW w \in Writers, Publish(w)
        PROVE  TypeOK'
    <2> DEFINE msg == Head(outbox[w])
    <2>1. msg \in Rows /\ Tail(outbox[w]) \in Seq(Rows)
      BY <1>1 DEF Publish, Idle
    <2>2. sent' \in Seq(Rows) /\ Len(sent') = Len(sent) + 1
      BY <1>1, <2>1 DEF Publish
    <2>3. marks' \subseteq Sessions \X (1..MaxChanges) \X Markers
      BY <1>1, <2>1 DEF Publish, Rows
    <2>4. cursor' \in [Clients -> 1..(Len(sent') + 1)]
      BY <1>1, <2>2 DEF Publish, clientVars
    <2> QED
      BY <1>1, <2>1, <2>2, <2>3, <2>4 DEF Publish, rowVars, clientVars, Present
  <1>2. ASSUME NEW s \in Sessions, Age(s)
        PROVE  TypeOK'
    BY <1>2 DEF Age, Present, feedVars, clientVars
  <1>3. CASE Prune
    BY <1>3 DEF Prune, feedVars, clientVars
  <1>4. ASSUME NEW c \in Clients, Subscribe(c)
        PROVE  TypeOK'
    BY <1>4 DEF Subscribe, NextMessage, rowVars, feedVars, Present
  <1>5. ASSUME NEW c \in Clients, Snapshot(c)
        PROVE  TypeOK'
    <2>1. [s \in Sessions |-> IF s \in Live THEN row[s] ELSE Gone]
            \in [Sessions -> Rows \union {Gone}]
      OBVIOUS
    <2>2. {row[s] : s \in Live} \subseteq Rows
      BY DEF Live, Present
    <2> QED
      BY <1>5, <2>1, <2>2 DEF Snapshot, rowVars, feedVars, Present
  <1>6. ASSUME NEW c \in Clients, Recv(c)
        PROVE  TypeOK'
    <2>1. sent[cursor[c]] \in Rows
      BY <1>6 DEF Recv, HasNext
    <2>2. sent[cursor[c]].session \in Sessions
      BY <2>1 DEF Rows
    <2>3. view' \in [Clients -> [Sessions -> Rows \union {Gone}]]
      BY <1>6, <2>1, <2>2 DEF Recv
    <2>4. cursor' \in [Clients -> 1..(Len(sent') + 1)]
      BY <1>6 DEF Recv, HasNext, feedVars
    <2> QED
      BY <1>6, <2>1, <2>3, <2>4 DEF Recv, rowVars, feedVars, Present
  <1>7. ASSUME NEW c \in Clients, DropLagged(c) \/ Disconnect(c)
        PROVE  TypeOK'
    BY <1>7 DEF DropLagged, Disconnect, rowVars, feedVars, Present
  <1> QED
    BY <1>1, <1>2, <1>3, <1>4, <1>5, <1>6, <1>7 DEF Serve

(* What is in a stuttering step. *)
LEMMA TypeStutters ==
  ASSUME TypeOK, UNCHANGED vars
  PROVE  TypeOK'
  BY DEF TypeOK, vars, rowVars, feedVars, clientVars, Present

(* Type correctness: rows, ring, outboxes, cursors and views stay what the *)
(* code keeps them, and no cursor is ever beyond the next message.         *)
THEOREM TypeCorrect == Spec => []TypeOK
  <1>1. Init => TypeOK
    BY CapacityAssumption, BoundsAssumption DEF Init, TypeOK, Present
  <1>2. TypeOK /\ [Next]_vars => TypeOK'
    BY TypeWrite, TypeRest, TypeStutters DEF Next
  <1> QED
    BY <1>1, <1>2, PTL DEF Spec

-----------------------------------------------------------------------------
(* Following.                                                              *)

(* What is on its way stays there while the row, the stream's cursor and   *)
(* what it saw stay, and nothing is taken out of a ring or an outbox.      *)
LEMMA StaysOnItsWay ==
  ASSUME TypeOK, NEW c \in Clients, NEW s \in Sessions, OnItsWay(c, s),
         row'[s] = row[s], seen' = seen, cursor' = cursor, sent' = sent,
         \A w \in Writers : outbox[w] # <<>> => outbox'[w] = outbox[w]
  PROVE  OnItsWay(c, s)'
  <1>1. CASE WasSent(c, s) \/ IsInTheRing(c, s)
    BY <1>1 DEF OnItsWay, WasSent, IsInTheRing
  <1>2. ASSUME NEW w \in Writers, IsPublishedBy(w, s)
        PROVE  OnItsWay(c, s)'
    <2>1. PICK i \in DOMAIN outbox[w] : outbox[w][i] = row[s]
      BY <1>2 DEF IsPublishedBy
    <2>2. outbox[w] # <<>>
      BY <2>1
    <2> QED
      BY <2>1, <2>2 DEF OnItsWay, IsPublishedBy
  <1> QED
    BY <1>1, <1>2 DEF OnItsWay

(* A row that was written is in the outbox of its writer. *)
LEMMA FollowsWrite ==
  ASSUME IndInv, NEW w \in Writers, Write(w)
  PROVE  Following'
  <1> USE DEF IndInv
  <1> SUFFICES ASSUME NEW c \in Clients', phase'[c] = "streaming", NEW s \in Live'
               PROVE  OnItsWay(c, s)'
    BY DEF Following
  <1>1. c \in Clients /\ s \in Sessions /\ outbox[w] = <<>>
    BY DEF Write, Apply, Resolve, ApplyAgentStates, Idle, Live, Present
  <1>2. ASSUME IsPublishedBy(w, s)'
        PROVE  OnItsWay(c, s)'
    BY <1>1, <1>2 DEF OnItsWay
  <1>3. ASSUME row'[s] = row[s], s \notin aged
        PROVE  OnItsWay(c, s)'
    <2>1. phase[c] = "streaming" /\ s \in Live /\ seen' = seen /\ cursor' = cursor /\ sent' = sent
      BY <1>1, <1>3 DEF Live, Present, Write, Apply, Resolve, ApplyAgentStates, clientVars
    <2>2. OnItsWay(c, s)
      BY <1>1, <2>1 DEF Following
    <2>3. \A x \in Writers : outbox[x] # <<>> => outbox'[x] = outbox[x]
      BY <1>1 DEF Write, Apply, Resolve, ApplyAgentStates, TypeOK
    <2> QED
      BY <1>1, <1>3, <2>1, <2>2, <2>3, StaysOnItsWay
  <1>4. ASSUME NEW t \in Sessions, Apply(w, t)
        PROVE  OnItsWay(c, s)'
    <2>1. CASE s = t
      BY <1>1, <1>2, <1>4, <2>1 DEF Apply, IsPublishedBy, TypeOK
    <2>2. CASE s # t
      BY <1>1, <1>3, <1>4, <2>2 DEF Apply, TypeOK, Live
    <2> QED
      BY <2>1, <2>2
  <1>5. ASSUME NEW m \in marks, Resolve(w, m)
        PROVE  OnItsWay(c, s)'
    <2>1. CASE s = m[1]
      <3>1. outbox'[w] = <<row'[s]>>
        BY <1>5, <2>1 DEF Resolve, TypeOK
      <3> QED
        BY <1>2, <3>1 DEF IsPublishedBy
    <2>2. CASE s # m[1]
      BY <1>1, <1>3, <1>5, <2>2 DEF Resolve, TypeOK, Live
    <2> QED
      BY <2>1, <2>2
  <1>6. ASSUME NEW known \in SUBSET Present, NEW states \in [known -> HerdrStates],
               ApplyAgentStates(w, states)
        PROVE  OnItsWay(c, s)'
    <2> DEFINE changed == {x \in DOMAIN states : row[x].state # states[x]}
    <2>1. CASE s \in changed
      <3>1. PICK order \in Surjection(1..Cardinality(changed), changed) :
              outbox' = [outbox EXCEPT ![w] = [i \in DOMAIN order |-> row'[order[i]]]]
        BY <1>6 DEF ApplyAgentStates
      <3>2. PICK i \in DOMAIN order : order[i] = s
        BY <2>1, <3>1 DEF Surjection
      <3>3. DOMAIN outbox'[w] = DOMAIN order /\ outbox'[w][i] = row'[s]
        BY <1>1, <3>1, <3>2 DEF TypeOK
      <3> QED
        BY <1>2, <3>2, <3>3 DEF IsPublishedBy
    <2>2. CASE s \notin changed
      BY <1>1, <1>3, <1>6, <2>2 DEF ApplyAgentStates, Live
    <2> QED
      BY <2>1, <2>2
  <1> QED
    BY <1>4, <1>5, <1>6 DEF Write

(* What a writer publishes moves from its outbox to the end of the ring,   *)
(* behind every cursor.                                                    *)
LEMMA FollowsPublish ==
  ASSUME IndInv, NEW w \in Writers, Publish(w)
  PROVE  Following'
  <1> USE DEF IndInv
  <1> SUFFICES ASSUME NEW c \in Clients', phase'[c] = "streaming", NEW s \in Live'
               PROVE  OnItsWay(c, s)'
    BY DEF Following
  <1> DEFINE msg == Head(outbox[w])
  <1>1. /\ c \in Clients /\ s \in Sessions /\ phase[c] = "streaming" /\ s \in Live
        /\ row'[s] = row[s] /\ seen' = seen /\ cursor' = cursor
    BY DEF Publish, rowVars, clientVars, Live, Present
  <1>2. /\ outbox[w] \in Seq(Rows) /\ outbox[w] # <<>> /\ sent' = Append(sent, msg)
        /\ outbox' = [outbox EXCEPT ![w] = Tail(outbox[w])]
    BY DEF Publish, Idle, TypeOK
  <1>3. /\ msg \in Rows /\ sent \in Seq(Rows) /\ Len(sent') = Len(sent) + 1
        /\ sent'[Len(sent) + 1] = msg /\ \A n \in 1..Len(sent) : sent'[n] = sent[n]
        /\ cursor[c] \in 1..(Len(sent) + 1)
    BY <1>1, <1>2 DEF TypeOK
  <1>4. OnItsWay(c, s)
    BY <1>1 DEF Following
  <1>5. CASE WasSent(c, s)
    BY <1>1, <1>5 DEF OnItsWay, WasSent
  <1>6. CASE IsInTheRing(c, s)
    BY <1>1, <1>3, <1>6 DEF OnItsWay, IsInTheRing
  <1>7. ASSUME NEW x \in Writers, IsPublishedBy(x, s)
        PROVE  OnItsWay(c, s)'
    <2>1. CASE x # w
      BY <1>1, <1>2, <1>7, <2>1 DEF OnItsWay, IsPublishedBy, TypeOK
    <2>2. CASE x = w
      <3>1. PICK i \in DOMAIN outbox[w] : outbox[w][i] = row[s]
        BY <1>7, <2>2 DEF IsPublishedBy
      <3>2. CASE i = 1
        BY <1>1, <1>2, <1>3, <3>1, <3>2 DEF OnItsWay, IsInTheRing
      <3>3. CASE i # 1
        <4>1. outbox'[w] = Tail(outbox[w])
          BY <1>2 DEF TypeOK
        <4>2. i - 1 \in DOMAIN Tail(outbox[w]) /\ Tail(outbox[w])[i - 1] = outbox[w][i]
          BY <1>2, <3>1, <3>3
        <4>3. IsPublishedBy(w, s)'
          BY <1>1, <3>1, <4>1, <4>2 DEF IsPublishedBy
        <4> QED
          BY <4>3 DEF OnItsWay
      <3> QED
        BY <3>2, <3>3
    <2> QED
      BY <2>1, <2>2
  <1> QED
    BY <1>4, <1>5, <1>6, <1>7 DEF OnItsWay

(* Rows that age or are pruned are live no longer. *)
LEMMA FollowsTime ==
  ASSUME IndInv, (\E s \in Sessions : Age(s)) \/ Prune
  PROVE  Following'
  <1> USE DEF IndInv
  <1> SUFFICES ASSUME NEW c \in Clients', phase'[c] = "streaming", NEW s \in Live'
               PROVE  OnItsWay(c, s)'
    BY DEF Following
  <1>1. /\ c \in Clients /\ s \in Sessions /\ s \in Live /\ row'[s] = row[s]
        /\ UNCHANGED <<feedVars, clientVars>>
    BY DEF Age, Prune, Live, Present, TypeOK
  <1>2. OnItsWay(c, s)
    BY <1>1 DEF Following, clientVars
  <1> QED
    BY <1>1, <1>2, StaysOnItsWay DEF feedVars, clientVars

(* A subscriber's own steps: the snapshot has what is live, and a message  *)
(* that is read was sent.                                                  *)
LEMMA FollowsClient ==
  ASSUME IndInv, NEW x \in Clients, Subscribe(x) \/ Serve(x) \/ Disconnect(x)
  PROVE  Following'
  <1> USE DEF IndInv
  <1> SUFFICES ASSUME NEW c \in Clients', phase'[c] = "streaming", NEW s \in Live'
               PROVE  OnItsWay(c, s)'
    BY DEF Following
  <1>1. /\ c \in Clients /\ s \in Sessions /\ s \in Live /\ row' = row
        /\ sent' = sent /\ outbox' = outbox
    BY DEF Subscribe, Serve, Snapshot, Recv, DropLagged, Disconnect, rowVars, feedVars, Live, Present
  <1>2. CASE Snapshot(x) /\ c = x
    <2>1. seen'[c] = {row[t] : t \in Live}
      BY <1>1, <1>2 DEF Snapshot, TypeOK
    <2> QED
      BY <1>1, <2>1 DEF OnItsWay, WasSent
  <1>3. CASE ~(Snapshot(x) /\ c = x)
    <2>1. phase[c] = "streaming"
      BY <1>1, <1>3 DEF Subscribe, Serve, Snapshot, Recv, DropLagged, Disconnect, TypeOK
    <2>2. OnItsWay(c, s)
      BY <1>1, <2>1 DEF Following
    <2>3. CASE Recv(x) /\ c = x
      <3>1. /\ seen'[c] = seen[c] \union {sent[cursor[c]]} /\ cursor'[c] = cursor[c] + 1
            /\ cursor[c] \in 1..(Len(sent) + 1) /\ Len(sent) \in Nat
        BY <1>1, <2>3 DEF Recv, TypeOK
      <3>2. CASE WasSent(c, s)
        BY <1>1, <3>1, <3>2 DEF OnItsWay, WasSent
      <3>3. ASSUME NEW n \in cursor[c]..Len(sent), sent[n] = row[s]
            PROVE  OnItsWay(c, s)'
        <4>1. CASE n = cursor[c]
          BY <1>1, <3>1, <3>3, <4>1 DEF OnItsWay, WasSent
        <4>2. CASE n # cursor[c]
          <5>1. n \in cursor'[c]..Len(sent')
            BY <1>1, <3>1, <4>2
          <5> QED
            BY <1>1, <3>3, <5>1 DEF OnItsWay, IsInTheRing
        <4> QED
          BY <4>1, <4>2
      <3>4. ASSUME NEW w \in Writers, IsPublishedBy(w, s)
            PROVE  OnItsWay(c, s)'
        BY <1>1, <3>4 DEF OnItsWay, IsPublishedBy
      <3> QED
        BY <2>2, <3>2, <3>3, <3>4 DEF OnItsWay, IsInTheRing
    <2>4. CASE ~(Recv(x) /\ c = x)
      <3>1. seen'[c] = seen[c] /\ cursor'[c] = cursor[c]
        BY <1>1, <1>3, <2>1, <2>4 DEF Subscribe, Serve, Snapshot, Recv, DropLagged, Disconnect, TypeOK
      <3> QED
        BY <1>1, <2>2, <3>1 DEF OnItsWay, WasSent, IsInTheRing, IsPublishedBy
    <2> QED
      BY <2>3, <2>4
  <1> QED
    BY <1>2, <1>3

(* Every live row a stream has not been sent is on its way to it.          *)
THEOREM IndInvHolds == Spec => []IndInv
  <1>1. Init => IndInv
    BY CapacityAssumption, BoundsAssumption DEF Init, IndInv, TypeOK, Present, Following
  <1>2. IndInv /\ [Next]_vars => IndInv'
    <2> SUFFICES ASSUME IndInv, [Next]_vars PROVE IndInv'
      OBVIOUS
    <2>1. TypeOK'
      BY TypeWrite, TypeRest, TypeStutters DEF IndInv, Next
    <2>2. CASE UNCHANGED vars
      BY <2>1, <2>2 DEF IndInv, Following, OnItsWay, WasSent, IsInTheRing, IsPublishedBy, Live,
           Present, vars, rowVars, feedVars, clientVars
    <2> QED
      BY <2>1, <2>2, FollowsWrite, FollowsPublish, FollowsTime, FollowsClient DEF IndInv, Next
  <1> QED
    BY <1>1, <1>2, PTL DEF Spec

(* "Late rather than lost" (gateway.rs:149-150, server.rs:95-96), however  *)
(* many writers and subscribers there are and however small the ring: a    *)
(* stream that caught up was sent every live row as it now stands.         *)
THEOREM NothingLost == Spec => []NothingIsLost
  <1>1. IndInv => NothingIsLost
    <2> SUFFICES ASSUME IndInv, NEW c \in Clients, CaughtUp(c), NEW s \in Live
                 PROVE  row[s] \in seen[c]
      BY DEF NothingIsLost
    <2>1. OnItsWay(c, s)
      BY DEF IndInv, Following, CaughtUp
    <2>2. ~IsInTheRing(c, s)
      BY DEF IsInTheRing, CaughtUp, IndInv, TypeOK
    <2>3. \A w \in Writers : ~IsPublishedBy(w, s)
      BY DEF IsPublishedBy, CaughtUp, Idle
    <2> QED
      BY <2>1, <2>2, <2>3 DEF OnItsWay, WasSent
  <1> QED
    BY <1>1, IndInvHolds, PTL

=============================================================================
