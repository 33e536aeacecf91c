--------------------------- MODULE ApprovalsProofs ---------------------------
(***************************************************************************)
(* Proofs about Approvals.  The inductive invariant IndInv is the type     *)
(* invariant, three of the safety invariants and six facts that connect    *)
(* them: the history of an accepted answer, where an answer is on its way, *)
(* what the tasks have done, what answerers were told and whose event a row*)
(* carries.  It is shown to hold initially and to be kept by every action; *)
(* the safety theorems are its consequences, and the refinement of         *)
(* ApprovalContract uses it.  WayInv, on top of it, follows an accepted    *)
(* answer to stdout and to the row.                                        *)
(***************************************************************************)
EXTENDS Approvals, TLAPS

(* Type correctness, one group of actions at a time. *)
LEMMA TypeInit == Init => TypeOK
  BY NoneAssumption, MaxRestartsAssumption DEF Init, TypeOK, NoRow, Verdicts,
     OpenTasks

(* Steps of the shim. *)
LEMMA TypeShim ==
  ASSUME TypeOK, NEW h \in Hooks, ShimStep(h)
  PROVE  TypeOK'
  <1> USE DEF TypeOK, Verdicts, OpenTasks
  <1>1. CASE Launch(h)
    BY <1>1 DEF Launch, daemonVars, askVars, histVars
  <1>2. CASE Skip(h)
    BY <1>2 DEF Skip, daemonVars, askVars, histVars
  <1>3. CASE Deliver(h)
    BY <1>3 DEF Deliver, askVars, histVars
  <1>4. CASE DropEvent(h)
    BY <1>4 DEF DropEvent, daemonVars, askVars, histVars
  <1>5. CASE Recv(h)
    BY <1>5 DEF Recv, Decision, daemonVars, askVars, histVars
  <1>6. CASE TimeOut(h)
    BY <1>6 DEF TimeOut, UnderTimer, daemonVars, askVars, histVars
  <1> QED
    BY <1>1, <1>2, <1>3, <1>4, <1>5, <1>6 DEF ShimStep

(* Steps of the daemon's task for a hook. *)
LEMMA TypeTask ==
  ASSUME TypeOK, NEW h \in Hooks, TaskStep(h)
  PROVE  TypeOK'
  <1> USE DEF TypeOK, Verdicts, OpenTasks, shimVars, askVars, histVars
  <1>1. CASE Accept(h)
    BY <1>1 DEF Accept
  <1>2. CASE HandleEvent(h)
    BY <1>2 DEF HandleEvent, Apply, ActionId
  <1>3. CASE Register(h)
    BY <1>3 DEF Register
  <1>4. CASE WakeAndMark(h)
    BY <1>4 DEF WakeAndMark, Mark
  <1>5. CASE Reply(h)
    BY <1>5 DEF Reply
  <1>6. CASE EndOfStream(h)
    BY <1>6 DEF EndOfStream, SeesEnd
  <1> QED
    BY <1>1, <1>2, <1>3, <1>4, <1>5, <1>6 DEF TaskStep

(* The daemon goes away. *)
LEMMA TypeGone ==
  ASSUME TypeOK, DaemonGone
  PROVE  TypeOK'
  BY DEF TypeOK, DaemonGone, Verdicts, OpenTasks, NoRow, shimVars, histVars

(* An answerer sends its answer. *)
LEMMA TypeAsk ==
  ASSUME TypeOK, NEW a \in Answerers, NEW h \in Hooks, Ask(a, h)
  PROVE  TypeOK'
  BY DEF Ask, TypeOK, shimVars, daemonVars, histVars

(* The daemon handles an answer. *)
LEMMA TypeDecision ==
  ASSUME TypeOK, NEW a \in Answerers, HandleDecision(a)
  PROVE  TypeOK'
  <1> USE DEF TypeOK, Verdicts, shimVars, daemonVars, histVars
  <1>1. CASE ResolveWaiting(a)
    BY <1>1 DEF ResolveWaiting, RegistryWithout
  <1>2. CASE ResolveUnknown(a)
    BY <1>2 DEF ResolveUnknown, NothingWaits
  <1>3. CASE MarkOverHttp(a)
    BY <1>3 DEF MarkOverHttp, Mark
  <1> QED
    BY <1>1, <1>2, <1>3 DEF HandleDecision

(* The daemon is started again. *)
LEMMA TypeRestart ==
  ASSUME TypeOK, Restart
  PROVE  TypeOK'
  BY MaxRestartsAssumption DEF Restart, TypeOK, shimVars, askVars, histVars

(* Steps of the shim. *)
LEMMA ShimKeepsIndInv ==
  ASSUME IndInv, NEW h \in Hooks, ShimStep(h)
  PROVE  IndInv'
  <1>1. CASE Launch(h)
    <2>1. /\ AnswerOnItsWay'
          /\ NoTaskBeforeDelivery'
      BY <1>1 DEF Launch, daemonVars, histVars, IndInv, AnswerOnItsWay,
         NoTaskBeforeDelivery
    <2> QED
      BY <1>1, <2>1, TypeShim DEF IndInv, HistoryAgrees,
         NotAcceptedBeforeRegistered, AsksAgree, RowsAreTheirSessions,
         RegistryIsBacked, ResolutionIsTheRowsOwn, HttpOkMeansMarked, Launch,
         daemonVars, askVars, histVars
  <1>2. CASE Skip(h)
    <2>1. /\ AnswerOnItsWay'
          /\ NoTaskBeforeDelivery'
      BY <1>2 DEF Skip, daemonVars, histVars, IndInv, AnswerOnItsWay,
         NoTaskBeforeDelivery
    <2> QED
      BY <1>2, <2>1, TypeShim DEF IndInv, HistoryAgrees,
         NotAcceptedBeforeRegistered, AsksAgree, RowsAreTheirSessions,
         RegistryIsBacked, ResolutionIsTheRowsOwn, HttpOkMeansMarked, Skip,
         daemonVars, askVars, histVars
  <1>3. CASE Deliver(h)
    <2>1. AnswerOnItsWay'
      BY <1>3 DEF Deliver, histVars, IndInv, AnswerOnItsWay
    <2>2. NoTaskBeforeDelivery'
      BY <1>3 DEF Deliver, IndInv, NoTaskBeforeDelivery, TypeOK
    <2>3. NotAcceptedBeforeRegistered'
      BY <1>3 DEF Deliver, histVars, IndInv, NotAcceptedBeforeRegistered,
         TypeOK, NoTaskBeforeDelivery, Verdicts, OpenTasks
    <2>4. RegistryIsBacked'
      BY <1>3 DEF Deliver, histVars, IndInv, RegistryIsBacked, TypeOK,
         NoTaskBeforeDelivery, Verdicts, OpenTasks
    <2> QED
      BY <1>3, <2>1, <2>2, <2>3, <2>4, TypeShim DEF IndInv, HistoryAgrees,
         AsksAgree, RowsAreTheirSessions, ResolutionIsTheRowsOwn,
         HttpOkMeansMarked, Deliver, askVars, histVars
  <1>4. CASE DropEvent(h)
    <2>1. /\ AnswerOnItsWay'
          /\ NoTaskBeforeDelivery'
      BY <1>4 DEF DropEvent, daemonVars, histVars, IndInv, AnswerOnItsWay,
         NoTaskBeforeDelivery
    <2> QED
      BY <1>4, <2>1, TypeShim DEF IndInv, HistoryAgrees,
         NotAcceptedBeforeRegistered, AsksAgree, RowsAreTheirSessions,
         RegistryIsBacked, ResolutionIsTheRowsOwn, HttpOkMeansMarked,
         DropEvent, daemonVars, askVars, histVars
  <1>5. CASE Recv(h)
    <2>1. NoTaskBeforeDelivery'
      BY <1>5 DEF Recv, Decision, daemonVars, IndInv, NoTaskBeforeDelivery
    <2>2. AnswerOnItsWay'
      BY <1>5 DEF Recv, Decision, daemonVars, histVars, IndInv,
         AnswerOnItsWay, TypeOK
    <2> QED
      BY <1>5, <2>1, <2>2, TypeShim DEF IndInv, HistoryAgrees,
         NotAcceptedBeforeRegistered, AsksAgree, RowsAreTheirSessions,
         RegistryIsBacked, ResolutionIsTheRowsOwn, HttpOkMeansMarked, Recv,
         Decision, daemonVars, askVars, histVars
  <1>6. CASE TimeOut(h)
    <2>1. /\ AnswerOnItsWay'
          /\ NoTaskBeforeDelivery'
      BY <1>6 DEF TimeOut, UnderTimer, daemonVars, histVars, IndInv,
         AnswerOnItsWay, NoTaskBeforeDelivery
    <2> QED
      BY <1>6, <2>1, TypeShim DEF IndInv, HistoryAgrees,
         NotAcceptedBeforeRegistered, AsksAgree, RowsAreTheirSessions,
         RegistryIsBacked, ResolutionIsTheRowsOwn, HttpOkMeansMarked, TimeOut,
         UnderTimer, daemonVars, askVars, histVars
  <1> QED
    BY <1>1, <1>2, <1>3, <1>4, <1>5, <1>6 DEF ShimStep

(* Steps of the daemon's task for a hook. *)
LEMMA TaskKeepsIndInv ==
  ASSUME IndInv, NEW h \in Hooks, TaskStep(h)
  PROVE  IndInv'
  <1>1. CASE Accept(h)
    <2>1. /\ AnswerOnItsWay'
          /\ NoTaskBeforeDelivery'
          /\ NotAcceptedBeforeRegistered'
          /\ RegistryIsBacked'
      BY <1>1 DEF Accept, shimVars, histVars, IndInv, AnswerOnItsWay,
         NoTaskBeforeDelivery, NotAcceptedBeforeRegistered, RegistryIsBacked
    <2> QED
      BY <1>1, <2>1, TypeTask DEF IndInv, HistoryAgrees, AsksAgree,
         RowsAreTheirSessions, ResolutionIsTheRowsOwn, HttpOkMeansMarked,
         Accept, shimVars, askVars, histVars
  <1>2. CASE HandleEvent(h)
    <2>1. /\ NoTaskBeforeDelivery'
          /\ NotAcceptedBeforeRegistered'
          /\ RowsAreTheirSessions'
          /\ RegistryIsBacked'
          /\ ResolutionIsTheRowsOwn'
      BY <1>2 DEF HandleEvent, Apply, ActionId, shimVars, histVars, IndInv,
         NoTaskBeforeDelivery, NotAcceptedBeforeRegistered,
         RowsAreTheirSessions, RegistryIsBacked, ResolutionIsTheRowsOwn
    <2>2. AnswerOnItsWay'
      BY <1>2 DEF HandleEvent, ActionId, shimVars, histVars, IndInv,
         AnswerOnItsWay, TypeOK, Verdicts, OpenTasks
    <2>3. HttpOkMeansMarked'
      BY <1>2, NoneAssumption DEF HandleEvent, Apply, ActionId, askVars,
         histVars, IndInv, HttpOkMeansMarked, TypeOK, AsksAgree,
         HistoryAgrees, NotAcceptedBeforeRegistered, Verdicts, OpenTasks
    <2> QED
      BY <1>2, <2>1, <2>2, <2>3, TypeTask DEF IndInv, HistoryAgrees,
         AsksAgree, HandleEvent, askVars, histVars
  <1>3. CASE Register(h)
    <2>1. /\ AnswerOnItsWay'
          /\ NoTaskBeforeDelivery'
          /\ NotAcceptedBeforeRegistered'
      BY <1>3 DEF Register, shimVars, histVars, IndInv, AnswerOnItsWay,
         NoTaskBeforeDelivery, NotAcceptedBeforeRegistered
    <2>2. RegistryIsBacked'
      BY <1>3, NoneAssumption DEF Register, shimVars, histVars, IndInv,
         RegistryIsBacked, TypeOK, AnswerOnItsWay,
         NotAcceptedBeforeRegistered, Verdicts, OpenTasks
    <2> QED
      BY <1>3, <2>1, <2>2, TypeTask DEF IndInv, HistoryAgrees, AsksAgree,
         RowsAreTheirSessions, ResolutionIsTheRowsOwn, HttpOkMeansMarked,
         Register, shimVars, askVars, histVars
  <1>4. CASE WakeAndMark(h)
    <2>1. /\ AnswerOnItsWay'
          /\ NoTaskBeforeDelivery'
          /\ NotAcceptedBeforeRegistered'
          /\ RowsAreTheirSessions'
      BY <1>4 DEF WakeAndMark, Mark, shimVars, histVars, IndInv,
         AnswerOnItsWay, NoTaskBeforeDelivery, NotAcceptedBeforeRegistered,
         RowsAreTheirSessions
    <2>2. RegistryIsBacked'
      BY <1>4 DEF WakeAndMark, histVars, IndInv, RegistryIsBacked, TypeOK,
         Verdicts, OpenTasks
    <2>3. ResolutionIsTheRowsOwn'
      BY <1>4, NoneAssumption DEF WakeAndMark, Mark, shimVars, histVars,
         IndInv, ResolutionIsTheRowsOwn, TypeOK, AnswerOnItsWay,
         RowsAreTheirSessions, Verdicts, OpenTasks
    <2>4. HttpOkMeansMarked'
      BY <1>4, NoneAssumption DEF WakeAndMark, Mark, shimVars, askVars,
         histVars, IndInv, HttpOkMeansMarked, TypeOK, AnswerOnItsWay,
         ResolutionIsTheRowsOwn, Verdicts, OpenTasks
    <2> QED
      BY <1>4, <2>1, <2>2, <2>3, <2>4, TypeTask DEF IndInv, HistoryAgrees,
         AsksAgree, WakeAndMark, askVars, histVars
  <1>5. CASE Reply(h)
    <2>1. /\ NoTaskBeforeDelivery'
          /\ NotAcceptedBeforeRegistered'
          /\ RegistryIsBacked'
      BY <1>5 DEF Reply, shimVars, histVars, IndInv, NoTaskBeforeDelivery,
         NotAcceptedBeforeRegistered, RegistryIsBacked
    <2>2. AnswerOnItsWay'
      BY <1>5 DEF Reply, shimVars, histVars, IndInv, AnswerOnItsWay, TypeOK,
         Verdicts, OpenTasks
    <2> QED
      BY <1>5, <2>1, <2>2, TypeTask DEF IndInv, HistoryAgrees, AsksAgree,
         RowsAreTheirSessions, ResolutionIsTheRowsOwn, HttpOkMeansMarked,
         Reply, shimVars, askVars, histVars
  <1>6. CASE EndOfStream(h)
    <2>1. /\ AnswerOnItsWay'
          /\ NoTaskBeforeDelivery'
          /\ NotAcceptedBeforeRegistered'
          /\ RegistryIsBacked'
      BY <1>6 DEF EndOfStream, SeesEnd, shimVars, histVars, IndInv,
         AnswerOnItsWay, NoTaskBeforeDelivery, NotAcceptedBeforeRegistered,
         RegistryIsBacked
    <2> QED
      BY <1>6, <2>1, TypeTask DEF IndInv, HistoryAgrees, AsksAgree,
         RowsAreTheirSessions, ResolutionIsTheRowsOwn, HttpOkMeansMarked,
         EndOfStream, SeesEnd, shimVars, askVars, histVars
  <1> QED
    BY <1>1, <1>2, <1>3, <1>4, <1>5, <1>6 DEF TaskStep

(* An answerer sends its answer. *)
LEMMA AskKeepsIndInv ==
  ASSUME IndInv, NEW a \in Answerers, NEW h \in Hooks, Ask(a, h)
  PROVE  IndInv'
  <1>1. HistoryAgrees'
    BY DEF Ask, histVars, IndInv, HistoryAgrees, TypeOK
  <1>2. AsksAgree'
    BY DEF Ask, histVars, IndInv, AsksAgree, TypeOK
  <1>3. HttpOkMeansMarked'
    BY DEF Ask, daemonVars, histVars, IndInv, HttpOkMeansMarked, TypeOK,
       AsksAgree, Verdicts, OpenTasks
  <1> QED
    BY <1>1, <1>2, <1>3, TypeAsk DEF IndInv, AnswerOnItsWay,
       NoTaskBeforeDelivery, NotAcceptedBeforeRegistered,
       RowsAreTheirSessions, RegistryIsBacked, ResolutionIsTheRowsOwn, Ask,
       shimVars, daemonVars, histVars

(* The daemon handles an answer, on either path. *)
LEMMA DecisionKeepsIndInv ==
  ASSUME IndInv, NEW a \in Answerers, HandleDecision(a)
  PROVE  IndInv'
  <1>1. CASE ResolveWaiting(a)
    <2>1. /\ RegistryIsBacked'
          /\ HttpOkMeansMarked'
      BY <1>1 DEF ResolveWaiting, RegistryWithout, IndInv, RegistryIsBacked,
         HttpOkMeansMarked
    <2>2. HistoryAgrees'
      BY <1>1, NoneAssumption DEF ResolveWaiting, RegistryWithout, shimVars,
         IndInv, HistoryAgrees, TypeOK, AnswerOnItsWay, Verdicts, OpenTasks
    <2>3. AnswerOnItsWay'
      BY <1>1 DEF ResolveWaiting, RegistryWithout, shimVars, IndInv,
         AnswerOnItsWay, TypeOK, RegistryIsBacked, Verdicts, OpenTasks
    <2>4. NotAcceptedBeforeRegistered'
      BY <1>1 DEF ResolveWaiting, RegistryWithout, IndInv,
         NotAcceptedBeforeRegistered, TypeOK, RegistryIsBacked, Verdicts,
         OpenTasks
    <2>5. AsksAgree'
      BY <1>1, NoneAssumption DEF ResolveWaiting, RegistryWithout, IndInv,
         AsksAgree, TypeOK, HistoryAgrees, RegistryIsBacked, Verdicts,
         OpenTasks
    <2>6. ResolutionIsTheRowsOwn'
      BY <1>1 DEF ResolveWaiting, RegistryWithout, shimVars, IndInv,
         ResolutionIsTheRowsOwn, TypeOK, RegistryIsBacked, Verdicts, OpenTasks
    <2> QED
      BY <1>1, <2>1, <2>2, <2>3, <2>4, <2>5, <2>6, TypeDecision DEF IndInv,
         NoTaskBeforeDelivery, RowsAreTheirSessions, ResolveWaiting,
         RegistryWithout, shimVars
  <1>2. CASE ResolveUnknown(a)
    <2>1. /\ HistoryAgrees'
          /\ HttpOkMeansMarked'
      BY <1>2 DEF ResolveUnknown, NothingWaits, daemonVars, histVars, IndInv,
         HistoryAgrees, HttpOkMeansMarked
    <2>2. AsksAgree'
      BY <1>2 DEF ResolveUnknown, NothingWaits, histVars, IndInv, AsksAgree,
         TypeOK
    <2> QED
      BY <1>2, <2>1, <2>2, TypeDecision DEF IndInv, AnswerOnItsWay,
         NoTaskBeforeDelivery, NotAcceptedBeforeRegistered,
         RowsAreTheirSessions, RegistryIsBacked, ResolutionIsTheRowsOwn,
         ResolveUnknown, NothingWaits, shimVars, daemonVars, histVars
  <1>3. CASE MarkOverHttp(a)
    <2>1. /\ HistoryAgrees'
          /\ RowsAreTheirSessions'
      BY <1>3 DEF MarkOverHttp, Mark, shimVars, histVars, IndInv,
         HistoryAgrees, RowsAreTheirSessions
    <2>2. AsksAgree'
      BY <1>3 DEF MarkOverHttp, histVars, IndInv, AsksAgree, TypeOK
    <2>3. ResolutionIsTheRowsOwn'
      BY <1>3, NoneAssumption DEF MarkOverHttp, Mark, shimVars, histVars,
         IndInv, ResolutionIsTheRowsOwn, TypeOK, AsksAgree, HistoryAgrees,
         RowsAreTheirSessions, Verdicts, OpenTasks
    <2>4. HttpOkMeansMarked'
      BY <1>3 DEF MarkOverHttp, Mark, histVars, IndInv, HttpOkMeansMarked,
         TypeOK, AsksAgree, Verdicts, OpenTasks
    <2> QED
      BY <1>3, <2>1, <2>2, <2>3, <2>4, TypeDecision DEF IndInv,
         AnswerOnItsWay, NoTaskBeforeDelivery, NotAcceptedBeforeRegistered,
         RegistryIsBacked, MarkOverHttp, shimVars, histVars
  <1> QED
    BY <1>1, <1>2, <1>3 DEF HandleDecision

(* The daemon goes away, by a crash or by an accept that fails. *)
LEMMA GoneKeepsIndInv ==
  ASSUME IndInv, DaemonGone
  PROVE  IndInv'
  <1>1. /\ NoTaskBeforeDelivery'
        /\ NotAcceptedBeforeRegistered'
        /\ RowsAreTheirSessions'
        /\ RegistryIsBacked'
        /\ ResolutionIsTheRowsOwn'
    BY DEF DaemonGone, NoRow, shimVars, histVars, IndInv,
       NoTaskBeforeDelivery, NotAcceptedBeforeRegistered,
       RowsAreTheirSessions, RegistryIsBacked, ResolutionIsTheRowsOwn
  <1>2. HistoryAgrees'
    BY DEF DaemonGone, histVars, IndInv, HistoryAgrees, TypeOK
  <1>3. AnswerOnItsWay'
    BY DEF DaemonGone, shimVars, histVars, IndInv, AnswerOnItsWay, TypeOK,
       Verdicts, OpenTasks
  <1>4. AsksAgree'
    BY DEF DaemonGone, histVars, IndInv, AsksAgree, TypeOK
  <1>5. HttpOkMeansMarked'
    BY NoneAssumption DEF DaemonGone, NoRow, histVars, IndInv,
       HttpOkMeansMarked, TypeOK, AsksAgree, Verdicts, OpenTasks
  <1> QED
    BY <1>1, <1>2, <1>3, <1>4, <1>5, TypeGone DEF IndInv

(* The daemon is started again, with an empty registry. *)
LEMMA RestartKeepsIndInv ==
  ASSUME IndInv, Restart
  PROVE  IndInv'
  <1>1. RegistryIsBacked'
    BY DEF Restart, histVars, IndInv, RegistryIsBacked
  <1> QED
    BY <1>1, TypeRestart DEF IndInv, HistoryAgrees, AnswerOnItsWay,
       NoTaskBeforeDelivery, NotAcceptedBeforeRegistered, AsksAgree,
       RowsAreTheirSessions, ResolutionIsTheRowsOwn, HttpOkMeansMarked,
       Restart, shimVars, askVars, histVars

(* Nothing has happened yet. *)
LEMMA IndInvInit == Init => IndInv
  BY TypeInit, NoneAssumption DEF Init, IndInv, HistoryAgrees, AnswerOnItsWay,
     NoTaskBeforeDelivery, NotAcceptedBeforeRegistered, AsksAgree,
     RowsAreTheirSessions, RegistryIsBacked, ResolutionIsTheRowsOwn,
     HttpOkMeansMarked, NoRow, Verdicts

(* Nothing happens. *)
LEMMA IndInvStutters ==
  ASSUME IndInv, UNCHANGED vars
  PROVE  IndInv'
  BY DEF vars, shimVars, daemonVars, askVars, histVars, IndInv, TypeOK,
     HistoryAgrees, AnswerOnItsWay, NoTaskBeforeDelivery,
     NotAcceptedBeforeRegistered, AsksAgree, RowsAreTheirSessions,
     RegistryIsBacked, ResolutionIsTheRowsOwn, HttpOkMeansMarked

(* The strengthened invariant is inductive, so it holds in every reachable *)
(* state, for any number of hooks, answerers, sessions and restarts.       *)
THEOREM IndInvHolds == Spec => []IndInv
  <1>1. IndInv /\ [Next]_vars => IndInv'
    <2> SUFFICES ASSUME IndInv, [Next]_vars PROVE IndInv'
      OBVIOUS
    <2>1. ASSUME NEW h \in Hooks, ShimStep(h) PROVE IndInv'
      BY <2>1, ShimKeepsIndInv
    <2>2. ASSUME NEW h \in Hooks, TaskStep(h) PROVE IndInv'
      BY <2>2, TaskKeepsIndInv
    <2>3. ASSUME NEW h \in Hooks, AcceptFails(h) PROVE IndInv'
      BY <2>3, GoneKeepsIndInv DEF AcceptFails
    <2>4. ASSUME NEW a \in Answerers, NEW h \in Hooks, Ask(a, h) PROVE IndInv'
      BY <2>4, AskKeepsIndInv
    <2>5. ASSUME NEW a \in Answerers, HandleDecision(a) PROVE IndInv'
      BY <2>5, DecisionKeepsIndInv
    <2>6. CASE Crash
      BY <2>6, GoneKeepsIndInv DEF Crash
    <2>7. CASE Restart
      BY <2>7, RestartKeepsIndInv
    <2>8. CASE UNCHANGED vars
      BY <2>8, IndInvStutters
    <2> QED
      BY <2>1, <2>2, <2>3, <2>4, <2>5, <2>6, <2>7, <2>8 DEF Next
  <1> QED
    BY <1>1, IndInvInit, PTL DEF Spec

(* Every variable stays within its type. *)
THEOREM TypeCorrect == Spec => []TypeOK
  BY IndInvHolds, PTL DEF IndInv

(* No decision is printed that nobody gave: the history of the accepted    *)
(* answer ties stdout to one answerer, its id and its verdict.             *)
THEOREM NeverAllow == Spec => []NeverAllowUnlessAnswered
  <1>1. IndInv => NeverAllowUnlessAnswered
    BY DEF IndInv, TypeOK, HistoryAgrees, AnswerOnItsWay,
       NeverAllowUnlessAnswered
  <1> QED
    BY <1>1, IndInvHolds, PTL

(* At most one answerer is acknowledged for an approval, the winner. *)
THEOREM OneAcknowledged == Spec => []OnlyTheWinnerIsTold
  <1>1. IndInv => OnlyTheWinnerIsTold
    BY DEF IndInv, AsksAgree, OnlyTheWinnerIsTold
  <1> QED
    BY <1>1, IndInvHolds, PTL

(* A row's resolution is the accepted answer of the approval it carries. *)
THEOREM RowsTellTheTruth == Spec => []ResolutionIsTheRowsOwn
  BY IndInvHolds, PTL DEF IndInv

(* A registered sender always has its receiver parked in a live task. *)
THEOREM RegistryBacked == Spec => []RegistryIsBacked
  BY IndInvHolds, PTL DEF IndInv

(* An HTTP ok is never followed by the buttons it answered. *)
THEOREM HttpOkMarks == Spec => []HttpOkMeansMarked
  BY IndInvHolds, PTL DEF IndInv

-----------------------------------------------------------------------------
(* What AnswerIsDelivered and AnswerIsShown say of the end, told of every  *)
(* state: an accepted answer is never lost on its way, and a row that still*)
(* shows the buttons is about to be marked.                                *)

(* A task is past its line only for a hook that asked to wait, in a daemon *)
(* that runs, and has written nothing before it replies.                   *)
TasksKeepOrder ==
  \A h \in Hooks :
    /\ task[h] \in OpenTasks \union {"backlog"} => daemon = "up"
    /\ task[h] \in {"applied", "parked", "replying"} => Awaits(kind[h])
    /\ task[h] \in {"none", "backlog", "reading", "applied", "parked", "replying"} =>
         wire[h] = "none"

(* An answer that was accepted for a hook that asked to wait is with its   *)
(* task, on the wire, or went with the daemon.                             *)
AnswerStands ==
  \A h \in Hooks : accepted[h] # "none" =>
    /\ Awaits(kind[h])
    /\ \/ task[h] \in {"parked", "replying"} /\ chan[h] = accepted[h]
       \/ wire[h] \in {accepted[h], "closed"}

(* A shim that was to wait and ended heard the daemon out, or gave up. *)
HeardOut ==
  \A h \in Hooks : shim[h] = "done" /\ Awaits(kind[h]) /\ task[h] # "none" =>
    gaveUp[h] \/ (wire[h] # "none" /\ printed[h] = Decision(wire[h]))

(* A row with an accepted answer and no mark has a task that will mark it. *)
MarkStands ==
  \A s \in Sessions :
    row[s].id # None /\ row[s].resolution = "none" =>
      \/ accepted[row[s].id] = "none"
      \/ task[row[s].id] = "parked"

WayInv == TasksKeepOrder /\ AnswerStands /\ HeardOut /\ MarkStands

(* Once a shim has ended, the answer accepted for it is on its stdout,     *)
(* unless its own deadline passed or its connection was closed by a daemon *)
(* that went away: no interleaving drops an answer that was acknowledged   *)
(* (event.rs:91, server.rs:71-78).                                         *)
AcceptedIsPrinted ==
  \A h \in Hooks : accepted[h] # "none" /\ shim[h] = "done" =>
    printed[h] = accepted[h] \/ gaveUp[h] \/ wire[h] = "closed"

(* A row whose approval was answered shows that answer, or the task that   *)
(* holds the answer is parked in a daemon that runs and marks it next: the *)
(* buttons never stay for want of anybody to take them away                *)
(* (server.rs:75-77).                                                      *)
AcceptedIsShown ==
  \A h \in Hooks : accepted[h] # "none" /\ row[sess[h]].id = h =>
    \/ row[sess[h]].resolution = accepted[h]
    \/ daemon = "up" /\ task[h] = "parked" /\ chan[h] = accepted[h]

LEMMA WayInvInit == Init => WayInv
  BY DEF Init, NoRow, OpenTasks, WayInv, TasksKeepOrder, AnswerStands, HeardOut, MarkStands

(* The shim's steps: only Deliver starts a task. *)
LEMMA ShimKeepsWay ==
  ASSUME IndInv, WayInv, NEW h \in Hooks, ShimStep(h)
  PROVE  WayInv'
  <1> USE DEF WayInv
  <1>1. /\ task[h] = "none" => accepted[h] = "none"
        /\ shim[h] \in {"idle", "ready"} => task[h] = "none" /\ wire[h] = "none"
        /\ \A k \in Hooks : printed[k] # "none" => shim[k] = "done"
    BY DEF IndInv, NotAcceptedBeforeRegistered, NoTaskBeforeDelivery, TasksKeepOrder,
       AnswerOnItsWay
  <1>2. CASE Launch(h) \/ Skip(h) \/ DropEvent(h)
    <2>1. TasksKeepOrder' /\ AnswerStands' /\ MarkStands'
      BY <1>2 DEF Launch, Skip, DropEvent, daemonVars, histVars, TasksKeepOrder,
         AnswerStands, MarkStands
    <2>2. HeardOut'
      BY <1>1, <1>2 DEF Launch, Skip, DropEvent, daemonVars, HeardOut, IndInv, TypeOK
    <2> QED
      BY <2>1, <2>2
  <1>3. CASE Deliver(h)
    <2>1. TasksKeepOrder'
      BY <1>1, <1>3 DEF Deliver, TasksKeepOrder, IndInv, TypeOK, OpenTasks
    <2>2. AnswerStands' /\ MarkStands'
      BY <1>1, <1>3 DEF Deliver, histVars, AnswerStands, MarkStands, IndInv, TypeOK
    <2>3. HeardOut'
      BY <1>1, <1>3 DEF Deliver, HeardOut, IndInv, TypeOK
    <2> QED
      BY <2>1, <2>2, <2>3
  <1>4. CASE Recv(h) \/ TimeOut(h)
    <2>1. TasksKeepOrder' /\ AnswerStands' /\ MarkStands'
      BY <1>4 DEF Recv, TimeOut, daemonVars, histVars, TasksKeepOrder, AnswerStands,
         MarkStands
    <2>2. HeardOut'
      BY <1>4 DEF Recv, TimeOut, UnderTimer, daemonVars, HeardOut, IndInv, TypeOK
    <2> QED
      BY <2>1, <2>2
  <1> QED
    BY <1>2, <1>3, <1>4 DEF ShimStep

(* The task's steps: the answer moves from the channel to the wire. *)
LEMMA TaskKeepsWay ==
  ASSUME IndInv, WayInv, NEW h \in Hooks, TaskStep(h)
  PROVE  WayInv'
  <1> USE DEF WayInv
  <1>1. CASE Accept(h) \/ EndOfStream(h)
    <2>1. TasksKeepOrder'
      BY <1>1 DEF Accept, EndOfStream, SeesEnd, shimVars, TasksKeepOrder, IndInv, TypeOK, OpenTasks
    <2>2. AnswerStands' /\ HeardOut' /\ MarkStands'
      BY <1>1 DEF Accept, EndOfStream, SeesEnd, shimVars, histVars, AnswerStands, HeardOut,
         MarkStands, IndInv, TypeOK
    <2> QED
      BY <2>1, <2>2
  <1>2. CASE HandleEvent(h)
    <2>1. accepted[h] = "none" /\ wire[h] = "none"
      BY <1>2 DEF HandleEvent, IndInv, NotAcceptedBeforeRegistered, TasksKeepOrder
    <2>2. TasksKeepOrder'
      BY <1>2 DEF HandleEvent, shimVars, TasksKeepOrder, IndInv, TypeOK, OpenTasks
    <2>3. AnswerStands'
      BY <1>2, <2>1 DEF HandleEvent, shimVars, histVars, AnswerStands, IndInv, TypeOK
    <2>4. HeardOut'
      BY <1>2, <2>1 DEF HandleEvent, shimVars, HeardOut, IndInv, TypeOK
    <2>5. MarkStands'
      BY <1>2, <2>1 DEF HandleEvent, Apply, ActionId, shimVars, histVars, MarkStands,
         IndInv, TypeOK
    <2> QED
      BY <2>2, <2>3, <2>4, <2>5
  <1>3. CASE Register(h)
    <2>1. accepted[h] = "none"
      BY <1>3 DEF Register, IndInv, NotAcceptedBeforeRegistered
    <2>2. TasksKeepOrder'
      BY <1>3 DEF Register, shimVars, TasksKeepOrder, IndInv, TypeOK, OpenTasks
    <2>3. AnswerStands' /\ HeardOut' /\ MarkStands'
      BY <1>3, <2>1 DEF Register, shimVars, histVars, AnswerStands, HeardOut, MarkStands,
         IndInv, TypeOK
    <2> QED
      BY <2>2, <2>3
  <1>4. CASE WakeAndMark(h)
    <2>1. TasksKeepOrder'
      BY <1>4 DEF WakeAndMark, shimVars, TasksKeepOrder, IndInv, TypeOK, OpenTasks
    <2>2. AnswerStands' /\ HeardOut'
      BY <1>4 DEF WakeAndMark, shimVars, histVars, AnswerStands, HeardOut, IndInv, TypeOK
    <2>3. MarkStands'
      BY <1>4, NoneAssumption DEF WakeAndMark, Mark, histVars, MarkStands, IndInv, TypeOK,
         Verdicts
    <2> QED
      BY <2>1, <2>2, <2>3
  <1>5. CASE Reply(h)
    <2>1. wire[h] = "none" /\ chan[h] \in Verdicts /\ chan[h] = accepted[h]
      BY <1>5 DEF Reply, TasksKeepOrder, IndInv, AnswerOnItsWay, Verdicts
    <2>2. TasksKeepOrder'
      BY <1>5 DEF Reply, shimVars, TasksKeepOrder, IndInv, TypeOK, OpenTasks
    <2>3. AnswerStands' /\ MarkStands'
      BY <1>5, <2>1 DEF Reply, shimVars, histVars, AnswerStands, MarkStands, IndInv, TypeOK
    <2>4. HeardOut'
      BY <1>5, <2>1 DEF Reply, shimVars, HeardOut, IndInv, TypeOK
    <2> QED
      BY <2>2, <2>3, <2>4
  <1> QED
    BY <1>1, <1>2, <1>3, <1>4, <1>5 DEF TaskStep

(* An answer is taken: the receiver it is handed to is parked. *)
LEMMA DecisionKeepsWay ==
  ASSUME IndInv, WayInv, NEW a \in Answerers, HandleDecision(a)
  PROVE  WayInv'
  <1> USE DEF WayInv
  <1>1. CASE ResolveWaiting(a)
    <2>1. target[a] \in Hooks /\ task[target[a]] = "parked"
      BY <1>1 DEF ResolveWaiting, IndInv, RegistryIsBacked, AsksAgree
    <2>2. TasksKeepOrder' /\ HeardOut'
      BY <1>1 DEF ResolveWaiting, shimVars, TasksKeepOrder, HeardOut
    <2>3. AnswerStands'
      BY <1>1, <2>1 DEF ResolveWaiting, shimVars, TasksKeepOrder, AnswerStands, IndInv, TypeOK
    <2>4. MarkStands'
      BY <1>1, <2>1 DEF ResolveWaiting, MarkStands, IndInv, TypeOK
    <2> QED
      BY <2>2, <2>3, <2>4
  <1>2. CASE ResolveUnknown(a)
    BY <1>2 DEF ResolveUnknown, shimVars, daemonVars, histVars, TasksKeepOrder, AnswerStands,
       HeardOut, MarkStands
  <1>3. CASE MarkOverHttp(a)
    <2>1. TasksKeepOrder' /\ AnswerStands' /\ HeardOut'
      BY <1>3 DEF MarkOverHttp, shimVars, histVars, TasksKeepOrder, AnswerStands, HeardOut
    <2>2. MarkStands'
      BY <1>3 DEF MarkOverHttp, Mark, histVars, MarkStands, IndInv, TypeOK, Verdicts
    <2> QED
      BY <2>1, <2>2
  <1> QED
    BY <1>1, <1>2, <1>3 DEF HandleDecision

(* The daemon goes: whoever was not answered yet is closed on. *)
LEMMA GoneKeepsWay ==
  ASSUME IndInv, WayInv, DaemonGone
  PROVE  WayInv'
  <1> USE DEF WayInv
  <1>1. TasksKeepOrder'
    BY DEF DaemonGone, shimVars, TasksKeepOrder, OpenTasks
  <1>2. AnswerStands'
    <2> SUFFICES ASSUME NEW k \in Hooks, accepted'[k] # "none"
                 PROVE  Awaits(kind'[k]) /\ wire'[k] \in {accepted'[k], "closed"}
      BY DEF AnswerStands
    <2>1. accepted[k] # "none" /\ accepted'[k] = accepted[k] /\ kind' = kind
      BY DEF DaemonGone, shimVars, histVars
    <2>2. task[k] # "none"
      BY <2>1 DEF IndInv, NotAcceptedBeforeRegistered
    <2> QED
      BY <2>1, <2>2 DEF DaemonGone, AnswerStands, TasksKeepOrder
  <1>3. HeardOut'
    BY DEF DaemonGone, shimVars, HeardOut
  <1>4. MarkStands'
    BY DEF DaemonGone, NoRow, MarkStands
  <1> QED
    BY <1>1, <1>2, <1>3, <1>4

(* An accepted answer is never lost on its way, in every reachable state.  *)
THEOREM WayInvHolds == Spec => []WayInv
  <1>1. IndInv /\ WayInv /\ [Next]_vars => WayInv'
    <2> SUFFICES ASSUME IndInv, WayInv, [Next]_vars PROVE WayInv'
      OBVIOUS
    <2>1. ASSUME NEW h \in Hooks, ShimStep(h) PROVE WayInv'
      BY <2>1, ShimKeepsWay
    <2>2. ASSUME NEW h \in Hooks, TaskStep(h) PROVE WayInv'
      BY <2>2, TaskKeepsWay
    <2>3. ASSUME NEW h \in Hooks, AcceptFails(h) PROVE WayInv'
      BY <2>3, GoneKeepsWay DEF AcceptFails
    <2>4. ASSUME NEW a \in Answerers, NEW h \in Hooks, Ask(a, h) PROVE WayInv'
      BY <2>4 DEF Ask, shimVars, daemonVars, histVars, WayInv, TasksKeepOrder, AnswerStands,
         HeardOut, MarkStands
    <2>5. ASSUME NEW a \in Answerers, HandleDecision(a) PROVE WayInv'
      BY <2>5, DecisionKeepsWay
    <2>6. CASE Crash
      BY <2>6, GoneKeepsWay DEF Crash
    <2>7. CASE Restart
      BY <2>7 DEF Restart, shimVars, histVars, WayInv, TasksKeepOrder, AnswerStands,
         HeardOut, MarkStands
    <2>8. CASE UNCHANGED vars
      BY <2>8 DEF vars, shimVars, daemonVars, histVars, WayInv, TasksKeepOrder,
         AnswerStands, HeardOut, MarkStands
    <2> QED
      BY <2>1, <2>2, <2>3, <2>4, <2>5, <2>6, <2>7, <2>8 DEF Next
  <1> QED
    BY <1>1, WayInvInit, IndInvHolds, PTL DEF Spec

(* A shim that ended printed the answer accepted for it, unless its own    *)
(* deadline or the daemon's end came first: the safety half of             *)
(* AnswerIsDelivered, with no fairness assumed (event.rs:91).              *)
THEOREM NoAnswerIsDropped == Spec => []AcceptedIsPrinted
  <1>1. IndInv /\ WayInv => AcceptedIsPrinted
    BY DEF IndInv, TypeOK, NotAcceptedBeforeRegistered, WayInv, TasksKeepOrder, AnswerStands,
       HeardOut, Decision, AcceptedIsPrinted
  <1> QED
    BY <1>1, IndInvHolds, WayInvHolds, PTL

(* A row that carries an answered approval shows the answer, or the task   *)
(* that marks it next holds the answer in a daemon that runs: the safety   *)
(* half of AnswerIsShown (server.rs:75-77).                                *)
THEOREM NoButtonIsForgotten == Spec => []AcceptedIsShown
  <1>1. IndInv /\ WayInv => AcceptedIsShown
    <2> SUFFICES ASSUME IndInv, WayInv, NEW h \in Hooks, accepted[h] # "none",
                        row[sess[h]].id = h
                 PROVE  \/ row[sess[h]].resolution = accepted[h]
                        \/ daemon = "up" /\ task[h] = "parked" /\ chan[h] = accepted[h]
      BY DEF AcceptedIsShown
    <2>1. CASE row[sess[h]].resolution # "none"
      BY <2>1 DEF IndInv, TypeOK, ResolutionIsTheRowsOwn
    <2>2. CASE row[sess[h]].resolution = "none"
      <3>1. task[h] = "parked"
        BY <2>2, NoneAssumption DEF IndInv, TypeOK, WayInv, MarkStands
      <3> QED
        BY <3>1 DEF IndInv, TypeOK, WayInv, TasksKeepOrder, OpenTasks, AnswerStands, Verdicts
    <2> QED
      BY <2>1, <2>2
  <1> QED
    BY <1>1, IndInvHolds, WayInvHolds, PTL

-----------------------------------------------------------------------------
(* The approval path implements its contract: initial states map to initial*)
(* states, and every step to a step of the contract or a stutter.          *)
(* Initial states map to initial states. *)
LEMMA InitMaps == Init => Contract!Init
  BY DEF Init, Contract!Init, Outcome

(* A step that ends no shim and accepts or tells nothing is a stutter. *)
LEMMA OutcomeStutters ==
  ASSUME UNCHANGED <<printed, accepted, winner, told>>,
         \A h \in Hooks : shim'[h] = "done" <=> shim[h] = "done"
  PROVE  UNCHANGED Contract!vars
  BY DEF Contract!vars, Outcome

(* A shim that ends without printing falls back. *)
LEMMA FallBackMaps ==
  ASSUME IndInv, NEW h \in Hooks, shim[h] # "done",
         shim' = [shim EXCEPT ![h] = "done"],
         UNCHANGED <<printed, accepted, winner, told>>
  PROVE  Contract!FallBack(h)
  <1>1. printed[h] = "none"
    BY DEF IndInv, AnswerOnItsWay
  <1>2. Outcome(h) = "open" /\ Outcome(h)' = "silent"
    BY <1>1 DEF Outcome, IndInv, TypeOK
  <1>3. \A g \in Hooks : g # h => Outcome(g)' = Outcome(g)
    BY DEF Outcome, IndInv, TypeOK
  <1> QED
    BY <1>2, <1>3 DEF Contract!FallBack

(* Steps of the shim. *)
LEMMA ShimMaps ==
  ASSUME IndInv, NEW h \in Hooks, ShimStep(h)
  PROVE  [Contract!Next]_(Contract!vars)
  <1>1. CASE Launch(h)
    BY <1>1, OutcomeStutters DEF Launch, askVars, histVars, IndInv, TypeOK
  <1>2. CASE Skip(h)
    BY <1>2, FallBackMaps DEF Skip, askVars, histVars, Contract!Next
  <1>3. CASE Deliver(h)
    <2>1. CASE Awaits(kind[h])
      BY <1>3, <2>1, OutcomeStutters DEF Deliver, askVars, histVars, IndInv,
         TypeOK
    <2>2. CASE ~Awaits(kind[h])
      BY <1>3, <2>2, FallBackMaps DEF Deliver, askVars, histVars,
         Contract!Next
    <2> QED
      BY <2>1, <2>2
  <1>4. CASE DropEvent(h)
    BY <1>4, FallBackMaps DEF DropEvent, askVars, histVars, Contract!Next
  <1>5. CASE Recv(h)
    <2>1. CASE wire[h] \in Verdicts
      <3>1. Contract!Speak(h)
        <4>1. accepted[h] = wire[h] /\ accepted[h] \in Contract!Verdicts
          BY <2>1 DEF IndInv, AnswerOnItsWay, Verdicts, Contract!Verdicts
        <4>2. Outcome(h) = "open" /\ Outcome(h)' = wire[h]
          BY <1>5, <2>1 DEF Recv, Decision, Outcome, Verdicts, IndInv, TypeOK
        <4>3. \A g \in Hooks : g # h => Outcome(g)' = Outcome(g)
          BY <1>5 DEF Recv, Decision, Outcome, IndInv, TypeOK
        <4> QED
          BY <1>5, <4>1, <4>2, <4>3 DEF Recv, Decision, Contract!Speak,
             askVars, histVars
      <3> QED
        BY <3>1 DEF Contract!Next
    <2>2. CASE wire[h] \notin Verdicts
      <3>1. UNCHANGED printed
        BY <1>5, <2>2 DEF Recv, Decision, IndInv, AnswerOnItsWay, TypeOK
      <3> QED
        BY <1>5, <3>1, FallBackMaps DEF Recv, askVars, histVars, Contract!Next
    <2> QED
      BY <2>1, <2>2
  <1>6. CASE TimeOut(h)
    BY <1>6, FallBackMaps DEF TimeOut, UnderTimer, askVars, histVars,
       Contract!Next
  <1> QED
    BY <1>1, <1>2, <1>3, <1>4, <1>5, <1>6 DEF ShimStep

(* The daemon's tasks do not show in the contract. *)
LEMMA TaskMaps ==
  ASSUME NEW h \in Hooks, TaskStep(h)
  PROVE  UNCHANGED Contract!vars
  BY OutcomeStutters DEF TaskStep, Accept, HandleEvent, Register, WakeAndMark,
     Reply, EndOfStream, SeesEnd, shimVars, askVars, histVars

(* Asking shows only when there is no daemon to ask. *)
LEMMA AskMaps ==
  ASSUME IndInv, NEW a \in Answerers, NEW h \in Hooks, Ask(a, h)
  PROVE  [Contract!Next]_(Contract!vars)
  <1>1. CASE daemon = "up"
    <2>1. UNCHANGED told
      BY <1>1 DEF Ask, IndInv, TypeOK, AsksAgree
    <2> QED
      BY <2>1, OutcomeStutters DEF Ask, shimVars, histVars
  <1>2. CASE daemon # "up"
    <2>1. told[a] = "none"
      BY DEF Ask, IndInv, AsksAgree
    <2>2. told' = [b \in Answerers |-> IF b \in {a} THEN "error" ELSE told[b]]
      BY <1>2 DEF Ask, IndInv, TypeOK
    <2>3. Contract!Lose({a})
      BY <2>1, <2>2, OutcomeStutters DEF Ask, Contract!Lose, Outcome,
         shimVars, histVars
    <2> QED
      BY <2>3 DEF Contract!Next
  <1> QED
    BY <1>1, <1>2

(* The answer is accepted, refused or confirmed. *)
LEMMA ResolveMaps ==
  ASSUME IndInv, NEW a \in Answerers, HandleDecision(a)
  PROVE  [Contract!Next]_(Contract!vars)
  <1>1. CASE ResolveWaiting(a)
    <2>1. target[a] \in Hooks /\ answer[a] \in Contract!Verdicts
      BY <1>1 DEF ResolveWaiting, RegistryWithout, IndInv, TypeOK, Verdicts,
         Contract!Verdicts
    <2>2. told[a] = "none" /\ \A g \in Hooks : winner[g] # a
      BY <1>1, NoneAssumption DEF ResolveWaiting, RegistryWithout, IndInv,
         HistoryAgrees, AsksAgree
    <2>3. accepted[target[a]] = "none"
      BY <1>1 DEF ResolveWaiting, RegistryWithout, IndInv, RegistryIsBacked
    <2>4. Contract!Accept(target[a], a, answer[a])
      BY <1>1, <2>1, <2>2, <2>3 DEF ResolveWaiting, RegistryWithout,
         Contract!Accept, shimVars, Outcome
    <2> QED
      BY <2>1, <2>4 DEF Contract!Next
  <1>2. CASE ResolveUnknown(a)
    <2>1. Contract!Refuse(a)
      BY <1>2, NoneAssumption DEF ResolveUnknown, NothingWaits,
         Contract!Refuse, shimVars, histVars, Outcome, IndInv, HistoryAgrees,
         AsksAgree
    <2> QED
      BY <2>1 DEF Contract!Next
  <1>3. CASE MarkOverHttp(a)
    <2>1. Contract!Confirm(a)
      BY <1>3 DEF MarkOverHttp, Contract!Confirm, shimVars, histVars, Outcome,
         IndInv, AsksAgree
    <2> QED
      BY <2>1 DEF Contract!Next
  <1> QED
    BY <1>1, <1>2, <1>3 DEF HandleDecision

(* The daemon goes away with the answers it had not replied to. *)
LEMMA GoneMaps ==
  ASSUME IndInv, DaemonGone
  PROVE  [Contract!Next]_(Contract!vars)
  <1> DEFINE lost == {a \in Answerers : ask[a] \in {"sent", "marking"}}
  <1>1. Contract!Lose(lost)
    BY DEF DaemonGone, Contract!Lose, shimVars, histVars, Outcome, IndInv,
       AsksAgree
  <1> QED
    BY <1>1 DEF Contract!Next

(* The refinement, for every value of the constants. *)
THEOREM Implements == Spec => ImplementsContract
  <1>1. IndInv /\ [Next]_vars => [Contract!Next]_(Contract!vars)
    <2> SUFFICES ASSUME IndInv, [Next]_vars
                 PROVE  [Contract!Next]_(Contract!vars)
      OBVIOUS
    <2>1. ASSUME NEW h \in Hooks, ShimStep(h)
          PROVE  [Contract!Next]_(Contract!vars)
      BY <2>1, ShimMaps
    <2>2. ASSUME NEW h \in Hooks, TaskStep(h)
          PROVE  [Contract!Next]_(Contract!vars)
      BY <2>2, TaskMaps
    <2>3. ASSUME NEW a \in Answerers, NEW h \in Hooks, Ask(a, h)
          PROVE  [Contract!Next]_(Contract!vars)
      BY <2>3, AskMaps
    <2>4. ASSUME NEW a \in Answerers, HandleDecision(a)
          PROVE  [Contract!Next]_(Contract!vars)
      BY <2>4, ResolveMaps
    <2>5. CASE DaemonGone
      BY <2>5, GoneMaps
    <2>6. CASE Restart
      BY <2>6, OutcomeStutters DEF Restart, shimVars, askVars, histVars
    <2>7. CASE UNCHANGED vars
      BY <2>7, OutcomeStutters DEF vars, shimVars, askVars, histVars
    <2> QED
      BY <2>1, <2>2, <2>3, <2>4, <2>5, <2>6, <2>7 DEF Next, AcceptFails, Crash
  <1> QED
    BY <1>1, InitMaps, IndInvHolds, PTL DEF Spec, ImplementsContract,
       Contract!Spec
=============================================================================
