-------------------------- MODULE HookConfigProofs --------------------------
(***************************************************************************)
(* Proofs about HookConfig, for any agents in play, files, binaries,       *)
(* commands and edits.                                                     *)
(*                                                                         *)
(* TypeInv adds to TypeOK that what is about to be written is a file of the*)
(* agent's, that a missing file has no backup, and that the file at hand   *)
(* parses.  KeepInv follows what is not ours through the read, the backup  *)
(* and the write, and TurnInv that a command works on each file once:      *)
(* TheirsSurvive and OverwriteIsRecoverable are not inductive without them.*)
(***************************************************************************)
EXTENDS HookConfig, HookFormatsProofs

(* The agents with a settings file of their own are those we merge into. *)
LEMMA MergedAgents == ToSet(Order) \ Plugins = Mergeable
  <1>1. Order = [i \in 1..8 |-> Order[i]]
    BY DEF Order
  <1>2. DOMAIN Order = 1..8
    BY <1>1
  <1>3. ToSet(Order) = {Order[i] : i \in 1..8}
    BY <1>2 DEF ToSet
  <1>4. \A i \in 1..8 : i = 1 \/ i = 2 \/ i = 3 \/ i = 4 \/ i = 5 \/ i = 6 \/ i = 7 \/ i = 8
    OBVIOUS
  <1>5. ToSet(Order) = {"claude_code", "codex", "opencode", "gemini", "cursor", "kimi",
                        "qwen", "pi"}
    <2>1. /\ Order[1] = "claude_code" /\ Order[2] = "codex" /\ Order[3] = "opencode"
          /\ Order[4] = "gemini" /\ Order[5] = "cursor" /\ Order[6] = "kimi"
          /\ Order[7] = "qwen" /\ Order[8] = "pi"
      BY DEF Order
    <2> QED
      BY <1>3, <1>4, <2>1
  <1> QED
    BY <1>5 DEF Mergeable, Plugins

(* The order of the agents is a list of them. *)
LEMMA OrderType == Order \in Seq(ToSet(Order))
  <1>1. Order = [i \in 1..8 |-> Order[i]]
    BY DEF Order
  <1>2. \A i \in 1..8 : Order[i] \in ToSet(Order)
    BY <1>1 DEF ToSet
  <1> DEFINE S == ToSet(Order)
  <1> HIDE DEF S
  <1>3. [i \in 1..8 |-> Order[i]] \in Seq(S)
    BY <1>2 DEF S
  <1> QED
    BY <1>1, <1>3 DEF S

(* No marker of a missing, blank or broken file is a document. *)
LEMMA MarkersApart ==
  ASSUME NEW a \in Mergeable
  PROVE  /\ a \in ToSet(Order) /\ a \notin Plugins
         /\ Torn \notin Docs(a) /\ Absent \notin Docs(a) /\ Blank \notin Docs(a)
         /\ Other \notin Docs(a)
         /\ Torn # Absent /\ Torn # Blank /\ Torn # Other /\ Other # Absent /\ Other # Blank
         /\ <<>> \in Docs(a)
  <1>1. a \in ToSet(Order) \ Plugins
    BY MergedAgents
  <1>2. Other \notin Docs(a)
    BY OtherAssumption
  <1>3. <<>> \in Docs(a)
    <2> DEFINE e == <<>>
    <2>1. e \in Object(DocValue(a)) /\ ToSet(e) = {}
      BY EmptyObject
    <2> HIDE DEF e
    <2>2. e \in Docs(a)
      BY <2>1, DocMembers DEF WellKeyed
    <2> QED
      BY <2>2 DEF e
  <1> QED
    BY <1>1, <1>2, <1>3, MarkersAssumption

(* A file that is read as a document. *)
LEMMA ParsedType ==
  ASSUME NEW a \in Mergeable, NEW c \in Contents(a)
  PROVE  /\ c \notin {Torn, Other} => Parse(c) \in Docs(a)
         /\ c \in {Torn, Other} => Parse(c) = c
         /\ Parse(c) # Torn /\ Parse(c) # Other => c \notin {Torn, Other}
         /\ Parse(c) = Torn <=> c = Torn
         /\ Parse(c) = Other <=> c = Other
  BY MarkersApart DEF Contents, Parse

(* What is not ours in a document. *)
LEMMA ForeignOfDoc ==
  ASSUME NEW a \in Mergeable, NEW d \in Docs(a)
  PROVE  Foreign(a, d) = [settings |-> Settings(d), hooks |-> ForeignLists(HookLists(a, d))]
  <1>1. a \notin Plugins /\ d \notin {Torn, Other} /\ Parse(d) = d
    BY MarkersApart DEF Parse
  <1> QED
    BY <1>1 DEF Foreign, Settings, ForeignLists, Cleaned, ListAt

(* A missing and a blank file hold nothing, as the empty object does. *)
LEMMA ForeignOfParse ==
  ASSUME NEW a \in Mergeable, NEW c \in Contents(a)
  PROVE  Foreign(a, Parse(c)) = Foreign(a, c)
  <1>1. CASE c \in {Torn, Other}
    BY <1>1, ParsedType
  <1>2. CASE c \notin {Torn, Other}
    <2>1. Parse(c) \in Docs(a)
      BY <1>2, ParsedType
    <2>2. Parse(Parse(c)) = Parse(c) /\ Parse(c) \notin {Torn, Other}
      BY <2>1, MarkersApart DEF Parse
    <2> QED
      BY <1>2, <2>2, MarkersApart DEF Foreign
  <1> QED
    BY <1>1, <1>2

(* What a command is about to write. *)
Results(a) == Docs(a) \union (IF a = "kimi" THEN {} ELSE {Other})

(* Both merges leave what is not ours in the file that was read. *)
LEMMA MergeKeepsTheirs ==
  ASSUME NEW a \in Mergeable, NEW x \in Exes, NEW c \in Contents(a), c # Torn
  PROVE  /\ Install(a, x, Parse(c)) \in Results(a)
         /\ Foreign(a, Install(a, x, Parse(c))) = Foreign(a, c)
         /\ Strip(a, Parse(c)) \in Results(a)
         /\ Foreign(a, Strip(a, Parse(c))) = Foreign(a, c)
  <1> DEFINE d == Parse(c)
  <1>1. CASE c = Other
    <2>1. a # "kimi"
      BY <1>1, MarkersApart DEF Contents
    <2>2. d = Other
      BY <1>1, ParsedType
    <2>3. Install(a, x, d) = Other /\ Strip(a, d) = Other
      BY <2>2 DEF Install, Strip
    <2> QED
      BY <1>1, <2>1, <2>3 DEF Results
  <1>2. CASE c # Other
    <2>1. d \in Docs(a) /\ Foreign(a, d) = Foreign(a, c)
      BY <1>2, ParsedType, ForeignOfParse
    <2> HIDE DEF d
    <2>2. /\ Install(a, x, d) \in Docs(a) /\ TheirsKept(a, d, Install(a, x, d))
          /\ Strip(a, d) \in Docs(a) /\ TheirsKept(a, d, Strip(a, d))
      BY <2>1, InstallKeepsTheirs, StripKeepsTheirs
    <2>3. \A n \in Docs(a) : TheirsKept(a, d, n) => Foreign(a, n) = Foreign(a, d)
      BY <2>1, ForeignOfDoc DEF TheirsKept
    <2> QED
      BY <2>1, <2>2, <2>3 DEF Results, d
  <1> QED
    BY <1>1, <1>2

(* What is written is a file of the agent's, and there. *)
LEMMA ResultsAreContents ==
  ASSUME NEW a \in Mergeable
  PROVE  Results(a) \subseteq Contents(a) /\ Torn \notin Results(a) /\ Absent \notin Results(a)
  BY MarkersApart DEF Results, Contents

(* Both merges do to our hooks what they should. *)
LEMMA MergeIsExact ==
  ASSUME NEW a \in Mergeable, NEW x \in Exes, NEW c \in Contents(a), c # Torn
  PROVE  /\ ~HasSailorHook(a, Strip(a, Parse(c)))
         /\ LET new == Install(a, x, Parse(c)) IN
            new = Other \/ Get(new, "hooks") = Other \/ Complete(a, x, new)
  <1> DEFINE d == Parse(c)
  <1>1. CASE c = Other
    <2>1. d = Other
      BY <1>1, ParsedType
    <2>2. Install(a, x, d) = Other /\ Strip(a, d) = Other
      BY <2>1 DEF Install, Strip
    <2>3. HookLists(a, Other) = {}
      BY DEF HookLists
    <2> QED
      BY <2>2, <2>3 DEF HasSailorHook
  <1>2. CASE c # Other
    <2>1. d \in Docs(a)
      BY <1>2, ParsedType
    <2> HIDE DEF d
    <2>2. ~HasSailorHook(a, Strip(a, d))
      BY <2>1, StripTakesOurs
    <2>3. Get(Install(a, x, d), "hooks") = Other \/ OursOnce(a, x, Install(a, x, d))
      BY <2>1, InstallIsExact
    <2>4. \A key : Exactly(a, x, key) = Expected(a, x, key)
      BY DEF Exactly, Expected, OurRules
    <2>5. OursOnce(a, x, Install(a, x, d)) => Complete(a, x, Install(a, x, d))
      BY <2>4 DEF OursOnce, Complete
    <2> QED
      BY <2>2, <2>3, <2>5 DEF d
  <1> QED
    BY <1>1, <1>2

-----------------------------------------------------------------------------
(* What the user makes of a file.                                          *)

(* One more setting. *)
LEMMA SettingAdded ==
  ASSUME NEW a \in Mergeable, NEW d \in Docs(a)
  PROVE  AddSetting(d) \subseteq Docs(a)
  <1> SUFFICES ASSUME NEW k \in Names \ Keys(d)
               PROVE  Append(d, PairOf(k, Theirs)) \in Docs(a)
    BY DEF AddSetting, PairOf
  <1> DEFINE V == DocValue(a)
             x == PairOf(k, Theirs)
  <1>1. d \in Object(V) /\ WellKeyed(a, ToSet(d))
    BY DocMembers
  <1>2. x.key = k /\ x.value = Theirs /\ x \in Pair(V)
    BY DEF PairOf, Pair, DocValue, Key
  <1> HIDE DEF V, x
  <1>3. d \in Seq(Pair(V)) /\ OneOfEach(d)
    BY <1>1, ObjectMembers
  <1>4. ~Has(d, k)
    BY DEF Has, Keys
  <1>5. Append(d, x) \in Seq(Pair(V)) /\ OneOfEach(Append(d, x))
    BY <1>2, <1>3, <1>4, AppendOneOfEach
  <1>6. ToSet(Append(d, x)) = ToSet(d) \union {x}
    BY <1>3, AppendToSet
  <1>7. WellKeyed(a, ToSet(Append(d, x)))
    BY <1>1, <1>2, <1>6, NamesAssumption DEF WellKeyed
  <1> QED
    BY <1>5, <1>7, DocMembers DEF V, x, Object

(* One more hook, beside ours or in a group of its own. *)
LEMMA HookAdded ==
  ASSUME NEW a \in Mergeable, NEW d \in Docs(a), NEW h \in UserHooks
  PROVE  AddHook(a, d, h) \subseteq Docs(a)
  <1> DEFINE hooks == Get(d, "hooks")
             event == Subscribed(a)[1]
             list  == Get(hooks, event)
             shared == [list EXCEPT ![Len(list)] = IF @ = Other THEN <<h>> ELSE Append(@, h)]
             News == IF a \in Nested
                     THEN {Append(list, <<h>>)} \union (IF list = <<>> THEN {} ELSE {shared})
                     ELSE {Append(list, h)}
  <1>1. CASE ~Has(d, "hooks") \/ hooks = Other \/ a = "kimi" \/ ~Has(hooks, event) \/ list = Other
    BY <1>1 DEF AddHook
  <1>2. CASE ~(~Has(d, "hooks") \/ hooks = Other \/ a = "kimi" \/ ~Has(hooks, event) \/ list = Other)
    <2> DEFINE V == Entries(a) \union {Other}
    <2>1. hooks \in EventTable(a)
      BY <1>2, HooksInType DEF HooksIn, HooksValue
    <2>2. hooks \in Object(V)
      BY <2>1 DEF EventTable
    <2>3. list \in V
      <3> HIDE DEF V, hooks, event
      <3> QED
        BY <1>2, <2>2, ObjectMembers
    <2>4. list \in Entries(a) /\ h \in Hook
      BY <1>2, <2>3 DEF Hook
    <2>5. News \subseteq Entries(a)
      <3> HIDE DEF list
      <3>1. CASE a \in Nested
        <4>1. list \in Seq(Group) /\ <<h>> \in Seq(Hook)
          BY <2>4, <3>1 DEF Entries
        <4>2. Append(list, <<h>>) \in Seq(Group)
          BY <4>1 DEF Group
        <4>3. list # <<>> => shared \in Seq(Group)
          <5>1. \A g \in Group : (IF g = Other THEN <<h>> ELSE Append(g, h)) \in Group
            BY <2>4, <4>1 DEF Group
          <5>2. list # <<>> => Len(list) \in DOMAIN list
            BY <4>1
          <5> HIDE DEF Hook, Group
          <5> SUFFICES ASSUME list # <<>> PROVE shared \in Seq(Group)
            OBVIOUS
          <5>3. PICK n \in Nat : list \in [1..n -> Group] /\ n = Len(list)
            BY <4>1
          <5> DEFINE g == list[n]
                     new == IF g = Other THEN <<h>> ELSE Append(g, h)
          <5>4. n \in 1..n /\ g \in Group /\ new \in Group
            BY <5>1, <5>2, <5>3
          <5>5. shared = [list EXCEPT ![n] = new]
            BY <5>3
          <5> HIDE DEF shared, new
          <5>6. shared \in [1..n -> Group]
            BY <5>3, <5>4, <5>5
          <5> QED
            BY <5>6
        <4> QED
          BY <3>1, <4>2, <4>3 DEF Entries
      <3>2. CASE a \notin Nested
        BY <2>4, <3>2 DEF Entries
      <3> QED
        BY <3>1, <3>2
    <2>6. event \in Key
      <3>1. event \in ToSet(Subscribed(a))
        <4>1. Subscribed(a) # <<>>
          BY DEF Subscribed, Mergeable
        <4>2. Subscribed(a) \in Seq(OurEvents)
          BY SubscribedOnce
        <4>3. 1 \in DOMAIN Subscribed(a)
          BY <4>1, <4>2
        <4> QED
          BY <4>3, InToSet
      <3> QED
        BY <3>1 DEF Key, OurEvents
    <2>7. ASSUME NEW new \in News
          PROVE  Put(d, "hooks", Put(hooks, event, new)) \in Docs(a)
      <3>1. new \in V
        BY <2>5
      <3>2. Put(hooks, event, new) \in Object(V)
        <4> HIDE DEF V, hooks, event
        <4> QED
          BY <2>2, <2>6, <3>1, PutResult
      <3>3. Put(hooks, event, new) \in HooksValue(a)
        BY <1>2, <3>2 DEF HooksValue, EventTable
      <3> HIDE DEF hooks, event
      <3> QED
        BY <3>3, PutHooks
    <2>8. AddHook(a, d, h) = {Put(d, "hooks", Put(hooks, event, new)) : new \in News}
      BY <1>2 DEF AddHook
    <2> HIDE DEF News, hooks, event
    <2> QED
      BY <2>7, <2>8
  <1> QED
    BY <1>1, <1>2

(* What others make of a file is there and parses. *)
LEMMA EditedType ==
  ASSUME NEW a \in Mergeable, NEW c \in Contents(a), NEW new \in Edited(a, c)
  PROVE  new \in Contents(a) /\ new # Torn /\ new # Absent
  <1>1. CASE c \in {Torn, Other}
    <2>1. new \in Repaired(a)
      BY <1>1 DEF Edited
    <2>2. PICK s \in Starts : a \in DOMAIN s /\ new = s[a]
      BY <2>1 DEF Repaired
    <2> QED
      BY <2>1, <2>2, StartsAssumption DEF Repaired
  <1>2. CASE c \notin {Torn, Other}
    <2>1. Parse(c) \in Docs(a)
      BY <1>2, ParsedType
    <2>2. new \in AddSetting(Parse(c)) \/ \E h \in UserHooks : new \in AddHook(a, Parse(c), h)
      BY <1>2 DEF Edited
    <2>3. new \in Docs(a)
      BY <2>1, <2>2, SettingAdded, HookAdded
    <2> QED
      BY <2>3, MarkersApart DEF Contents
  <1> QED
    BY <1>1, <1>2

(* The first settings of a document are one. *)
LEMMA PrefixType ==
  ASSUME NEW a, NEW d \in Docs(a), NEW n \in 0..Len(d)
  PROVE  SubSeq(d, 1, n) \in Docs(a)
  <1> DEFINE V == DocValue(a)
             p == SubSeq(d, 1, n)
  <1>1. d \in Seq(Pair(V)) /\ OneOfEach(d) /\ WellKeyed(a, ToSet(d))
    <2>1. d \in Object(V) /\ WellKeyed(a, ToSet(d))
      BY DocMembers
    <2> HIDE DEF V
    <2> QED
      BY <2>1, ObjectMembers
  <1> HIDE DEF V
  <1>2. PICK N \in Nat : N = Len(d) /\ DOMAIN d = 1..N
    BY <1>1
  <1>3. n \in Nat /\ n <= N
    BY <1>2
  <1>4. p \in Seq(Pair(V)) /\ DOMAIN p = 1..n /\ \A i \in 1..n : i \in 1..N /\ p[i] = d[i]
    BY <1>1, <1>2, <1>3
  <1> HIDE DEF p
  <1>5. OneOfEach(p)
    BY <1>1, <1>2, <1>4 DEF OneOfEach
  <1>6. ToSet(p) \subseteq ToSet(d)
    BY <1>2, <1>4 DEF ToSet
  <1>7. WellKeyed(a, ToSet(p))
    BY <1>1, <1>6 DEF WellKeyed
  <1> QED
    BY <1>4, <1>5, <1>7, DocMembers DEF Object, V, p

(* A write cut short leaves one of the agent's files. *)
LEMMA CutShortType ==
  ASSUME NEW a \in ToSet(Order), a \notin Plugins => merged \in Results(a),
         NEW part \in CutShort(a)
  PROVE  part \in Contents(a) /\ (a \notin Plugins => part # Absent)
  <1>1. CASE a \in Plugins
    BY <1>1 DEF CutShort, Contents, PluginFiles
  <1>2. CASE a \notin Plugins
    <2>1. a \in Mergeable
      BY <1>2, MergedAgents
    <2>2. CASE part = Torn
      BY <1>2, <2>1, <2>2, MarkersApart DEF Contents
    <2>3. CASE part # Torn
      <3> DEFINE rest == ShiftRemove(merged, "hooks")
                 rules == Get(merged, "hooks")
      <3>1. a = "kimi" /\ merged \in Docs(a)
        BY <1>2, <2>3 DEF CutShort, Results
      <3>2. rest \in Docs(a)
        <4>1. merged \in Object(DocValue(a))
          BY <3>1, DocMembers
        <4> QED
          BY <3>1, <4>1, ShiftRemoved, HooksRemoved
      <3>3. ASSUME Has(merged, "hooks"), rules # Other, NEW n \in 1..(Len(rules) - 1)
            PROVE  Put(merged, "hooks", SubSeq(rules, 1, n)) \in Docs(a)
        <4>1. rules \in Seq(Hook)
          BY <3>1, <3>3, HooksInType DEF HooksIn, HooksValue
        <4>2. SubSeq(rules, 1, n) \in Seq(Hook)
          <5> HIDE DEF rules
          <5>1. PICK N \in Nat : N = Len(rules)
            BY <4>1
          <5>2. n \in 1..N /\ 1 \in 1..N
            BY <3>3, <5>1
          <5> QED
            BY <4>1, <5>1, <5>2
        <4>3. SubSeq(rules, 1, n) \in HooksValue(a)
          BY <3>1, <4>2 DEF HooksValue
        <4> QED
          BY <3>1, <4>3, PutHooks
      <3>4. \/ \E n \in 0..Len(rest) : part = SubSeq(rest, 1, n)
            \/ /\ Has(merged, "hooks") /\ rules # Other
               /\ \E n \in 1..(Len(rules) - 1) : part = Put(merged, "hooks", SubSeq(rules, 1, n))
        BY <1>2, <2>3, <3>1 DEF CutShort
      <3> HIDE DEF rest, rules
      <3>5. part \in Docs(a)
        BY <3>2, <3>3, <3>4, PrefixType
      <3> QED
        BY <1>2, <2>1, <3>5, MarkersApart DEF Contents
    <2> QED
      BY <2>2, <2>3
  <1> QED
    BY <1>1, <1>2

-----------------------------------------------------------------------------
(* Types.                                                                  *)

Busy == pc \in {"backup", "truncate", "write"}

Shape == /\ DOMAIN bak = Agents /\ DOMAIN mine = Agents
         /\ Agents \subseteq ToSet(Order) /\ Agents # {}
ResultReady == Busy /\ Head(queue) \notin Plugins => merged \in Results(Head(queue))
AbsentTwice == \A a \in Merged : file[a] = Absent => bak[a] = Absent
NothingTorn == Busy => file[Head(queue)] # Torn
TypeInv == TypeOK /\ Shape /\ ResultReady /\ AbsentTwice /\ NothingTorn

Files == \A a \in Agents : {file[a], bak[a]} \subseteq Contents(a)

(* The agent the command is at. *)
LEMMA HeadOfQueue ==
  ASSUME TypeInv, pc # "idle"
  PROVE  /\ Head(queue) \in Agents /\ Head(queue) \in ToSet(Order)
         /\ Head(queue) \notin Plugins => Head(queue) \in Mergeable
         /\ Tail(queue) \in Seq(Agents)
  <1>1. queue \in Seq(Agents) /\ queue # <<>> /\ Agents \subseteq ToSet(Order)
    BY DEF TypeInv, TypeOK, Shape
  <1>2. Head(queue) \in Agents /\ Tail(queue) \in Seq(Agents)
    BY <1>1
  <1> QED
    BY <1>1, <1>2, MergedAgents

(* On to the next agent, or done. *)
LEMMA AdvanceType ==
  ASSUME TypeInv, pc # "idle", Advance
  PROVE  /\ pc' \in {"idle", "read"} /\ op' = op /\ exe' = exe
         /\ queue' \in Seq(Agents)
         /\ pc' = "idle" <=> queue' = <<>>
  BY HeadOfQueue DEF Advance

(* Another content in one file. *)
LEMMA FilePut ==
  ASSUME TypeInv, NEW a \in Agents, NEW c \in Contents(a),
         file' = [file EXCEPT ![a] = c], bak' = bak,
         a \notin Plugins => c # Absent
  PROVE  Agents' = Agents /\ Files' /\ AbsentTwice'
  <1>1. Agents' = Agents
    BY DEF Agents
  <1>2. \A b \in Agents : file'[b] = IF b = a THEN c ELSE file[b]
    BY DEF Agents
  <1>3. Files'
    BY <1>1, <1>2 DEF TypeInv, TypeOK, Files
  <1>4. AbsentTwice'
    BY <1>1, <1>2 DEF TypeInv, AbsentTwice, Merged
  <1> QED
    BY <1>1, <1>3, <1>4

(* Files left alone. *)
LEMMA SameFiles ==
  ASSUME TypeInv, UNCHANGED <<file, bak>>
  PROVE  Agents' = Agents /\ Files' /\ AbsentTwice'
  <1>1. Agents' = Agents
    BY DEF Agents
  <1> QED
    BY <1>1 DEF TypeInv, TypeOK, Files, AbsentTwice, Merged

(* What is left to check of a step: the command, the counters, the history.*)
Control ==
  /\ pc \in {"idle", "read", "backup", "truncate", "write"}
  /\ op \in {"install", "uninstall"}
  /\ exe \in Exes
  /\ queue \in Seq(Agents)
  /\ pc = "idle" <=> queue = <<>>
Counters ==
  /\ commands \in 0..MaxCommands
  /\ edits \in 0..MaxEdits
  /\ trace \in [Agents -> {"whole", "raced", "missed", "cut", "late"}]

Fits == Busy => merged \in Contents(Head(queue))

(* The parts make up the type invariant. *)
LEMMA TypeInvParts ==
  /\ TypeInv => Control /\ Counters /\ Files /\ Shape /\ ResultReady /\ AbsentTwice /\ NothingTorn
  /\ /\ Control /\ Counters /\ Files /\ Shape /\ ResultReady /\ AbsentTwice /\ NothingTorn
     /\ Fits
     => TypeInv
  BY DEF TypeInv, TypeOK, Control, Counters, Files, Busy, Fits

(* It holds at first. *)
LEMMA InitTypeInv == Init => TypeInv
  <1> SUFFICES ASSUME Init PROVE TypeInv
    OBVIOUS
  <1>1. /\ file \in Starts /\ bak = [a \in Agents |-> Absent] /\ pc = "idle"
        /\ op = "install" /\ exe \in Exes /\ queue = <<>> /\ commands = 0 /\ edits = 0
        /\ mine = [a \in Agents |-> Foreign(a, file[a])]
        /\ trace = [a \in Agents |-> "whole"]
    BY DEF Init
  <1>2. /\ Agents \subseteq ToSet(Order) /\ Agents # {}
        /\ \A a \in Agents : file[a] \in Contents(a)
    BY <1>1, StartsAssumption DEF Agents
  <1>3. Shape
    BY <1>1, <1>2 DEF Shape
  <1>4. Files /\ AbsentTwice
    <2>1. \A a \in Agents : bak[a] = Absent /\ Absent \in Contents(a)
      BY <1>1 DEF Contents, PluginFiles
    <2> QED
      BY <1>2, <2>1 DEF Files, AbsentTwice, Merged
  <1>5. Control /\ Counters
    BY <1>1, BoundsAssumption DEF Control, Counters
  <1>6. ~Busy
    BY <1>1 DEF Busy
  <1> QED
    BY <1>3, <1>4, <1>5, <1>6, TypeInvParts DEF ResultReady, NothingTorn, Fits

(* A command starts. *)
LEMMA StartTypeInv ==
  ASSUME TypeInv, NEW o \in {"install", "uninstall"}, NEW x \in Exes, NEW t \in Targets,
         Start(o, x, t)
  PROVE  TypeInv'
  <1>1. /\ commands < MaxCommands /\ commands' = commands + 1 /\ pc' = "read" /\ op' = o
        /\ exe' = x /\ queue' = t
        /\ trace' = [a \in Agents |-> IF a \notin ToSet(t) THEN trace[a]
                                      ELSE IF Holds(a, file[a]) THEN "whole" ELSE "late"]
        /\ UNCHANGED <<file, bak, merged, edits, mine>>
    BY DEF Start
  <1>2. Agents' = Agents /\ Files' /\ AbsentTwice'
    BY <1>1, SameFiles
  <1>3. t \in Seq(Agents) /\ t # <<>>
    <2>1. CASE t = Sublist(Order, Agents)
      <3>1. Sublist(Order, Agents) \in Seq(Agents)
            /\ ToSet(Sublist(Order, Agents)) = ToSet(Order) \intersect Agents
        BY OrderType, SublistKeeps
      <3>2. ToSet(t) # {}
        BY <2>1, <3>1 DEF TypeInv, Shape
      <3>3. ToSet(<<>>) = {}
        BY EmptyObject
      <3> QED
        BY <2>1, <3>1, <3>2, <3>3
    <2>2. CASE \E a \in Agents : t = <<a>>
      BY <2>2
    <2> QED
      BY <2>1, <2>2 DEF Targets
  <1>4. Control'
    BY <1>1, <1>2, <1>3 DEF Control
  <1>5. Counters'
    <2>1. commands' \in 0..MaxCommands
      BY <1>1, BoundsAssumption, TypeInvParts DEF Counters
    <2>2. trace' \in [Agents -> {"whole", "raced", "missed", "cut", "late"}]
      BY <1>1, TypeInvParts DEF Counters
    <2> QED
      BY <1>1, <1>2, <2>1, <2>2, TypeInvParts DEF Counters
  <1>6. Shape'
    BY <1>1, <1>2 DEF TypeInv, Shape
  <1>7. ~Busy'
    BY <1>1 DEF Busy
  <1> QED
    BY <1>2, <1>4, <1>5, <1>6, <1>7 DEF ResultReady, NothingTorn, TypeInv, TypeOK, Control, Counters,
       Files, Busy, Fits

(* A step to the next agent, or to the end of the command. *)
LEMMA NotBusyTypeInv ==
  ASSUME TypeInv, Agents' = Agents, Files', AbsentTwice',
         DOMAIN bak' = Agents, mine' = mine,
         pc' \in {"idle", "read"}, op' = op, exe' = exe, queue' \in Seq(Agents),
         pc' = "idle" <=> queue' = <<>>, commands' = commands, edits' = edits,
         trace' \in [Agents -> {"whole", "raced", "missed", "cut", "late"}]
  PROVE  TypeInv'
  <1>1. Control' /\ Counters'
    BY TypeInvParts DEF Control, Counters
  <1>2. Shape'
    BY DEF TypeInv, Shape
  <1>3. ~Busy'
    BY DEF Busy
  <1> QED
    BY <1>1, <1>2, <1>3 DEF ResultReady, NothingTorn, TypeInv, TypeOK, Control, Counters,
       Files, Busy, Fits

(* What a step needs of it. *)
LEMMA TraceType ==
  ASSUME TypeInv
  PROVE  /\ trace \in [Agents -> {"whole", "raced", "missed", "cut", "late"}]
         /\ DOMAIN bak = Agents /\ Files
         /\ \A a \in Agents : file[a] \in Contents(a)
  BY TypeInvParts DEF TypeInv, Shape, Counters, Files

(* A file that does not parse ends the command. *)
LEMMA ReadFailsTypeInv == TypeInv /\ ReadFails => TypeInv'
  <1> SUFFICES ASSUME TypeInv, ReadFails PROVE TypeInv'
    OBVIOUS
  <1>1. /\ pc' = "idle" /\ queue' = <<>> /\ op' = op /\ exe' = exe
        /\ UNCHANGED <<file, bak, commands, edits, mine, trace>>
    BY DEF ReadFails, Quit, history
  <1>2. Agents' = Agents /\ Files' /\ AbsentTwice'
    BY <1>1, SameFiles
  <1>3. queue' \in Seq(Agents)
    BY <1>1
  <1> QED
    BY <1>1, <1>2, <1>3, TraceType, NotBusyTypeInv

(* What was merged is a file of the agent's, and came of one that parses.  *)
LEMMA MergeTypeInv == TypeInv /\ Merge => TypeInv'
  <1> SUFFICES ASSUME TypeInv, Merge PROVE TypeInv'
    OBVIOUS
  <1> DEFINE a == Head(queue)
             doc == Parse(file[a])
  <1>1. /\ pc = "read" /\ a \notin Plugins /\ doc # Torn /\ pc' = "backup"
        /\ merged' = IF op = "install" THEN Install(a, exe, doc) ELSE Strip(a, doc)
        /\ UNCHANGED <<file, bak, op, exe, queue, commands, edits, mine, trace>>
    BY DEF Merge, history
  <1>2. Agents' = Agents /\ Files' /\ AbsentTwice'
    BY <1>1, SameFiles
  <1>3. a \in Agents /\ a \in Mergeable /\ file[a] \in Contents(a)
    BY <1>1, HeadOfQueue, TraceType
  <1>4. file[a] # Torn
    BY <1>1, <1>3, ParsedType
  <1>5. merged' \in Results(a)
    <2>1. exe \in Exes
      BY TypeInvParts DEF Control
    <2> QED
      BY <1>1, <1>3, <1>4, <2>1, MergeKeepsTheirs
  <1>6. merged' \in Contents(a)
    BY <1>3, <1>5, ResultsAreContents
  <1>7. Control' /\ Counters'
    BY <1>1, <1>2, TypeInvParts DEF Control, Counters
  <1>8. Shape'
    BY <1>1, <1>2 DEF TypeInv, Shape
  <1>9. ResultReady' /\ NothingTorn' /\ Fits'
    BY <1>1, <1>4, <1>5, <1>6 DEF ResultReady, NothingTorn, Fits
  <1> QED
    BY <1>2, <1>7, <1>8, <1>9 DEF TypeInv, TypeOK, Control, Counters,
       Files, Busy, Fits

(* An uninstall that finds nothing touches no file. *)
LEMMA NothingInstalledTypeInv == TypeInv /\ NothingInstalled => TypeInv'
  <1> SUFFICES ASSUME TypeInv, NothingInstalled PROVE TypeInv'
    OBVIOUS
  <1>1. pc # "idle" /\ Advance /\ UNCHANGED <<file, bak, commands, edits, mine, trace>>
    BY DEF NothingInstalled, history
  <1>2. Agents' = Agents /\ Files' /\ AbsentTwice'
    BY <1>1, SameFiles
  <1> QED
    BY <1>1, <1>2, AdvanceType, TraceType, NotBusyTypeInv

(* A step within the work on one file. *)
LEMMA BusyTypeInv ==
  ASSUME TypeInv, Agents' = Agents, Files', AbsentTwice',
         DOMAIN bak' = Agents, mine' = mine, pc # "idle",
         pc' \in {"backup", "truncate", "write"}, UNCHANGED <<op, exe, queue>>,
         UNCHANGED <<commands, edits, trace>>,
         merged' \in Contents(Head(queue)),
         Head(queue) \notin Plugins => merged' \in Results(Head(queue)),
         file'[Head(queue)] # Torn
  PROVE  TypeInv'
  <1>1. Control'
    BY TypeInvParts DEF Control
  <1>2. Counters'
    BY TypeInvParts DEF Counters
  <1>3. Shape'
    BY DEF TypeInv, Shape
  <1>4. ResultReady' /\ NothingTorn' /\ Fits'
    BY DEF ResultReady, NothingTorn, Fits
  <1> QED
    BY <1>1, <1>2, <1>3, <1>4 DEF TypeInv, TypeOK, Control, Counters,
       Files, Busy, Fits

(* The file the command is working on. *)
LEMMA BusyFacts ==
  ASSUME TypeInv, Busy
  PROVE  /\ pc # "idle" /\ Head(queue) \in Agents /\ Head(queue) \in ToSet(Order)
         /\ merged \in Contents(Head(queue))
         /\ Head(queue) \notin Plugins => merged \in Results(Head(queue))
         /\ file[Head(queue)] # Torn
  <1>1. pc # "idle"
    BY DEF Busy
  <1> QED
    BY <1>1, HeadOfQueue DEF TypeInv, TypeOK, Busy, ResultReady, NothingTorn

(* A backup is a copy of one of the agent's files. *)
LEMMA BackupTypeInv == TypeInv /\ Backup => TypeInv'
  <1> SUFFICES ASSUME TypeInv, Backup PROVE TypeInv'
    OBVIOUS
  <1> DEFINE a == Head(queue)
  <1>1. /\ pc = "backup" /\ pc' = "truncate"
        /\ bak' = IF file[a] = Absent THEN bak ELSE [bak EXCEPT ![a] = file[a]]
        /\ UNCHANGED <<file, op, exe, queue, merged, commands, edits, mine, trace>>
    BY DEF Backup, CopyToBackup, history
  <1>2. Busy
    BY <1>1 DEF Busy
  <1>3. Agents' = Agents /\ DOMAIN bak' = Agents
    <2>1. DOMAIN bak = Agents
      BY TraceType
    <2> QED
      BY <1>1, <2>1 DEF Agents
  <1>4. \A b \in Agents : bak'[b] = bak[b] \/ bak'[b] = file[b]
    <2>1. DOMAIN bak = Agents
      BY TraceType
    <2> QED
      BY <1>1, <2>1
  <1>5. Files'
    BY <1>1, <1>3, <1>4, TraceType DEF Files
  <1>6. AbsentTwice'
    BY <1>1, <1>3, <1>4 DEF TypeInv, AbsentTwice, Merged
  <1> QED
    BY <1>1, <1>2, <1>3, <1>5, <1>6, BusyFacts, BusyTypeInv

(* An emptied file is there, and blank. *)
LEMMA TruncateTypeInv == TypeInv /\ Truncate => TypeInv'
  <1> SUFFICES ASSUME TypeInv, Truncate PROVE TypeInv'
    OBVIOUS
  <1> DEFINE a == Head(queue)
  <1>1. /\ pc = "truncate" /\ pc' = "write" /\ file' = [file EXCEPT ![a] = Blank]
        /\ UNCHANGED <<bak, op, exe, queue, merged, commands, edits, mine, trace>>
    BY DEF Truncate, history
  <1>2. Busy
    BY <1>1 DEF Busy
  <1>3. Blank \in Contents(a) /\ Torn # Blank
    BY MarkersAssumption DEF Contents, PluginFiles
  <1>4. a \notin Plugins => Blank # Absent
    BY MarkersAssumption
  <1>5. Agents' = Agents /\ Files' /\ AbsentTwice'
    BY <1>1, <1>2, <1>3, <1>4, BusyFacts, FilePut
  <1>6. file'[a] # Torn
    BY <1>1, <1>2, <1>3, BusyFacts DEF Agents
  <1> QED
    BY <1>1, <1>2, <1>5, <1>6, BusyFacts, TraceType, BusyTypeInv

(* The result becomes the file. *)
LEMMA WriteTypeInv == TypeInv /\ Write => TypeInv'
  <1> SUFFICES ASSUME TypeInv, Write PROVE TypeInv'
    OBVIOUS
  <1> DEFINE a == Head(queue)
  <1>1. /\ pc = "write" /\ file' = [file EXCEPT ![a] = merged] /\ Advance
        /\ UNCHANGED <<bak, commands, edits, mine, trace>>
    BY DEF Write, history
  <1>2. Busy
    BY <1>1 DEF Busy
  <1>3. a \notin Plugins => merged # Absent
    BY <1>2, BusyFacts, MergedAgents, ResultsAreContents
  <1>4. Agents' = Agents /\ Files' /\ AbsentTwice'
    BY <1>1, <1>2, <1>3, BusyFacts, FilePut
  <1> QED
    BY <1>1, <1>2, <1>4, BusyFacts, AdvanceType, TraceType, NotBusyTypeInv

(* What a write cut short leaves is a file of the agent's, torn or not. *)
LEMMA WriteFailsTypeInv == TypeInv /\ WriteFails => TypeInv'
  <1> SUFFICES ASSUME TypeInv, WriteFails PROVE TypeInv'
    OBVIOUS
  <1> DEFINE a == Head(queue)
  <1>1. PICK part \in CutShort(a) : file' = [file EXCEPT ![a] = part]
    BY DEF WriteFails
  <1>2. /\ pc = "write" /\ pc' = "idle" /\ queue' = <<>> /\ op' = op /\ exe' = exe
        /\ trace' = [trace EXCEPT ![a] = IF @ = "whole" THEN "cut" ELSE @]
        /\ UNCHANGED <<bak, commands, edits, mine>>
    BY DEF WriteFails, Quit
  <1>3. Busy
    BY <1>2 DEF Busy
  <1>4. part \in Contents(a) /\ (a \notin Plugins => part # Absent)
    BY <1>3, BusyFacts, CutShortType
  <1>5. Agents' = Agents /\ Files' /\ AbsentTwice'
    BY <1>1, <1>2, <1>3, <1>4, BusyFacts, FilePut
  <1>6. trace' \in [Agents -> {"whole", "raced", "missed", "cut", "late"}]
    BY <1>2, TraceType
  <1>7. queue' \in Seq(Agents)
    BY <1>2
  <1> QED
    BY <1>2, <1>5, <1>6, <1>7, TraceType, NotBusyTypeInv

(* A killed command has nothing left to do. *)
LEMMA KillTypeInv == TypeInv /\ Kill => TypeInv'
  <1> SUFFICES ASSUME TypeInv, Kill PROVE TypeInv'
    OBVIOUS
  <1> DEFINE a == Head(queue)
  <1>1. /\ pc' = "idle" /\ queue' = <<>> /\ op' = op /\ exe' = exe
        /\ trace' = [trace EXCEPT ![a] = IF pc = "write" /\ @ = "whole" THEN "cut" ELSE @]
        /\ UNCHANGED <<file, bak, commands, edits, mine>>
    BY DEF Kill, Quit
  <1>2. Agents' = Agents /\ Files' /\ AbsentTwice'
    BY <1>1, SameFiles
  <1>3. trace' \in [Agents -> {"whole", "raced", "missed", "cut", "late"}]
    BY <1>1, TraceType
  <1>4. queue' \in Seq(Agents)
    BY <1>1
  <1> QED
    BY <1>1, <1>2, <1>3, <1>4, TraceType, NotBusyTypeInv

(* A plugin is about to be written whole. *)
LEMMA InstallPluginTypeInv == TypeInv /\ InstallPlugin => TypeInv'
  <1> SUFFICES ASSUME TypeInv, InstallPlugin PROVE TypeInv'
    OBVIOUS
  <1> DEFINE a == Head(queue)
  <1>1. /\ pc = "read" /\ a \in Plugins /\ merged' = Current /\ pc' = "truncate"
        /\ UNCHANGED <<file, bak, op, exe, queue, commands, edits, mine, trace>>
    BY DEF InstallPlugin, history
  <1>2. Agents' = Agents /\ Files' /\ AbsentTwice'
    BY <1>1, SameFiles
  <1>3. a \in Agents /\ file[a] \in PluginFiles
    BY <1>1, HeadOfQueue, TraceType DEF Contents
  <1>4. file'[a] # Torn
    BY <1>1, <1>3, MarkersAssumption
  <1>5. merged' \in Contents(a)
    BY <1>1 DEF Contents, PluginFiles
  <1> QED
    BY <1>1, <1>2, <1>4, <1>5, TraceType, BusyTypeInv

(* A plugin that looks like ours stays. *)
LEMMA LeavePluginTypeInv == TypeInv /\ LeavePlugin => TypeInv'
  <1> SUFFICES ASSUME TypeInv, LeavePlugin PROVE TypeInv'
    OBVIOUS
  <1>1. pc # "idle" /\ Advance /\ UNCHANGED <<file, bak, commands, edits, mine, trace>>
    BY DEF LeavePlugin, history
  <1>2. Agents' = Agents /\ Files' /\ AbsentTwice'
    BY <1>1, SameFiles
  <1> QED
    BY <1>1, <1>2, AdvanceType, TraceType, NotBusyTypeInv

(* A plugin of ours goes. *)
LEMMA RemovePluginTypeInv == TypeInv /\ RemovePlugin => TypeInv'
  <1> SUFFICES ASSUME TypeInv, RemovePlugin PROVE TypeInv'
    OBVIOUS
  <1> DEFINE a == Head(queue)
  <1>1. /\ pc # "idle" /\ a \in Plugins /\ file' = [file EXCEPT ![a] = Absent] /\ Advance
        /\ UNCHANGED <<bak, commands, edits, mine, trace>>
    BY DEF RemovePlugin, history
  <1>2. Absent \in Contents(a)
    BY DEF Contents, PluginFiles
  <1>3. Agents' = Agents /\ Files' /\ AbsentTwice'
    BY <1>1, <1>2, HeadOfQueue, FilePut
  <1> QED
    BY <1>1, <1>3, AdvanceType, TraceType, NotBusyTypeInv

(* Others leave a file of the agent's that parses. *)
LEMMA EditTypeInv ==
  ASSUME TypeInv, NEW a \in Agents, Edit(a)
  PROVE  TypeInv'
  <1>1. PICK new \in Edited(a, file[a]) : /\ file' = [file EXCEPT ![a] = new]
                                         /\ mine' = [mine EXCEPT ![a] = Foreign(a, new)]
    BY DEF Edit
  <1>2. /\ edits < MaxEdits /\ a \notin Plugins /\ edits' = edits + 1
        /\ trace' = [trace EXCEPT ![a] =
                       IF pc = "backup" /\ Head(queue) = a THEN "raced"
                       ELSE IF pc \in {"truncate", "write"} /\ Head(queue) = a THEN "missed"
                       ELSE @]
        /\ UNCHANGED <<bak, pc, op, exe, queue, merged, commands>>
    BY DEF Edit, command
  <1>3. a \in Mergeable /\ file[a] \in Contents(a)
    BY <1>2, MergedAgents, TraceType DEF TypeInv, Shape
  <1>4. new \in Contents(a) /\ new # Torn /\ new # Absent
    BY <1>1, <1>3, EditedType
  <1>5. Agents' = Agents /\ Files' /\ AbsentTwice'
    BY <1>1, <1>2, <1>4, FilePut
  <1>6. Control'
    BY <1>2, <1>5, TypeInvParts DEF Control
  <1>7. Counters'
    <2>1. edits' \in 0..MaxEdits
      BY <1>2, BoundsAssumption, TypeInvParts DEF Counters
    <2>2. trace' \in [Agents -> {"whole", "raced", "missed", "cut", "late"}]
      BY <1>2, TraceType
    <2> QED
      BY <1>2, <1>5, <2>1, <2>2, TypeInvParts DEF Counters
  <1>8. Shape'
    BY <1>1, <1>2, <1>5 DEF TypeInv, Shape
  <1>9. ResultReady' /\ Fits'
    BY <1>2, TypeInvParts DEF ResultReady, Fits, TypeInv, TypeOK, Busy
  <1>10. NothingTorn'
    <2>1. \A b \in Agents : file[b] # Torn => file'[b] # Torn
      BY <1>1, <1>4 DEF Agents
    <2>2. Busy' => Busy /\ Head(queue') = Head(queue)
      BY <1>2 DEF Busy
    <2>3. Busy => Head(queue) \in Agents /\ file[Head(queue)] # Torn
      BY BusyFacts
    <2> QED
      BY <2>1, <2>2, <2>3 DEF NothingTorn
  <1> QED
    BY <1>5, <1>6, <1>7, <1>8, <1>9, <1>10 DEF TypeInv, TypeOK, Control, Counters,
       Files, Busy, Fits

(* Every step keeps it. *)
LEMMA NextTypeInv == TypeInv /\ [Next]_vars => TypeInv'
  <1> SUFFICES ASSUME TypeInv, [Next]_vars PROVE TypeInv'
    OBVIOUS
  <1>1. CASE UNCHANGED vars
    <2>1. UNCHANGED <<file, bak, pc, op, exe, queue, merged, commands, edits, mine, trace>>
      BY <1>1 DEF vars, command, history
    <2> QED
      BY <2>1 DEF TypeInv, TypeOK, Shape, ResultReady, AbsentTwice, NothingTorn, Agents,
                  Merged, Busy
  <1>2. CASE \E o \in {"install", "uninstall"}, x \in Exes, t \in Targets : Start(o, x, t)
    BY <1>2, StartTypeInv
  <1>3. CASE Step
    BY <1>3, ReadFailsTypeInv, MergeTypeInv, NothingInstalledTypeInv, BackupTypeInv,
       TruncateTypeInv, WriteTypeInv, InstallPluginTypeInv, LeavePluginTypeInv,
       RemovePluginTypeInv DEF Step
  <1>4. CASE WriteFails
    BY <1>4, WriteFailsTypeInv
  <1>5. CASE Kill
    BY <1>5, KillTypeInv
  <1>6. CASE \E a \in Agents : Edit(a)
    BY <1>6, EditTypeInv
  <1> QED
    BY <1>1, <1>2, <1>3, <1>4, <1>5, <1>6 DEF Next

(* Whatever install, uninstall and others do, every file is one of its     *)
(* agent's and the command is at one of its steps (TypeOK).                *)
THEOREM TypeCorrect == Spec => []TypeOK
  <1>1. Spec => []TypeInv
    BY InitTypeInv, NextTypeInv, PTL DEF Spec
  <1>2. TypeInv => TypeOK
    BY DEF TypeInv
  <1> QED
    BY <1>1, <1>2, PTL

-----------------------------------------------------------------------------
(* A file that does not parse is left to its owner.                        *)

(* Only an edit writes a file that does not parse. *)
LEMMA TornStaysPut ==
  ASSUME TypeInv, [Next]_vars, NEW a \in Agents, file[a] = Torn, file'[a] # Torn
  PROVE  edits' # edits
  <1> DEFINE b == Head(queue)
  <1>1. file' # file
    OBVIOUS
  <1>2. CASE pc # "idle" /\ file[b] # Torn /\ \E c : file' = [file EXCEPT ![b] = c]
    BY <1>2
  <1>3. ASSUME Busy PROVE pc # "idle" /\ file[b] # Torn
    BY <1>3, BusyFacts
  <1>4. CASE Truncate \/ Write \/ WriteFails
    BY <1>2, <1>3, <1>4 DEF Truncate, Write, WriteFails, Busy
  <1>5. CASE RemovePlugin
    <2>1. pc # "idle" /\ Marked(file[b]) /\ file' = [file EXCEPT ![b] = Absent]
      BY <1>5 DEF RemovePlugin
    <2>2. file[b] # Torn
      BY <2>1, MarkersAssumption DEF Marked
    <2> QED
      BY <1>2, <2>1, <2>2
  <1>6. CASE \E c \in Agents : Edit(c)
    <2>1. edits' = edits + 1 /\ edits \in Nat
      BY <1>6, BoundsAssumption, TypeInvParts DEF Edit, Counters
    <2> QED
      BY <2>1
  <1> QED
    BY <1>1, <1>4, <1>5, <1>6
       DEF Next, Step, vars, Start, ReadFails, Merge, NothingInstalled, Backup,
           InstallPlugin, LeavePlugin, Kill

(* No command writes a file it could not parse (read_settings and          *)
(* read_toml, install.rs:285-286): every way to the write leads through a  *)
(* read that parsed, and nothing in between breaks the file.               *)
THEOREM TornFilesAreLeft == Spec => TornIsLeft
  <1>1. Spec => []TypeInv
    BY InitTypeInv, NextTypeInv, PTL DEF Spec
  <1>2. TypeInv /\ [Next]_vars
          => [\A a \in Agents : file[a] = Torn /\ file'[a] # Torn => edits' # edits]_vars
    BY TornStaysPut
  <1> QED
    BY <1>1, <1>2, PTL DEF Spec, TornIsLeft

-----------------------------------------------------------------------------
(* What is not ours.                                                       *)

(* What is about to be written has it, and so has the backup once it is    *)
(* made, also if others wrote between the read and the copy.               *)
ResultHolds ==
  \A a \in Merged : trace[a] = "whole" /\ Busy /\ Head(queue) = a => Foreign(a, merged) = mine[a]
RacedHolds ==
  \A a \in Merged : trace[a] = "raced" /\ pc = "backup" /\ Head(queue) = a => Holds(a, file[a])
BackupHolds ==
  \A a \in Merged : /\ trace[a] \in {"whole", "raced"}
                    /\ pc \in {"truncate", "write"} /\ Head(queue) = a
                    => Holds(a, bak[a])
NoneCutYet == \A i \in DOMAIN queue : trace[queue[i]] # "cut"

(* An agent comes once in a command, and nobody races it before its turn.  *)
EachOnce == \A i, j \in DOMAIN queue : queue[i] = queue[j] => i = j
NoneRacedYet ==
  \A i \in DOMAIN queue : i # 1 \/ pc = "read" => trace[queue[i]] \notin {"raced", "missed"}
TurnInv == EachOnce /\ NoneRacedYet

(* Entries that differ still differ in what is kept of them. *)
LEMMA SublistOnce ==
  ASSUME NEW D, NEW S
  PROVE  \A s \in Seq(D) :
           (\A i, j \in DOMAIN s : s[i] = s[j] => i = j) =>
             \A i, j \in DOMAIN Sublist(s, S) : Sublist(s, S)[i] = Sublist(s, S)[j] => i = j
  <1> DEFINE Once(s) == \A i, j \in DOMAIN s : s[i] = s[j] => i = j
             Good == {s \in Seq(D) : Once(s) => Once(Sublist(s, S))}
  <1>1. <<>> \in Good
    BY SublistEmpty
  <1>2. ASSUME NEW s \in Seq(D), NEW x \in D, s \in Good PROVE Append(s, x) \in Good
    <2> DEFINE t == Append(s, x)
               r == Sublist(s, S)
    <2>1. t \in Seq(D) /\ r \in Seq(D) /\ ToSet(r) = ToSet(s) \intersect S
      BY SublistType, SublistKeeps
    <2>2. Sublist(t, S) = IF x \in S THEN Append(r, x) ELSE r
      BY SublistAppend
    <2>3. ASSUME Once(t) PROVE Once(s) /\ x \notin ToSet(s)
      <3>1. Len(s) \in Nat /\ DOMAIN s = 1..Len(s) /\ DOMAIN t = 1..(Len(s) + 1)
            /\ t[Len(s) + 1] = x /\ \A i \in DOMAIN s : t[i] = s[i]
        OBVIOUS
      <3> HIDE DEF t
      <3>2. Once(s)
        BY <2>3, <3>1
      <3>3. \A i \in DOMAIN s : s[i] # x
        BY <2>3, <3>1
      <3> QED
        BY <3>2, <3>3 DEF ToSet
    <2>4. ASSUME Once(r), x \notin ToSet(r) PROVE Once(Append(r, x))
      <3> DEFINE q == Append(r, x)
      <3> HIDE DEF r
      <3>1. Len(r) \in Nat /\ DOMAIN r = 1..Len(r) /\ DOMAIN q = 1..(Len(r) + 1)
            /\ q[Len(r) + 1] = x /\ \A i \in DOMAIN r : q[i] = r[i]
        BY <2>1
      <3>2. \A i \in DOMAIN r : r[i] # x
        BY <2>4 DEF ToSet
      <3> SUFFICES Once(q)
        OBVIOUS
      <3> HIDE DEF q
      <3> QED
        BY <2>4, <3>1, <3>2
    <2>5. Once(t) => Once(Sublist(t, S))
      <3> SUFFICES ASSUME Once(t) PROVE Once(Sublist(t, S))
        OBVIOUS
      <3>1. Once(r) /\ x \notin ToSet(r)
        BY <1>2, <2>1, <2>3
      <3> HIDE DEF Once, r, t
      <3> QED
        BY <2>2, <2>4, <3>1
    <2> QED
      BY <2>1, <2>5
  <1> HIDE DEF Good
  <1>3. Seq(D) \subseteq Good
    BY <1>1, <1>2, SeqInd
  <1> QED
    BY <1>3 DEF Good

(* A command has each of its agents once. *)
LEMMA TargetsOnce ==
  ASSUME TypeInv, NEW t \in Targets
  PROVE  \A i, j \in DOMAIN t : t[i] = t[j] => i = j
  <1>1. CASE \E a \in Agents : t = <<a>>
    BY <1>1
  <1>2. CASE t = Sublist(Order, Agents)
    <2>1. \A i, j \in DOMAIN Order : Order[i] = Order[j] => i = j
      BY DEF Order
    <2> DEFINE o == Order
               D == ToSet(Order)
    <2>2. o \in Seq(D) /\ \A i, j \in DOMAIN o : o[i] = o[j] => i = j
      BY <2>1, OrderType
    <2> HIDE DEF o, D
    <2>3. \A i, j \in DOMAIN Sublist(o, Agents) :
            Sublist(o, Agents)[i] = Sublist(o, Agents)[j] => i = j
      BY <2>2, SublistOnce
    <2> QED
      BY <1>2, <2>3 DEF o
  <1> QED
    BY <1>1, <1>2 DEF Targets

(* The same agents, and no more of them raced. *)
LEMMA SameTurns ==
  ASSUME TypeInv, TurnInv, queue' = queue, pc' = pc \/ pc' # "read",
         \A i \in DOMAIN queue : i # 1 \/ pc = "read" => trace'[queue[i]] = trace[queue[i]]
  PROVE  TurnInv'
  BY DEF TurnInv, EachOnce, NoneRacedYet

(* One agent fewer. *)
LEMMA NextTurn ==
  ASSUME TypeInv, TurnInv, pc # "idle", queue' = Tail(queue), trace' = trace
  PROVE  TurnInv'
  <1>1. queue \in Seq(Agents) /\ queue # <<>>
    BY DEF TypeInv, TypeOK
  <1>2. PICK n \in Nat : n = Len(queue) /\ DOMAIN queue = 1..n /\ n # 0
    BY <1>1
  <1>3. \A i \in DOMAIN Tail(queue) : i + 1 \in 1..n /\ i \in 1..n /\ Tail(queue)[i] = queue[i + 1]
    BY <1>1, <1>2
  <1>4. EachOnce'
    BY <1>2, <1>3 DEF TurnInv, EachOnce
  <1>5. \A i \in DOMAIN Tail(queue) : i + 1 # 1
    BY <1>3
  <1>6. NoneRacedYet'
    BY <1>2, <1>3, <1>5 DEF TurnInv, NoneRacedYet
  <1> QED
    BY <1>4, <1>6 DEF TurnInv

(* Each agent keeps its turn. *)
LEMMA NextTurnInv == TypeInv /\ TurnInv /\ [Next]_vars => TurnInv'
  <1> SUFFICES ASSUME TypeInv, TurnInv, [Next]_vars PROVE TurnInv'
    OBVIOUS
  <1>1. CASE UNCHANGED vars
    BY <1>1, SameTurns DEF vars, command, history
  <1>2. CASE \E o \in {"install", "uninstall"}, x \in Exes, t \in Targets : Start(o, x, t)
    <2>1. PICK o \in {"install", "uninstall"}, x \in Exes, t \in Targets : Start(o, x, t)
      BY <1>2
    <2>2. /\ queue' = t
          /\ trace' = [a \in Agents |-> IF a \notin ToSet(t) THEN trace[a]
                                        ELSE IF Holds(a, file[a]) THEN "whole" ELSE "late"]
          /\ UNCHANGED file
      BY <2>1 DEF Start
    <2>3. t \in Seq(Agents)
      BY <2>1, <2>2, StartTypeInv DEF TypeInv, TypeOK, Agents
    <2>4. NoneRacedYet'
      BY <2>2, <2>3 DEF NoneRacedYet, ToSet
    <2>5. EachOnce'
      BY <2>2, TargetsOnce DEF EachOnce
    <2> QED
      BY <2>4, <2>5 DEF TurnInv
  <1>3. CASE NothingInstalled \/ LeavePlugin \/ RemovePlugin \/ Write
    <2>1. pc # "idle" /\ queue' = Tail(queue) /\ trace' = trace
      BY <1>3 DEF NothingInstalled, LeavePlugin, RemovePlugin, Write, Advance, history
    <2> QED
      BY <2>1, NextTurn
  <1>4. CASE Merge \/ Backup \/ Truncate \/ InstallPlugin
    <2>1. queue' = queue /\ pc' # "read" /\ trace' = trace
      BY <1>4 DEF Merge, Backup, Truncate, InstallPlugin, history
    <2> QED
      BY <2>1, SameTurns
  <1>5. CASE ReadFails \/ WriteFails \/ Kill
    <2>1. queue' = <<>>
      BY <1>5 DEF ReadFails, WriteFails, Kill, Quit
    <2> QED
      BY <2>1 DEF TurnInv, EachOnce, NoneRacedYet
  <1>6. CASE \E a \in Agents : Edit(a)
    <2>1. PICK a \in Agents : Edit(a)
      BY <1>6
    <2>2. /\ trace' = [trace EXCEPT ![a] =
                         IF pc = "backup" /\ Head(queue) = a THEN "raced"
                         ELSE IF pc \in {"truncate", "write"} /\ Head(queue) = a THEN "missed"
                         ELSE @]
          /\ pc' = pc /\ queue' = queue
      BY <2>1 DEF Edit, command
    <2>3. \A b \in Agents : trace'[b] # trace[b] => b = Head(queue) /\ pc # "read"
      BY <2>2, TraceType
    <2>4. ASSUME NEW i \in DOMAIN queue, i # 1 \/ pc = "read"
          PROVE  trace'[queue[i]] = trace[queue[i]]
      <3>1. queue \in Seq(Agents) /\ queue[i] \in Agents
        BY DEF TypeInv, TypeOK
      <3>2. 1 \in DOMAIN queue /\ Head(queue) = queue[1]
        BY <3>1
      <3> QED
        BY <2>3, <2>4, <3>1, <3>2 DEF TurnInv, EachOnce
    <2> QED
      BY <2>2, <2>4, SameTurns
  <1> QED
    BY <1>1, <1>2, <1>3, <1>4, <1>5, <1>6 DEF Next, Step

(* An agent that has its turn was not raced before it. *)
LEMMA HeadNotRaced ==
  ASSUME TypeInv, TurnInv, pc = "read"
  PROVE  trace[Head(queue)] \notin {"raced", "missed"}
  <1>1. queue \in Seq(Agents) /\ queue # <<>>
    BY DEF TypeInv, TypeOK
  <1>2. 1 \in DOMAIN queue /\ Head(queue) = queue[1]
    BY <1>1
  <1> QED
    BY <1>2 DEF TurnInv, NoneRacedYet

(* What follows what is not ours through a command. *)
KeepInv == /\ TheirsSurvive /\ OverwriteIsRecoverable
           /\ ResultHolds /\ RacedHolds /\ BackupHolds /\ NoneCutYet

(* It holds at first. *)
LEMMA InitKeepInv == Init => TurnInv /\ KeepInv
  <1> SUFFICES ASSUME Init PROVE TurnInv /\ KeepInv
    OBVIOUS
  <1>1. /\ pc = "idle" /\ queue = <<>>
        /\ mine = [a \in Agents |-> Foreign(a, file[a])]
    BY DEF Init
  <1>2. \A a \in Agents : Holds(a, file[a])
    BY <1>1 DEF Holds
  <1>3. ~Busy
    BY <1>1 DEF Busy
  <1> QED
    BY <1>1, <1>2, <1>3 DEF KeepInv, TheirsSurvive, OverwriteIsRecoverable, ResultHolds,
       RacedHolds, BackupHolds, NoneCutYet, Merged, TurnInv, EachOnce, NoneRacedYet

(* A new command's files are whole, or their change came late. *)
LEMMA StartKeepInv ==
  ASSUME TypeInv, KeepInv, NEW o \in {"install", "uninstall"}, NEW x \in Exes,
         NEW t \in Targets, Start(o, x, t)
  PROVE  KeepInv'
  <1>1. /\ pc = "idle" /\ pc' = "read" /\ queue' = t
        /\ trace' = [a \in Agents |-> IF a \notin ToSet(t) THEN trace[a]
                                      ELSE IF Holds(a, file[a]) THEN "whole" ELSE "late"]
        /\ UNCHANGED <<file, bak, mine>>
    BY DEF Start
  <1>2. Agents' = Agents /\ Merged' = Merged
    BY <1>1 DEF Agents, Merged
  <1>3. \A a, c : Holds(a, c)' <=> Holds(a, c)
    BY <1>1 DEF Holds
  <1>4. TheirsSurvive' /\ OverwriteIsRecoverable'
    BY <1>1, <1>2, <1>3 DEF KeepInv, TheirsSurvive, OverwriteIsRecoverable, Merged, Writing, Holds
  <1>5. NoneCutYet'
    <2>1. t \in Seq(Agents)
      BY <1>1, <1>2, StartTypeInv DEF TypeInv, TypeOK
    <2> QED
      BY <1>1, <2>1 DEF NoneCutYet, ToSet
  <1>6. ResultHolds' /\ RacedHolds' /\ BackupHolds'
    BY <1>1 DEF ResultHolds, RacedHolds, BackupHolds, Busy
  <1> QED
    BY <1>4, <1>5, <1>6 DEF KeepInv

(* Shorter queues hold no agent whose write was cut either. *)
LEMMA TailNotCut ==
  ASSUME TypeInv, KeepInv, pc # "idle"
  PROVE  /\ \A i \in DOMAIN Tail(queue) : trace[Tail(queue)[i]] # "cut"
         /\ trace[Head(queue)] # "cut"
  <1>1. queue \in Seq(Agents) /\ queue # <<>> /\ NoneCutYet
    BY DEF TypeInv, TypeOK, KeepInv
  <1>2. PICK n \in Nat : n = Len(queue) /\ DOMAIN queue = 1..n /\ n # 0
    BY <1>1
  <1>3. \A i \in DOMAIN Tail(queue) : i + 1 \in 1..n /\ Tail(queue)[i] = queue[i + 1]
    BY <1>1, <1>2
  <1>4. 1 \in 1..n /\ Head(queue) = queue[1]
    BY <1>1, <1>2
  <1> QED
    BY <1>1, <1>2, <1>3, <1>4 DEF NoneCutYet

(* Past the work on one file, or before it. *)
LEMMA IdleKeepInv ==
  ASSUME TypeInv, KeepInv, pc # "write", UNCHANGED <<file, bak, mine, trace>>,
         pc' \in {"idle", "read"}, NoneCutYet'
  PROVE  KeepInv'
  <1>1. Agents' = Agents /\ Merged' = Merged /\ \A a, c : Holds(a, c)' <=> Holds(a, c)
    BY DEF Agents, Merged, Holds
  <1>2. TheirsSurvive' /\ OverwriteIsRecoverable'
    BY <1>1 DEF KeepInv, TheirsSurvive, OverwriteIsRecoverable, Merged, Writing, Holds
  <1>3. ResultHolds' /\ RacedHolds' /\ BackupHolds'
    BY DEF ResultHolds, RacedHolds, BackupHolds, Busy
  <1> QED
    BY <1>2, <1>3 DEF KeepInv

(* A file that does not parse is left as it is. *)
LEMMA ReadFailsKeepInv == TypeInv /\ KeepInv /\ ReadFails => KeepInv'
  <1> SUFFICES ASSUME TypeInv, KeepInv, ReadFails PROVE KeepInv'
    OBVIOUS
  <1>1. pc = "read" /\ pc' = "idle" /\ queue' = <<>> /\ UNCHANGED <<file, bak, mine, trace>>
    BY DEF ReadFails, Quit, history
  <1>2. NoneCutYet'
    BY <1>1 DEF NoneCutYet
  <1> QED
    BY <1>1, <1>2, IdleKeepInv

(* A file that is left as it is. *)
LEMMA AdvanceKeepInv ==
  ASSUME TypeInv, KeepInv, pc = "read", Advance, UNCHANGED <<file, bak, mine, trace>>
  PROVE  KeepInv'
  <1>1. queue' = Tail(queue) /\ pc' \in {"idle", "read"}
    BY DEF Advance
  <1>2. NoneCutYet'
    BY <1>1, TailNotCut DEF NoneCutYet
  <1> QED
    BY <1>1, <1>2, IdleKeepInv

(* The merge carries over what others put in the file. *)
LEMMA MergeKeepInv == TypeInv /\ TurnInv /\ KeepInv /\ Merge => KeepInv'
  <1> SUFFICES ASSUME TypeInv, TurnInv, KeepInv, Merge PROVE KeepInv'
    OBVIOUS
  <1> DEFINE a == Head(queue)
             doc == Parse(file[a])
  <1>1. /\ pc = "read" /\ a \notin Plugins /\ doc # Torn /\ pc' = "backup"
        /\ merged' = IF op = "install" THEN Install(a, exe, doc) ELSE Strip(a, doc)
        /\ UNCHANGED <<file, bak, exe, queue, mine, trace>>
    BY DEF Merge, history
  <1>2. a \in Agents /\ a \in Mergeable /\ a \in Merged /\ file[a] \in Contents(a)
    BY <1>1, HeadOfQueue, TraceType DEF Merged
  <1>3. file[a] # Torn /\ exe \in Exes
    BY <1>1, <1>2, ParsedType, TypeInvParts DEF Control
  <1>4. Foreign(a, merged') = Foreign(a, file[a])
    BY <1>1, <1>2, <1>3, MergeKeepsTheirs
  <1>5. trace[a] = "whole" => Foreign(a, file[a]) = mine[a]
    BY <1>1, <1>2 DEF KeepInv, TheirsSurvive, Writing, Holds
  <1>6. ResultHolds'
    BY <1>1, <1>4, <1>5 DEF ResultHolds
  <1>7. Agents' = Agents /\ Merged' = Merged
    BY <1>1 DEF Agents, Merged
  <1>8. TheirsSurvive' /\ OverwriteIsRecoverable'
    BY <1>1, <1>7 DEF KeepInv, TheirsSurvive, OverwriteIsRecoverable, Writing, Holds
  <1>9. BackupHolds' /\ NoneCutYet'
    BY <1>1 DEF KeepInv, BackupHolds, NoneCutYet
  <1>10. RacedHolds'
    BY <1>1, HeadNotRaced DEF RacedHolds
  <1> QED
    BY <1>6, <1>8, <1>9, <1>10 DEF KeepInv

(* The backup has what the file has. *)
LEMMA BackupKeepInv == TypeInv /\ KeepInv /\ Backup => KeepInv'
  <1> SUFFICES ASSUME TypeInv, KeepInv, Backup PROVE KeepInv'
    OBVIOUS
  <1> DEFINE a == Head(queue)
  <1>1. /\ pc = "backup" /\ pc' = "truncate"
        /\ bak' = IF file[a] = Absent THEN bak ELSE [bak EXCEPT ![a] = file[a]]
        /\ UNCHANGED <<file, queue, merged, mine, trace>>
    BY DEF Backup, CopyToBackup, history
  <1>2. Busy /\ a \in Agents
    BY <1>1, BusyFacts DEF Busy
  <1>3. Agents' = Agents /\ Merged' = Merged /\ DOMAIN bak = Agents
    BY <1>1, TraceType DEF Agents, Merged
  <1>4. \A b \in Agents : b # a => bak'[b] = bak[b]
    BY <1>1, <1>3
  <1>5. a \in Merged => bak'[a] = file[a]
    <2>1. a \in Merged /\ file[a] = Absent => bak[a] = Absent
      BY DEF TypeInv, AbsentTwice
    <2> QED
      BY <1>1, <1>2, <1>3, <2>1
  <1>6. trace[a] # "cut"
    BY <1>1, TailNotCut
  <1>7. a \in Merged /\ trace[a] \in {"whole", "raced"} => Foreign(a, file[a]) = mine[a]
    BY <1>1 DEF KeepInv, TheirsSurvive, RacedHolds, Writing, Holds
  <1>8. TheirsSurvive'
    BY <1>1, <1>3 DEF KeepInv, TheirsSurvive, Writing, Holds
  <1>9. OverwriteIsRecoverable'
    <2> SUFFICES ASSUME NEW b \in Merged, trace[b] \in {"whole", "raced", "cut"}
                 PROVE  Foreign(b, file[b]) = mine[b] \/ Foreign(b, bak'[b]) = mine[b]
      BY <1>1, <1>3 DEF OverwriteIsRecoverable, Holds
    <2>1. CASE b = a
      BY <1>6, <1>7, <2>1
    <2>2. CASE b # a
      BY <1>4, <2>2 DEF KeepInv, OverwriteIsRecoverable, Holds, Merged
    <2> QED
      BY <2>1, <2>2
  <1>10. ResultHolds' /\ NoneCutYet'
    BY <1>1, <1>2, <1>3 DEF KeepInv, ResultHolds, NoneCutYet, Busy
  <1>11. RacedHolds' /\ BackupHolds'
    BY <1>1, <1>3, <1>5, <1>7 DEF RacedHolds, BackupHolds, Holds
  <1> QED
    BY <1>8, <1>9, <1>10, <1>11 DEF KeepInv

(* The file is emptied, and the backup has it. *)
LEMMA TruncateKeepInv == TypeInv /\ KeepInv /\ Truncate => KeepInv'
  <1> SUFFICES ASSUME TypeInv, KeepInv, Truncate PROVE KeepInv'
    OBVIOUS
  <1> DEFINE a == Head(queue)
  <1>1. /\ pc = "truncate" /\ pc' = "write" /\ file' = [file EXCEPT ![a] = Blank]
        /\ UNCHANGED <<bak, queue, merged, mine, trace>>
    BY DEF Truncate, history
  <1>2. Busy /\ Agents' = Agents /\ Merged' = Merged
    BY <1>1 DEF Busy, Agents, Merged
  <1>3. \A b \in Agents : b # a => file'[b] = file[b]
    BY <1>1 DEF Agents
  <1>4. trace[a] # "cut"
    BY <1>1, TailNotCut
  <1>5. a \in Merged /\ trace[a] \in {"whole", "raced"} => Foreign(a, bak[a]) = mine[a]
    BY <1>1 DEF KeepInv, BackupHolds, Holds
  <1>6. TheirsSurvive'
    <2> SUFFICES ASSUME NEW b \in Merged, trace[b] = "whole", b # a
                 PROVE  Foreign(b, file'[b]) = mine[b]
      BY <1>1, <1>2 DEF TheirsSurvive, Writing, Holds
    <2> QED
      BY <1>3 DEF KeepInv, TheirsSurvive, Writing, Holds, Merged
  <1>7. OverwriteIsRecoverable'
    <2> SUFFICES ASSUME NEW b \in Merged, trace[b] \in {"whole", "raced", "cut"}
                 PROVE  Foreign(b, file'[b]) = mine[b] \/ Foreign(b, bak[b]) = mine[b]
      BY <1>1, <1>2 DEF OverwriteIsRecoverable, Holds
    <2>1. CASE b = a
      BY <1>4, <1>5, <2>1
    <2>2. CASE b # a
      BY <1>3, <2>2 DEF KeepInv, OverwriteIsRecoverable, Holds, Merged
    <2> QED
      BY <2>1, <2>2
  <1>8. ResultHolds' /\ NoneCutYet' /\ RacedHolds' /\ BackupHolds'
    BY <1>1, <1>2 DEF KeepInv, ResultHolds, NoneCutYet, RacedHolds, BackupHolds, Holds, Busy
  <1> QED
    BY <1>6, <1>7, <1>8 DEF KeepInv

(* What is written has it again. *)
LEMMA WriteKeepInv == TypeInv /\ KeepInv /\ Write => KeepInv'
  <1> SUFFICES ASSUME TypeInv, KeepInv, Write PROVE KeepInv'
    OBVIOUS
  <1> DEFINE a == Head(queue)
  <1>1. /\ pc = "write" /\ file' = [file EXCEPT ![a] = merged] /\ Advance
        /\ UNCHANGED <<bak, mine, trace>>
    BY DEF Write, history
  <1>2. Busy /\ Agents' = Agents /\ Merged' = Merged
    BY <1>1 DEF Busy, Agents, Merged
  <1>3. \A b \in Agents : file'[b] = IF b = a THEN merged ELSE file[b]
    BY <1>1 DEF Agents
  <1>4. queue' = Tail(queue) /\ pc' \in {"idle", "read"}
    BY <1>1 DEF Advance
  <1>5. \A b \in Merged : trace[b] = "whole" => Foreign(b, file'[b]) = mine[b]
    <2> TAKE b \in Merged
    <2>1. CASE b = a
      BY <1>2, <1>3, <2>1 DEF KeepInv, ResultHolds, Merged
    <2>2. CASE b # a
      BY <1>3, <2>2 DEF KeepInv, TheirsSurvive, Writing, Holds, Merged
    <2> QED
      BY <2>1, <2>2
  <1>6. TheirsSurvive'
    BY <1>1, <1>2, <1>5 DEF TheirsSurvive, Holds
  <1>7. trace[a] # "cut"
        /\ (a \in Merged /\ trace[a] = "raced" => Foreign(a, bak[a]) = mine[a])
    BY <1>1, TailNotCut DEF KeepInv, BackupHolds, Holds
  <1>8. OverwriteIsRecoverable'
    <2> SUFFICES ASSUME NEW b \in Merged, trace[b] \in {"whole", "raced", "cut"}
                 PROVE  Foreign(b, file'[b]) = mine[b] \/ Foreign(b, bak[b]) = mine[b]
      BY <1>1, <1>2 DEF OverwriteIsRecoverable, Holds
    <2>1. CASE b = a
      BY <1>5, <1>7, <2>1
    <2>2. CASE b # a
      BY <1>3, <2>2 DEF KeepInv, OverwriteIsRecoverable, Holds, Merged
    <2> QED
      BY <2>1, <2>2
  <1>9. NoneCutYet'
    BY <1>1, <1>4, TailNotCut DEF NoneCutYet
  <1>10. ResultHolds' /\ RacedHolds' /\ BackupHolds'
    BY <1>4 DEF ResultHolds, RacedHolds, BackupHolds, Busy
  <1> QED
    BY <1>6, <1>8, <1>9, <1>10 DEF KeepInv

(* The command ends; the file it may have been writing is in the backup.   *)
LEMMA QuitKeepInv ==
  ASSUME TypeInv, KeepInv, pc # "idle", pc' = "idle", queue' = <<>>,
         DOMAIN file' = DOMAIN file,
         \A b \in Agents : file'[b] = file[b] \/ (b = Head(queue) /\ pc = "write"),
         \A b \in Agents : trace'[b] = IF b = Head(queue) /\ pc = "write" /\ trace[b] = "whole"
                                      THEN "cut" ELSE trace[b],
         UNCHANGED <<bak, mine>>
  PROVE  KeepInv'
  <1> DEFINE a == Head(queue)
  <1>1. Agents' = Agents /\ Merged' = Merged
    BY DEF Agents, Merged
  <1>2. \A b \in Agents : trace'[b] = IF b = a /\ pc = "write" /\ trace[b] = "whole"
                                      THEN "cut" ELSE trace[b]
    OBVIOUS
  <1>3. trace[a] # "cut"
    BY TailNotCut
  <1>4. TheirsSurvive'
    <2> SUFFICES ASSUME NEW b \in Merged, trace'[b] = "whole"
                 PROVE  Foreign(b, file'[b]) = mine[b]
      BY <1>1 DEF TheirsSurvive, Holds
    <2>1. trace[b] = "whole" /\ ~(b = a /\ pc = "write")
      BY <1>2 DEF Merged
    <2>2. Foreign(b, file[b]) = mine[b]
      BY <2>1 DEF KeepInv, TheirsSurvive, Writing, Holds
    <2> QED
      BY <2>1, <2>2 DEF Merged
  <1>5. OverwriteIsRecoverable'
    <2> SUFFICES ASSUME NEW b \in Merged, trace'[b] \in {"whole", "raced", "cut"}
                 PROVE  Foreign(b, file'[b]) = mine[b] \/ Foreign(b, bak[b]) = mine[b]
      BY <1>1 DEF OverwriteIsRecoverable, Holds
    <2>1. CASE b = a /\ pc = "write"
      <3>1. trace[b] \in {"whole", "raced"}
        BY <1>2, <1>3, <2>1 DEF Merged
      <3> QED
        BY <2>1, <3>1 DEF KeepInv, BackupHolds, Holds
    <2>2. CASE ~(b = a /\ pc = "write")
      <3>1. trace[b] \in {"whole", "raced", "cut"} /\ file'[b] = file[b]
        BY <1>2, <2>2 DEF Merged
      <3> QED
        BY <3>1 DEF KeepInv, OverwriteIsRecoverable, Holds
    <2> QED
      BY <2>1, <2>2
  <1>6. ResultHolds' /\ RacedHolds' /\ BackupHolds' /\ NoneCutYet'
    BY DEF ResultHolds, RacedHolds, BackupHolds, NoneCutYet, Busy
  <1> QED
    BY <1>4, <1>5, <1>6 DEF KeepInv

(* A write that fails leaves the backup. *)
LEMMA WriteFailsKeepInv == TypeInv /\ KeepInv /\ WriteFails => KeepInv'
  <1> SUFFICES ASSUME TypeInv, KeepInv, WriteFails PROVE KeepInv'
    OBVIOUS
  <1>1. PICK part \in CutShort(Head(queue)) : file' = [file EXCEPT ![Head(queue)] = part]
    BY DEF WriteFails
  <1>2. /\ pc = "write" /\ pc' = "idle" /\ queue' = <<>>
        /\ trace' = [trace EXCEPT ![Head(queue)] = IF @ = "whole" THEN "cut" ELSE @]
        /\ UNCHANGED <<bak, mine>>
    BY DEF WriteFails, Quit
  <1>3. \A b \in Agents : trace'[b] = IF b = Head(queue) /\ trace[b] = "whole"
                                      THEN "cut" ELSE trace[b]
    BY <1>2, TraceType
  <1> QED
    BY <1>1, <1>2, <1>3, QuitKeepInv DEF Agents

(* A killed command leaves the file, or has it in the backup. *)
LEMMA KillKeepInv == TypeInv /\ KeepInv /\ Kill => KeepInv'
  <1> SUFFICES ASSUME TypeInv, KeepInv, Kill PROVE KeepInv'
    OBVIOUS
  <1>1. /\ pc # "idle" /\ pc' = "idle" /\ queue' = <<>>
        /\ trace' = [trace EXCEPT ![Head(queue)] =
                       IF pc = "write" /\ @ = "whole" THEN "cut" ELSE @]
        /\ UNCHANGED <<file, bak, mine>>
    BY DEF Kill, Quit
  <1>2. DOMAIN file' = DOMAIN file /\ \A b \in Agents : file'[b] = file[b]
    BY <1>1
  <1>3. \A b \in Agents : trace'[b] = IF b = Head(queue) /\ pc = "write" /\ trace[b] = "whole"
                                      THEN "cut" ELSE trace[b]
    BY <1>1, TraceType
  <1>4. /\ pc # "idle" /\ pc' = "idle" /\ queue' = <<>> /\ UNCHANGED <<bak, mine>>
        /\ \A b \in Agents : file'[b] = file[b] \/ (b = Head(queue) /\ pc = "write")
    BY <1>1, <1>2
  <1> QED
    BY <1>2, <1>3, <1>4, QuitKeepInv

(* Plugins hold nothing of the user's. *)
LEMMA InstallPluginKeepInv == TypeInv /\ KeepInv /\ InstallPlugin => KeepInv'
  <1> SUFFICES ASSUME TypeInv, KeepInv, InstallPlugin PROVE KeepInv'
    OBVIOUS
  <1>1. /\ pc = "read" /\ Head(queue) \in Plugins /\ pc' = "truncate"
        /\ UNCHANGED <<file, bak, queue, mine, trace>>
    BY DEF InstallPlugin, history
  <1>2. Agents' = Agents /\ Merged' = Merged /\ Head(queue) \notin Merged
    BY <1>1 DEF Agents, Merged
  <1> QED
    BY <1>1, <1>2 DEF KeepInv, TheirsSurvive, OverwriteIsRecoverable, ResultHolds,
       RacedHolds, BackupHolds, NoneCutYet, Writing, Holds

(* A plugin that goes is no file of the user's. *)
LEMMA RemovePluginKeepInv == TypeInv /\ KeepInv /\ RemovePlugin => KeepInv'
  <1> SUFFICES ASSUME TypeInv, KeepInv, RemovePlugin PROVE KeepInv'
    OBVIOUS
  <1>1. /\ pc = "read" /\ Head(queue) \in Plugins /\ Advance
        /\ file' = [file EXCEPT ![Head(queue)] = Absent]
        /\ UNCHANGED <<bak, mine, trace>>
    BY DEF RemovePlugin, history
  <1>2. Agents' = Agents /\ Merged' = Merged /\ \A b \in Merged : file'[b] = file[b]
    BY <1>1 DEF Agents, Merged
  <1>3. queue' = Tail(queue) /\ pc' \in {"idle", "read"}
    BY <1>1 DEF Advance
  <1>4. NoneCutYet'
    BY <1>1, <1>3, TailNotCut DEF NoneCutYet
  <1>5. TheirsSurvive' /\ OverwriteIsRecoverable'
    BY <1>1, <1>2, <1>3 DEF KeepInv, TheirsSurvive, OverwriteIsRecoverable, Writing, Holds
  <1>6. ResultHolds' /\ RacedHolds' /\ BackupHolds'
    BY <1>3 DEF ResultHolds, RacedHolds, BackupHolds, Busy
  <1> QED
    BY <1>4, <1>5, <1>6 DEF KeepInv

(* Others write: what they put is what the file should hold now. *)
LEMMA EditKeepInv ==
  ASSUME TypeInv, KeepInv, NEW a \in Agents, Edit(a)
  PROVE  KeepInv'
  <1>1. PICK new \in Edited(a, file[a]) : /\ file' = [file EXCEPT ![a] = new]
                                         /\ mine' = [mine EXCEPT ![a] = Foreign(a, new)]
    BY DEF Edit
  <1>2. /\ trace' = [trace EXCEPT ![a] =
                       IF pc = "backup" /\ Head(queue) = a THEN "raced"
                       ELSE IF pc \in {"truncate", "write"} /\ Head(queue) = a THEN "missed"
                       ELSE @]
        /\ UNCHANGED <<bak, pc, queue, merged>>
    BY DEF Edit, command
  <1>3. Agents' = Agents /\ Merged' = Merged /\ DOMAIN mine = Agents
    BY <1>1 DEF Agents, Merged, TypeInv, Shape
  <1>4. file'[a] = new /\ mine'[a] = Foreign(a, new)
    BY <1>1, <1>3 DEF Agents
  <1>5. \A b \in Agents : b # a => file'[b] = file[b] /\ mine'[b] = mine[b] /\ trace'[b] = trace[b]
    BY <1>1, <1>2, <1>3, TraceType DEF Agents
  <1>6. trace'[a] = IF pc = "backup" /\ Head(queue) = a THEN "raced"
                    ELSE IF pc \in {"truncate", "write"} /\ Head(queue) = a THEN "missed"
                    ELSE trace[a]
    BY <1>2, TraceType
  <1>7. TheirsSurvive' /\ OverwriteIsRecoverable'
    BY <1>2, <1>3, <1>4, <1>5 DEF KeepInv, TheirsSurvive, OverwriteIsRecoverable, Writing, Holds, Merged
  <1>8. ResultHolds'
    BY <1>2, <1>3, <1>5, <1>6 DEF KeepInv, ResultHolds, Busy, Merged
  <1>9. BackupHolds'
    BY <1>2, <1>3, <1>5, <1>6 DEF KeepInv, BackupHolds, Holds, Merged
  <1>10. NoneCutYet'
    <2>1. \A i \in DOMAIN queue : queue[i] \in Agents
      BY DEF TypeInv, TypeOK
    <2>2. \A b \in Agents : trace[b] # "cut" => trace'[b] # "cut"
      BY <1>5, <1>6
    <2> QED
      BY <1>2, <2>1, <2>2 DEF KeepInv, NoneCutYet
  <1>11. RacedHolds'
    <2> SUFFICES ASSUME NEW b \in Merged, trace'[b] = "raced", pc = "backup", Head(queue) = b
                 PROVE  Foreign(b, file'[b]) = mine'[b]
      BY <1>2, <1>3 DEF RacedHolds, Holds
    <2>1. CASE b = a
      BY <1>4, <2>1
    <2>2. CASE b # a
      BY <1>5, <2>2 DEF KeepInv, RacedHolds, Holds, Merged
    <2> QED
      BY <2>1, <2>2
  <1> QED
    BY <1>7, <1>8, <1>9, <1>10, <1>11 DEF KeepInv

(* Every step keeps it. *)
LEMMA NextKeepInv == TypeInv /\ TurnInv /\ KeepInv /\ [Next]_vars => KeepInv'
  <1> SUFFICES ASSUME TypeInv, TurnInv, KeepInv, [Next]_vars PROVE KeepInv'
    OBVIOUS
  <1>1. CASE UNCHANGED vars
    <2>1. UNCHANGED <<file, bak, pc, op, exe, queue, merged, commands, edits, mine, trace>>
      BY <1>1 DEF vars, command, history
    <2> QED
      BY <2>1 DEF KeepInv, TheirsSurvive, OverwriteIsRecoverable, ResultHolds, RacedHolds,
         BackupHolds, NoneCutYet, Agents, Merged, Busy, Writing, Holds
  <1>2. CASE \E o \in {"install", "uninstall"}, x \in Exes, t \in Targets : Start(o, x, t)
    BY <1>2, StartKeepInv
  <1>3. CASE NothingInstalled \/ LeavePlugin
    BY <1>3, AdvanceKeepInv DEF NothingInstalled, LeavePlugin, history
  <1>4. CASE Step
    BY <1>3, <1>4, ReadFailsKeepInv, MergeKeepInv, BackupKeepInv, TruncateKeepInv,
       WriteKeepInv, InstallPluginKeepInv, RemovePluginKeepInv DEF Step
  <1>5. CASE WriteFails \/ Kill
    BY <1>5, WriteFailsKeepInv, KillKeepInv
  <1>6. CASE \E a \in Agents : Edit(a)
    BY <1>6, EditKeepInv
  <1> QED
    BY <1>1, <1>2, <1>4, <1>5, <1>6 DEF Next

(* So it always holds. *)
LEMMA KeepInvHolds == Spec => [](TypeInv /\ TurnInv /\ KeepInv)
  BY InitTypeInv, NextTypeInv, InitKeepInv, NextTurnInv, NextKeepInv, PTL DEF Spec

(* After any sequence of installs, uninstalls and edits that did not meet, *)
(* every setting and hook that is not ours is in its file                  *)
(* (install.rs:16-19).                                                     *)
THEOREM NothingOfTheirsIsLost == Spec => []TheirsSurvive
  <1>1. TypeInv /\ KeepInv => TheirsSurvive
    BY DEF KeepInv
  <1> QED
    BY <1>1, KeepInvHolds, PTL

(* A command that dies inside its write, or writes over what the user put  *)
(* in the file between its read and its copy, leaves it in the backup      *)
(* (write_with_bak, install.rs:290-302).                                   *)
THEOREM AnOverwriteIsRecoverable == Spec => []OverwriteIsRecoverable
  <1>1. TypeInv /\ KeepInv => OverwriteIsRecoverable
    BY DEF KeepInv
  <1> QED
    BY <1>1, KeepInvHolds, PTL

-----------------------------------------------------------------------------
(* Our own hooks.                                                          *)

(* Nothing is about to be written at first. *)
LEMMA InitExact == Init => OursAreExact
  BY DEF Init, OursAreExact

(* Only the merge decides what is about to be written. *)
LEMMA NextExact == TypeInv /\ OursAreExact /\ [Next]_vars => OursAreExact'
  <1> SUFFICES ASSUME TypeInv, OursAreExact, [Next]_vars, Busy', Head(queue') \notin Plugins
               PROVE  OursAreExact'
    BY DEF OursAreExact, Busy
  <1>1. CASE UNCHANGED <<op, exe, queue, merged>> /\ Busy
    BY <1>1 DEF OursAreExact, Busy
  <1>2. CASE UNCHANGED vars \/ Backup \/ Truncate \/ \E a \in Agents : Edit(a)
    BY <1>1, <1>2 DEF vars, command, Backup, Truncate, Edit, Busy
  <1>3. CASE Merge
    <2> DEFINE a == Head(queue)
               doc == Parse(file[a])
    <2>1. /\ pc = "read" /\ a \notin Plugins /\ doc # Torn /\ UNCHANGED <<op, exe, queue>>
          /\ merged' = IF op = "install" THEN Install(a, exe, doc) ELSE Strip(a, doc)
      BY <1>3 DEF Merge
    <2>2. a \in Mergeable /\ file[a] \in Contents(a) /\ file[a] # Torn
      BY <2>1, HeadOfQueue, TraceType, ParsedType
    <2>3. exe \in Exes /\ op \in {"install", "uninstall"}
      BY TypeInvParts DEF Control
    <2>4. /\ ~HasSailorHook(a, Strip(a, doc))
          /\ LET new == Install(a, exe, doc) IN
             new = Other \/ Get(new, "hooks") = Other \/ Complete(a, exe, new)
      BY <2>2, <2>3, MergeIsExact
    <2> QED
      BY <2>1, <2>3, <2>4 DEF OursAreExact
  <1>4. CASE InstallPlugin
    BY <1>4 DEF InstallPlugin
  <1>5. CASE (\E o \in {"install", "uninstall"}, x \in Exes, t \in Targets : Start(o, x, t))
             \/ ReadFails \/ NothingInstalled \/ Write \/ LeavePlugin \/ RemovePlugin
             \/ WriteFails \/ Kill
    BY <1>5 DEF Start, ReadFails, NothingInstalled, Write, LeavePlugin, RemovePlugin,
       WriteFails, Kill, Quit, Advance, Busy
  <1> QED
    BY <1>2, <1>3, <1>4, <1>5 DEF Next, Step

(* What install writes has every hook of ours once, what uninstall writes  *)
(* none (install.rs:377-378).                                              *)
THEOREM OurHooksAreExact == Spec => []OursAreExact
  BY InitTypeInv, NextTypeInv, InitExact, NextExact, PTL DEF Spec

-----------------------------------------------------------------------------
(* Installing twice.                                                       *)

(* One entry of a file, as Unordered takes it. *)
AsSet(a, x) ==
  IF x.key = "hooks" /\ x.value # Other /\ a # "kimi"
  THEN [key |-> "hooks", value |-> ToSet(x.value)] ELSE x

(* A file without its order: its hooks, and the rest. *)
LEMMA UnorderedIs ==
  ASSUME NEW a \in Mergeable, NEW d \in Docs(a), Has(d, "hooks")
  PROVE  Unordered(a, d)
           = {AsSet(a, x) : x \in Rest(d, "hooks")} \union {AsSet(a, PairOf("hooks", HooksIn(d)))}
  <1> DEFINE h == PairOf("hooks", HooksIn(d))
  <1>1. d \in Object(DocValue(a))
    BY DocMembers
  <1>2. h \in ToSet(d) /\ OneKey(ToSet(d)) /\ h.key = "hooks"
    BY <1>1, ObjectMembers DEF HooksIn, PairOf
  <1> HIDE DEF h
  <1>3. ToSet(d) = Rest(d, "hooks") \union {h}
    BY <1>2 DEF Rest, OneKey
  <1>4. Unordered(a, d) = {AsSet(a, x) : x \in ToSet(d)}
    BY DEF Unordered, AsSet
  <1> QED
    BY <1>3, <1>4 DEF h

(* Hooks that differ in the order of events are the same set. *)
LEMMA SameHooksAsSets ==
  ASSUME NEW a, NEW v, NEW w, SameHooks(a, v, w)
  PROVE  AsSet(a, PairOf("hooks", v)) = AsSet(a, PairOf("hooks", w))
  BY DEF SameHooks, AsSet, PairOf

(* InstallTwice, as serde_json compares objects. *)
LEMMA InstallTwiceUnordered ==
  ASSUME NEW a \in Mergeable, NEW x \in Exes, NEW c \in Contents(a), c \notin {Torn, Other}
  PROVE  LET once == Install(a, x, Parse(c)) IN
         Unordered(a, Install(a, x, once)) = Unordered(a, once)
  <1> DEFINE once == Install(a, x, Parse(c))
             twice == Install(a, x, once)
  <1>1. /\ once \in Docs(a) /\ twice \in Docs(a)
        /\ Has(once, "hooks") /\ Has(twice, "hooks")
        /\ Rest(twice, "hooks") = Rest(once, "hooks")
        /\ SameHooks(a, HooksIn(once), HooksIn(twice))
    BY ParsedType, InstallTwice
  <1> HIDE DEF once, twice
  <1>2. AsSet(a, PairOf("hooks", HooksIn(once))) = AsSet(a, PairOf("hooks", HooksIn(twice)))
    BY <1>1, SameHooksAsSets
  <1> QED
    BY <1>1, <1>2, UnorderedIs DEF once, twice

(* Nothing is replaced, in both words. *)
LEMMA ReplacesIs ==
  ASSUME NEW a, NEW d, ~Replaces(a, d)
  PROVE  NoneReplaced(a, HooksIn(d))
  <1>1. CASE Has(d, "hooks")
    BY <1>1 DEF Replaces, NoneReplaced, HooksIn
  <1>2. CASE ~Has(d, "hooks")
    BY <1>2, EmptyObject DEF NoneReplaced, HooksIn
  <1> QED
    BY <1>1, <1>2

(* A file that parses is a document. *)
LEMMA FileIsDoc ==
  ASSUME TypeInv, NEW a \in Merged, Parses(Parse(file[a]))
  PROVE  a \in Mergeable /\ Parse(file[a]) \in Docs(a)
  <1>1. a \in Mergeable /\ file[a] \in Contents(a)
    BY MergedAgents, TraceType DEF Merged, TypeInv, Shape
  <1> QED
    BY <1>1, ParsedType DEF Parses

(* Installing twice is installing once (install.rs:18-19), for every file  *)
(* the program can be in.                                                  *)
THEOREM InstallingTwiceIsInstallingOnce == Spec => []InstallIsIdempotent
  <1>1. TypeInv => InstallIsIdempotent
    <2> SUFFICES ASSUME TypeInv, NEW a \in Merged, NEW x \in Exes, Parses(file[a])
                 PROVE  LET doc   == Parse(file[a])
                            once  == Install(a, x, doc)
                            twice == Install(a, x, once)
                        IN IF Replaces(a, doc)
                           THEN /\ Unordered(a, twice) = Unordered(a, once)
                                /\ Install(a, x, twice) = twice
                           ELSE twice = once
      BY DEF InstallIsIdempotent
    <2> DEFINE doc == Parse(file[a])
    <2>1. a \in Mergeable /\ file[a] \in Contents(a) /\ file[a] \notin {Torn, Other}
      BY MergedAgents, TraceType DEF Merged, TypeInv, Shape, Parses
    <2>2. doc \in Docs(a)
      BY <2>1, ParsedType
    <2>3. LET once == Install(a, x, doc) IN Unordered(a, Install(a, x, once)) = Unordered(a, once)
      BY <2>1, InstallTwiceUnordered
    <2> HIDE DEF doc
    <2>4. LET twice == Install(a, x, Install(a, x, doc)) IN Install(a, x, twice) = twice
      BY <2>1, <2>2, InstallThrice
    <2>5. ~Replaces(a, doc) => Install(a, x, Install(a, x, doc)) = Install(a, x, doc)
      BY <2>1, <2>2, ReplacesIs, InstallOverAnother
    <2> QED
      BY <2>3, <2>4, <2>5 DEF doc
  <1> QED
    BY <1>1, InitTypeInv, NextTypeInv, PTL DEF Spec

-----------------------------------------------------------------------------
(* Uninstalling what was installed.                                        *)

(* "The inverse of `install`" (uninstall.rs:3-5), for every file the       *)
(* program can be in where install replaces nothing.                       *)
THEOREM UninstallTakesInstallBack == Spec => []UninstallIsInverse
  <1>1. TypeInv => UninstallIsInverse
    <2> SUFFICES ASSUME TypeInv, NEW a \in Merged, NEW x \in Exes,
                        Parses(Parse(file[a])), ~Replaces(a, Parse(file[a]))
                 PROVE  Strip(a, Install(a, x, Parse(file[a])))
                          = Versioned(a, Strip(a, Parse(file[a])))
      BY DEF UninstallIsInverse
    <2> DEFINE d == Parse(file[a])
    <2>1. a \in Mergeable /\ d \in Docs(a)
      BY FileIsDoc
    <2> HIDE DEF d
    <2>2. NoneReplaced(a, HooksIn(d))
      BY ReplacesIs DEF d
    <2> QED
      BY <2>1, <2>2, UninstallAfterInstall DEF d
  <1> QED
    BY <1>1, InitTypeInv, NextTypeInv, PTL DEF Spec
=============================================================================
