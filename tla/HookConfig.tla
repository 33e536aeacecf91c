----------------------------- MODULE HookConfig -----------------------------
(***************************************************************************)
(* `sailor-hook install` and `uninstall` on the agents' settings files     *)
(* (src/src/commands/install.rs, src/src/commands/uninstall.rs): one       *)
(* command works through its agents, reading, merging, backing up and      *)
(* writing each file in place.  The command may be killed anywhere, a write*)
(* may fail half way, and the user, or the agent itself, may write the same*)
(* file at any moment.                                                     *)
(*                                                                         *)
(* OpenCode and pi have a file of their own instead, which is written whole*)
(* and never merged; it is modelled by which version of it is on disk.     *)
(***************************************************************************)

EXTENDS HookFormats, FiniteSets

CONSTANTS
  Absent,      \* no such file
  Blank,       \* a file with nothing in it
  Torn,        \* a file that does not parse
  Current, Older, Moved, Cut, NotOurs,
               \* what a plugin file may be: as install writes it, an older
               \*   version, one with our marker that does not call the shim as
               \*   we do, ours cut off after that call, one without our marker
  Starts,      \* what the files of the agents in play may hold at first
  MaxCommands, \* bound: commands started
  MaxEdits     \* bound: writes of the user or the agent

Order == <<"claude_code", "codex", "opencode", "gemini", "cursor", "kimi",
           "qwen", "pi">>
Plugins == {"opencode", "pi"}

(* What a plugin's file, or a settings file, may hold; TOML has nothing but*)
(* a table at the top.                                                     *)
PluginFiles == {Absent, Blank, Current, Older, Moved, Cut, NotOurs}
Contents(a) ==
  IF a \in Plugins THEN PluginFiles
  ELSE {Absent, Blank, Torn} \union (IF a = "kimi" THEN {} ELSE {Other}) \union Docs(a)

ASSUME StartsAssumption ==
  \A s \in Starts : /\ DOMAIN s \subseteq ToSet(Order) /\ DOMAIN s # {}
                    /\ \A a \in DOMAIN s : s[a] \in Contents(a)
ASSUME MarkersAssumption ==
  /\ Torn \notin {Absent, Blank, Other} \union PluginFiles
  /\ Other \notin {Absent, Blank} /\ Absent # Blank
  /\ \A c \in {Absent, Blank, Torn, Other} : c \notin {Current, Older, Moved, Cut}
  /\ \A a \in ToSet(Order) \ Plugins, c \in {Torn, Absent, Blank} \union PluginFiles :
       c \notin Docs(a)
ASSUME BoundsAssumption == MaxCommands \in Nat /\ MaxEdits \in Nat

VARIABLES
  file,      \* file[a]: the agent's settings file
  bak,       \* bak[a]: its backup
  pc,        \* "idle", "read", "backup", "truncate", "write"
  op,        \* "install" or "uninstall"
  exe,       \* the path of the binary that runs
  queue,     \* agents left to do
  merged,    \* what will be written
  commands,  \* commands started
  edits,     \* writes of others
  mine,      \* history: mine[a]: what others last put in the file
  trace      \* history: trace[a]: what became of the last command's work on a
             \*   "whole", "raced" (others wrote between its read and its copy
             \*   to the backup), "missed" (they wrote after the copy), "cut"
             \*   (ended inside the write) or "late" (what others had put was
             \*   gone before it)

command == <<pc, op, exe, queue, merged>>
history == <<mine, trace>>
vars == <<file, bak, command, commands, edits, history>>

-----------------------------------------------------------------------------
(* Files.                                                                  *)

(* The agents in play. *)
Agents == DOMAIN file

(* A plugin file that carries our marker. *)
Marked(content) == content \in {Current, Older, Moved, Cut}

(* Whether install leaves the plugin as it is. *)
LeftAlone(a, content) ==
  Marked(content) /\ (a = "opencode" => content # Moved)

(* Parses that get over an error: with an empty object, or with a null,    *)
(* which no table of TOML's is.                                            *)
ParseAnything(content) ==
  IF content \in {Absent, Blank, Torn} THEN <<>> ELSE content
ParseAsNull(content) ==
  CASE content \in {Absent, Blank} -> <<>> [] content = Torn -> Other
    [] OTHER -> content

(* read_settings and read_toml: missing and blank read as an empty object. *)
Parse(content) ==
  IF content \in {Absent, Blank} THEN <<>> ELSE content

(* What is not ours: other settings, and other hooks in their order. *)
Foreign(a, content) ==
  IF a \in Plugins \/ content \in {Torn, Other} THEN [other |-> content]
  ELSE LET doc == Parse(content) IN
    [settings |-> {x \in ToSet(doc) : x.key \notin {"hooks", "version"}},
     hooks |-> {l \in {[key |-> k.key, list |-> WithoutOurs(k.list)] :
                         k \in HookLists(a, doc)} : l.list # <<>>}]

Holds(a, content) == Foreign(a, content) = mine[a]

Init ==
  /\ file \in Starts
  /\ bak = [a \in Agents |-> Absent]
  /\ pc = "idle"
  /\ op = "install"
  /\ exe \in Exes
  /\ queue = <<>>
  /\ merged = <<>>
  /\ commands = 0
  /\ edits = 0
  /\ mine = [a \in Agents |-> Foreign(a, file[a])]
  /\ trace = [a \in Agents |-> "whole"]

-----------------------------------------------------------------------------
(* The command.                                                            *)

(* targets_for: one agent, or all of them in order. *)
Targets == {<<a>> : a \in Agents} \union {Sublist(Order, Agents)}

Start(o, x, targets) ==
  /\ pc = "idle"
  /\ commands < MaxCommands
  /\ commands' = commands + 1
  /\ pc' = "read"
  /\ op' = o
  /\ exe' = x
  /\ queue' = targets
  /\ trace' = [a \in Agents |->
                 IF a \notin ToSet(targets) THEN trace[a]
                 ELSE IF Holds(a, file[a]) THEN "whole" ELSE "late"]
  /\ UNCHANGED <<file, bak, merged, edits, mine>>

(* On to the next agent, or done. *)
Advance ==
  /\ queue' = Tail(queue)
  /\ pc' = IF Tail(queue) = <<>> THEN "idle" ELSE "read"
  /\ UNCHANGED <<op, exe>>

(* The command ends, with an error or killed; agents it had not come to    *)
(* stay as they are.                                                       *)
Quit ==
  /\ pc' = "idle"
  /\ queue' = <<>>
  /\ UNCHANGED <<op, exe, merged>>

(* The file does not parse: the error ends the command. *)
ReadFails ==
  LET a == Head(queue) IN
  /\ pc = "read"
  /\ a \notin Plugins
  /\ Parse(file[a]) = Torn
  /\ Quit
  /\ UNCHANGED <<file, bak, commands, edits, history>>

(* The file is read and merged. *)
Merge ==
  LET a == Head(queue)
      doc == Parse(file[a]) IN
  /\ pc = "read"
  /\ a \notin Plugins
  /\ doc # Torn
  /\ op = "uninstall" => file[a] # Absent /\ HasSailorHook(a, doc)
  /\ merged' = IF op = "install" THEN Install(a, exe, doc) ELSE Strip(a, doc)
  /\ pc' = "backup"
  /\ UNCHANGED <<file, bak, op, exe, queue, commands, edits, history>>

(* Nothing installed: the file is not written at all. *)
NothingInstalled ==
  LET a == Head(queue) IN
  /\ pc = "read"
  /\ op = "uninstall"
  /\ IF a \in Plugins THEN ~Marked(file[a])
     ELSE /\ Parse(file[a]) # Torn
          /\ file[a] = Absent \/ ~HasSailorHook(a, Parse(file[a]))
  /\ Advance
  /\ UNCHANGED <<file, bak, merged, commands, edits, history>>

(* write_with_bak copies the file as it is now, if there is one. *)
BackupNothing == UNCHANGED bak
CopyToBackup ==
  LET a == Head(queue) IN
  bak' = IF file[a] = Absent THEN bak ELSE [bak EXCEPT ![a] = file[a]]

Backup ==
  /\ pc = "backup"
  /\ CopyToBackup
  /\ pc' = "truncate"
  /\ UNCHANGED <<file, op, exe, queue, merged, commands, edits, history>>

(* fs::write opens the file and empties it, ... *)
Truncate ==
  /\ pc = "truncate"
  /\ file' = [file EXCEPT ![Head(queue)] = Blank]
  /\ pc' = "write"
  /\ UNCHANGED <<bak, op, exe, queue, merged, commands, edits, history>>

(* ... then writes. *)
Write ==
  LET a == Head(queue) IN
  /\ pc = "write"
  /\ file' = [file EXCEPT ![a] = merged]
  /\ Advance
  /\ merged' = <<>>
  /\ UNCHANGED <<bak, commands, edits, history>>

(* What a write cut short may leave: less than all of it.  A prefix of a   *)
(* JSON object never parses; one of a TOML table may: the settings come    *)
(* first, then the rules one by one.                                       *)
CutShort(a) ==
  LET rest  == ShiftRemove(merged, "hooks")
      rules == Get(merged, "hooks") IN
  IF a \in Plugins THEN {NotOurs, Moved, Cut}
  ELSE IF a # "kimi" THEN {Torn}
  ELSE {Torn} \union {SubSeq(rest, 1, n) : n \in 0..Len(rest)}
       \union (IF ~Has(merged, "hooks") \/ rules = Other THEN {}
               ELSE {Put(merged, "hooks", SubSeq(rules, 1, n)) :
                       n \in 1..(Len(rules) - 1)})

(* The disk is full or the process dies in the middle of it. *)
WriteFails ==
  LET a == Head(queue) IN
  /\ pc = "write"
  /\ \E part \in CutShort(a) : file' = [file EXCEPT ![a] = part]
  /\ trace' = [trace EXCEPT ![a] = IF @ = "whole" THEN "cut" ELSE @]
  /\ Quit
  /\ UNCHANGED <<bak, commands, edits, mine>>

(* The command is killed between two steps. *)
Kill ==
  LET a == Head(queue) IN
  /\ pc # "idle"
  /\ trace' = [trace EXCEPT ![a] = IF pc = "write" /\ @ = "whole" THEN "cut"
                                   ELSE @]
  /\ Quit
  /\ UNCHANGED <<file, bak, commands, edits, mine>>

(* install_plugin and install_extension: nothing to merge, nothing backed  *)
(* up, and a file that looks like ours is left alone.                      *)
InstallPlugin ==
  LET a == Head(queue) IN
  /\ pc = "read"
  /\ op = "install"
  /\ a \in Plugins
  /\ ~LeftAlone(a, file[a])
  /\ merged' = Current
  /\ pc' = "truncate"
  /\ UNCHANGED <<file, bak, op, exe, queue, commands, edits, history>>

LeavePlugin ==
  LET a == Head(queue) IN
  /\ pc = "read"
  /\ op = "install"
  /\ a \in Plugins
  /\ LeftAlone(a, file[a])
  /\ Advance
  /\ UNCHANGED <<file, bak, merged, commands, edits, history>>

RemovePlugin ==
  LET a == Head(queue) IN
  /\ pc = "read"
  /\ op = "uninstall"
  /\ a \in Plugins
  /\ Marked(file[a])
  /\ file' = [file EXCEPT ![a] = Absent]
  /\ Advance
  /\ UNCHANGED <<bak, merged, commands, edits, history>>

-----------------------------------------------------------------------------
(* The user, and the agent that owns the file.                             *)

(* What they may make of a file they can read: one more setting, a hook    *)
(* beside ours in its group, or a group of its own.                        *)
AddSetting(doc) ==
  {Append(doc, [key |-> k, value |-> Theirs]) : k \in Names \ Keys(doc)}

AddHook(a, doc, h) ==
  LET hooks == Get(doc, "hooks")
      event == Subscribed(a)[1]
      list  == Get(hooks, event)
      shared == [list EXCEPT ![Len(list)] = IF @ = Other THEN <<h>> ELSE Append(@, h)]
  IN IF ~Has(doc, "hooks") \/ hooks = Other \/ a = "kimi" THEN {}
     ELSE IF ~Has(hooks, event) \/ list = Other THEN {}
     ELSE {Put(doc, "hooks", Put(hooks, event, new)) :
             new \in IF a \in Nested
                     THEN {Append(list, <<h>>)} \union (IF list = <<>> THEN {} ELSE {shared})
                     ELSE {Append(list, h)}}

Repaired(a) == {s[a] : s \in {t \in Starts : a \in DOMAIN t}} \ {Absent, Torn, Other}

Edited(a, content) ==
  IF content \in {Torn, Other} THEN Repaired(a)
  ELSE LET doc == Parse(content) IN
    AddSetting(doc) \union UNION {AddHook(a, doc, h) : h \in UserHooks}

Edit(a) ==
  /\ edits < MaxEdits
  /\ a \notin Plugins
  /\ edits' = edits + 1
  /\ \E new \in Edited(a, file[a]) :
       /\ file' = [file EXCEPT ![a] = new]
       /\ mine' = [mine EXCEPT ![a] = Foreign(a, new)]
  /\ trace' = [trace EXCEPT ![a] =
                 IF pc = "backup" /\ Head(queue) = a THEN "raced"
                 ELSE IF pc \in {"truncate", "write"} /\ Head(queue) = a THEN "missed"
                 ELSE @]
  /\ UNCHANGED <<bak, command, commands>>

-----------------------------------------------------------------------------
Step ==
  \/ ReadFails \/ Merge \/ NothingInstalled \/ Backup \/ Truncate \/ Write
  \/ InstallPlugin \/ LeavePlugin \/ RemovePlugin

Next ==
  \/ \E o \in {"install", "uninstall"}, x \in Exes, t \in Targets : Start(o, x, t)
  \/ Step
  \/ WriteFails
  \/ Kill
  \/ \E a \in Agents : Edit(a)

Spec == Init /\ [][Next]_vars

-----------------------------------------------------------------------------
Merged == Agents \ Plugins

(* The agent whose file the command is in the middle of writing. *)
Writing(a) == pc = "write" /\ Head(queue) = a

Parses(content) == content \notin {Torn, Other}

(* Type invariant: where the command is, what is left for it to do, and    *)
(* every file is one of its agent's, or none that parses.                  *)
TypeOK ==
  /\ pc \in {"idle", "read", "backup", "truncate", "write"}
  /\ op \in {"install", "uninstall"}
  /\ exe \in Exes
  /\ queue \in Seq(Agents)
  /\ pc = "idle" <=> queue = <<>>
  /\ commands \in 0..MaxCommands
  /\ edits \in 0..MaxEdits
  /\ trace \in [Agents -> {"whole", "raced", "missed", "cut", "late"}]
  /\ \A a \in Agents : {file[a], bak[a]} \subseteq Contents(a)
  /\ pc \in {"backup", "truncate", "write"} => merged \in Contents(Head(queue))

(* "Never rewrite what we didn't write" (install.rs:16-19): every setting   *)
(* and every hook of the user's is in the file, in the order it was, after *)
(* any sequence of installs, re-installs by another binary and uninstalls, *)
(* also when the user put a hook into one of our own groups.               *)
TheirsSurvive ==
  \A a \in Merged : trace[a] = "whole" /\ ~Writing(a) => Holds(a, file[a])

(* "Keeping a .bak of whatever was there before" (install.rs:290-291): a   *)
(* command that dies inside the write, or that writes over what the user   *)
(* put in the file after its read, leaves it in the backup, unless it came *)
(* after the copy or was gone from the file before the command began.      *)
OverwriteIsRecoverable ==
  \A a \in Merged : trace[a] \in {"whole", "raced", "cut"} =>
    Holds(a, file[a]) \/ Holds(a, bak[a])

(* Our hooks as they should stand in one list of the file. *)
Expected(a, x, key) ==
  IF a = "kimi" THEN [i \in DOMAIN Subscribed(a) |-> OurHook(a, x, Subscribed(a)[i])]
  ELSE IF key \in ToSet(Subscribed(a)) THEN <<OurHook(a, x, key)>>
  ELSE <<>>

Complete(a, x, doc) ==
  LET lists == HookLists(a, doc) IN
  /\ a # "kimi" => ToSet(Subscribed(a)) \subseteq {l.key : l \in lists}
  /\ \A l \in lists : Sublist(l.list, OurHooks) = Expected(a, x, l.key)

(* What install is about to write has every hook of ours once, in its own  *)
(* event and for the binary that runs, whatever installs, binaries, edits  *)
(* and cut writes the file has been through: no event is reported twice or *)
(* waited for by two shims (install.rs:377-378, replacing any it already   *)
(* owns).  What uninstall is about to write has none.                      *)
OursAreExact ==
  LET a == Head(queue) IN
  pc \in {"backup", "truncate", "write"} /\ a \notin Plugins =>
    IF op = "uninstall" THEN ~HasSailorHook(a, merged)
    ELSE merged = Other \/ Get(merged, "hooks") = Other \/ Complete(a, exe, merged)

(* A file but for the order of its keys, as serde_json compares objects. *)
Unordered(a, doc) ==
  {IF x.key = "hooks" /\ x.value # Other /\ a # "kimi"
   THEN [key |-> "hooks", value |-> ToSet(x.value)] ELSE x : x \in ToSet(doc)}

(* What install replaces: an event of ours whose value is no list.         *)
Replaces(a, doc) ==
  /\ a # "kimi" /\ Has(doc, "hooks") /\ Get(doc, "hooks") # Other
  /\ \E e \in ToSet(Subscribed(a)) :
       Has(Get(doc, "hooks"), e) /\ Get(Get(doc, "hooks"), e) = Other

(* Installing twice is installing once (install.rs:18-19), whatever the    *)
(* file has been through and whichever binary was there before: to the     *)
(* order of the keys, if install replaces nothing.  If it does, the order  *)
(* may change once more, and then stays.                                   *)
InstallIsIdempotent ==
  \A a \in Merged, x \in Exes : Parses(file[a]) =>
    LET doc   == Parse(file[a])
        once  == Install(a, x, doc)
        twice == Install(a, x, once)
    IN IF Replaces(a, doc)
       THEN /\ Unordered(a, twice) = Unordered(a, once)
            /\ Install(a, x, twice) = twice
       ELSE twice = once

(* "The inverse of `install`" (uninstall.rs:3-5), where install replaces   *)
(* nothing: install and then uninstall leave what uninstall alone leaves,  *)
(* key for key in its order, which is the file itself if there was no hook *)
(* of ours in it and nothing empty that strip would prune.                 *)
UninstallIsInverse ==
  \A a \in Merged, x \in Exes :
    LET doc == Parse(file[a]) IN
    Parses(doc) /\ ~Replaces(a, doc) =>
      Strip(a, Install(a, x, doc)) = Versioned(a, Strip(a, doc))

(* No command writes a file it could not parse, whose only good copy may be*)
(* the backup: only its owner repairs it (install.rs:285-286).             *)
TornIsLeft ==
  [][\A a \in Agents : file[a] = Torn /\ file'[a] # Torn => edits' # edits]_vars

-----------------------------------------------------------------------------
(* What comments of the code say of it, and the code does not do.          *)

(* "The file belongs to the user, so a bad merge has to be recoverable"    *)
(* (install.rs:290-291): what the user last had is in the file or in the   *)
(* backup.                                                                 *)
Recoverable ==
  \A a \in Merged : Holds(a, file[a]) \/ Holds(a, bak[a])
=============================================================================
