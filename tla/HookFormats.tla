---------------------------- MODULE HookFormats ----------------------------
(***************************************************************************)
(* The settings files that carry sailor's hooks, and what install and      *)
(* uninstall make of them (src/src/commands/install.rs).  A file is a tree *)
(* of objects and lists; only its shape and the owner of each hook matter. *)
(*                                                                         *)
(* Objects keep the order of their keys (serde_json with preserve_order),  *)
(* so an object is a sequence of keyed values.  Three shapes:              *)
(*   nested  hooks: { Event: [ { hooks: [hook, ...] }, ... ] }             *)
(*   cursor  hooks: { Event: [ hook, ... ] }                               *)
(*   kimi    hooks: [ hook, ... ], the event a field of the hook           *)
(* A group { matcher, hooks } is the sequence of its hooks.                *)
(***************************************************************************)

EXTENDS AgentHooks, SequencesExt

CONSTANTS
  Exes,       \* paths the binary has been installed at
  UserHooks,  \* hooks of the user or of other tools
  Theirs,     \* a setting that is none of ours
  Names,      \* keys of theirs: other settings, and events we do not report
  Other       \* a value that is not the object or list expected there

(* The entries of a list that are in S, in their order. *)
Sublist(list, S) ==
  LET kept[n \in 0..Len(list)] ==
        IF n = 0 THEN <<>>
        ELSE IF list[n] \in S THEN Append(kept[n - 1], list[n]) ELSE kept[n - 1]
  IN kept[Len(list)]

(* Objects. *)
Has(m, k) == \E i \in DOMAIN m : m[i].key = k
Get(m, k) == m[CHOOSE i \in DOMAIN m : m[i].key = k].value
Keys(m) == {m[i].key : i \in DOMAIN m}

(* insert: in its place, or at the end. *)
Put(m, k, v) ==
  LET new == [key |-> k, value |-> v] IN
  IF Has(m, k) THEN [i \in DOMAIN m |-> IF m[i].key = k THEN new ELSE m[i]]
  ELSE Append(m, new)

(* serde_json's Map::remove: the last key takes the place of the removed.  *)
SwapRemove(m, k) ==
  LET n == Len(m) IN
  SubSeq([i \in 1..n |-> IF m[i].key = k THEN m[n] ELSE m[i]], 1, n - 1)

(* toml's Map::remove keeps the order. *)
ShiftRemove(m, k) == Sublist(m, {x \in ToSet(m) : x.key # k})

-----------------------------------------------------------------------------
Nested == {"claude_code", "codex", "gemini", "qwen"}

(* A hook of ours: for which event, by which binary, and whether it waits. *)
OurHook(agent, exe, event) ==
  [event |-> event, exe |-> exe, waits |-> WaitsForADecision(agent, event)]

Mergeable == {"claude_code", "codex", "gemini", "cursor", "kimi", "qwen"}
OurEvents == UNION {ToSet(Subscribed(a)) : a \in Mergeable}
OurHooks == [event : OurEvents, exe : Exes, waits : BOOLEAN]

(* The command carries the marker. *)
IsSailorHook(h) == h \notin UserHooks \union {Other}

-----------------------------------------------------------------------------
(* The contents of a file that parses: in an object no two keys are equal, *)
(* and a value of the wrong kind is Other.                                 *)

Hook == OurHooks \union UserHooks \union {Other}
Group == Seq(Hook) \union {Other}
Entries(agent) == IF agent \in Nested THEN Seq(Group) ELSE Seq(Hook)

Key == {"hooks", "version"} \union OurEvents \union Names
Pair(V) == [key : Key, value : V]
OneOfEach(m) == \A i, j \in DOMAIN m : m[i].key = m[j].key => i = j
Object(V) == {m \in Seq(Pair(V)) : OneOfEach(m)}

EventTable(agent) == Object(Entries(agent) \union {Other})
HooksValue(agent) ==
  (IF agent = "kimi" THEN Seq(Hook) ELSE EventTable(agent)) \union {Other}
Docs(agent) ==
  {d \in Object({Theirs} \union HooksValue(agent)) :
     \A i \in DOMAIN d : IF d[i].key = "hooks" THEN d[i].value \in HooksValue(agent)
                         ELSE d[i].value = Theirs}

ASSUME OursAreOurs == \A h \in UserHooks \union {Other} : h \notin OurHooks
ASSUME NamesAssumption == "hooks" \notin Names
ASSUME OtherAssumption ==
  \A o \in {Other} : /\ o \notin Seq(Hook) /\ o \notin Seq(Group)
                     /\ \A a \in Mergeable : o \notin EventTable(a) \union Docs(a)

-----------------------------------------------------------------------------
(* Taking our hooks out.                                                   *)

WithoutOurs(list) == Sublist(list, UserHooks \union {Other})

(* A strip that only takes out groups that are ours alone, and one that    *)
(* takes out every group we are in.                                        *)
StripOurGroups(groups) ==
  Sublist(groups, {g \in ToSet(groups) : g = Other \/ WithoutOurs(g) # <<>>})
StripSharedGroups(groups) ==
  Sublist(groups, {g \in ToSet(groups) : g = Other \/ WithoutOurs(g) = g})

(* Out of every group, then the groups that are empty; an entry without a  *)
(* list of hooks stays.                                                    *)
StripGroups(groups) ==
  LET rest[n \in 0..Len(groups)] ==
        IF n = 0 THEN <<>>
        ELSE LET left == IF groups[n] = Other THEN Other ELSE WithoutOurs(groups[n])
             IN IF left = <<>> THEN rest[n - 1] ELSE Append(rest[n - 1], left)
  IN rest[Len(groups)]

StripEntries(agent, entries) ==
  IF agent \in Nested THEN StripGroups(entries) ELSE WithoutOurs(entries)

(* Out of every event, then the events that are empty, one by one.  A value*)
(* that is no list stays.                                                  *)
StripEvents(agent, hooks) ==
  LET stripped == [i \in DOMAIN hooks |->
        [hooks[i] EXCEPT !.value = IF @ = Other THEN Other
                                   ELSE StripEntries(agent, @)]]
      empty == Sublist(stripped, {x \in ToSet(stripped) : x.value = <<>>})
      left[n \in 0..Len(empty)] ==
        IF n = 0 THEN stripped ELSE SwapRemove(left[n - 1], empty[n].key)
  IN left[Len(empty)]

(* strip_sailor_hooks, strip_cursor_hooks and kimi's strip_hooks. *)
Strip(agent, doc) ==
  IF doc = Other \/ ~Has(doc, "hooks") \/ Get(doc, "hooks") = Other THEN doc
  ELSE IF agent = "kimi"
  THEN LET rules == WithoutOurs(Get(doc, "hooks")) IN
       IF rules = <<>> THEN ShiftRemove(doc, "hooks")
       ELSE Put(doc, "hooks", rules)
  ELSE LET events == StripEvents(agent, Get(doc, "hooks")) IN
       IF events = <<>> THEN SwapRemove(doc, "hooks")
       ELSE Put(doc, "hooks", events)

-----------------------------------------------------------------------------
(* Putting our hooks in.                                                   *)

OrElse(m, k, default) == IF Has(m, k) THEN m ELSE Put(m, k, default)

(* Cursor's file, which install gives a version and uninstall leaves it.   *)
Versioned(agent, doc) ==
  IF agent = "cursor" THEN OrElse(doc, "version", Theirs) ELSE doc

(* Our entry alone, in place of the event's list.                          *)
ReplaceEntries(agent, exe, hooks, event) ==
  LET hook == OurHook(agent, exe, event) IN
  Put(hooks, event, <<IF agent \in Nested THEN <<hook>> ELSE hook>>)

(* Our entry at the end of the event's list; a value that is no list is    *)
(* replaced.                                                               *)
AddEntry(agent, exe, hooks, event) ==
  LET hook  == OurHook(agent, exe, event)
      entry == IF agent \in Nested THEN <<hook>> ELSE hook
      old   == IF Has(hooks, event) THEN Get(hooks, event) ELSE <<>>
  IN Put(hooks, event, IF old = Other THEN <<entry>> ELSE Append(old, entry))

(* install_nested_hooks, install_cursor_hooks and kimi's install_hooks,    *)
(* once our old hooks are out.                                             *)
AddOurs(agent, exe, bare) ==
  LET doc   == OrElse(Versioned(agent, bare), "hooks", <<>>)
      hooks == Get(doc, "hooks")
      table == Subscribed(agent)
  IN IF hooks = Other THEN doc
     ELSE IF agent = "kimi"
     THEN Put(doc, "hooks",
              hooks \o [i \in DOMAIN table |-> OurHook(agent, exe, table[i])])
     ELSE LET events[n \in 0..Len(table)] ==
                IF n = 0 THEN hooks
                ELSE AddEntry(agent, exe, events[n - 1], table[n])
          IN Put(doc, "hooks", events[Len(table)])

(* An install that does not look for its own earlier hooks. *)
InstallOverOld(agent, exe, doc) ==
  IF doc = Other THEN Other ELSE AddOurs(agent, exe, doc)

Install(agent, exe, doc) ==
  IF doc = Other THEN Other ELSE AddOurs(agent, exe, Strip(agent, doc))

-----------------------------------------------------------------------------
(* Reading a file back.                                                    *)

(* The hooks in an event's list, in order. *)
HooksOf(agent, entries) ==
  IF agent \in Nested
  THEN FlattenSeq([i \in DOMAIN entries |->
                     IF entries[i] = Other THEN <<Other>> ELSE entries[i]])
  ELSE entries

(* The lists of hooks of a file: one per event, or one in all. *)
HookLists(agent, doc) ==
  IF doc = Other \/ ~Has(doc, "hooks") \/ Get(doc, "hooks") = Other THEN {}
  ELSE LET hooks == Get(doc, "hooks") IN
       IF agent = "kimi" THEN {[key |-> "", list |-> hooks]}
       ELSE {[key |-> x.key, list |-> HooksOf(agent, x.value)] :
               x \in {y \in ToSet(hooks) : y.value # Other}}

(* has_sailor_hook, and the count of removed hooks being zero. *)
HasSailorHook(agent, doc) ==
  \E l \in HookLists(agent, doc) : \E i \in DOMAIN l.list : IsSailorHook(l.list[i])
=============================================================================
