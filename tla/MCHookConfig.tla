---- MODULE MCHookConfig ----
(* Instances of HookConfig for TLC: what the settings files hold at first. *)
EXTENDS HookConfig

CONSTANTS u1, u2

One(k, v) == <<[key |-> k, value |-> v]>>
Setting(k) == One(k, Theirs)

(* What a user may have under an event: a value that is no list, no group, *)
(* an empty group, a group of one, an odd entry beside a group of two.     *)
GroupLists == {Other, <<>>, <<<<>>>>, <<<<u1>>>>, <<Other, <<u1, u2>>>>}

(* A file with the user's hooks first and two settings after them. *)
With(hooks) == One("hooks", hooks) \o Setting("k1") \o Setting("k2")

Plain == {Absent, Blank, Other, Setting("k1"), With(Other), With(<<>>)}

NestedFiles ==
  Plain \union {With(One("Elicit", v) \o One("PreToolUse", w)) :
                  v, w \in GroupLists}
OneAgent(a, contents) == {[x \in {a} |-> c] : c \in contents}

(* Two agents side by side, one of which may not parse. *)
SideBySide ==
  {[cursor |-> Torn, kimi |-> With(<<u1, u2>>)],
   [opencode |-> Cut, cursor |-> With(One("preToolUse", <<Other, u1>>))],
   [cursor |-> With(One("stop", <<>>)), pi |-> NotOurs],
   [kimi |-> With(Other), pi |-> Older],
   [opencode |-> Moved, kimi |-> Absent]}

AllStarts == OneAgent("claude_code", NestedFiles) \union SideBySide

(* One file, for the shortest of histories. *)
OneStart == OneAgent("claude_code", {With(One("PreToolUse", <<<<u1>>>>))})
====
