----------------------------- MODULE AgentHooks -----------------------------
(***************************************************************************)
(* The agents sailor knows: which of their hook events are subscribed to   *)
(* (src/src/commands/install.rs) and what their adapters make of an event  *)
(* (src/src/adapters/).  Two tables that are written apart and have to     *)
(* agree: an event is only worth waiting for if the adapter gives it an id,*)
(* waits for it and can phrase the decision, and if the hook was installed *)
(* with a time-out the wait fits into, in the agent's unit.                *)
(***************************************************************************)

EXTENDS Integers, Sequences

Categories == {"session_started", "tool_running", "tool_finished",
               "approval_required", "task_complete"}

-----------------------------------------------------------------------------
(* The adapters: the events of each category, the events decided on stdout,*)
(* whether an approval gets an id of ours, whether "allow" gives the tool's*)
(* input back, and the events that say how much of the context is used.    *)

ClaudeCode ==
  [session_started |-> {"SessionStart"}, tool_running |-> {"PreToolUse"},
   tool_finished |-> {"PostToolUse", "PostToolUseFailure"},
   approval_required |-> {"Notification", "PermissionRequest"},
   task_complete |-> {"Stop", "SubagentStop"},
   decides |-> {"PermissionRequest"}, mints |-> TRUE, echoes |-> TRUE,
   context |-> {}]

Codex ==
  [session_started |-> {"SessionStart"}, tool_running |-> {"PreToolUse"},
   tool_finished |-> {"PostToolUse"},
   approval_required |-> {"PermissionRequest"},
   task_complete |-> {"Stop", "SubagentStop", "SessionEnd"},
   decides |-> {"PermissionRequest"}, mints |-> TRUE, echoes |-> FALSE,
   context |-> {}]

Qwen ==
  [session_started |-> {"SessionStart"}, tool_running |-> {"PreToolUse"},
   tool_finished |-> {"PostToolUse", "PostToolUseFailure"},
   approval_required |-> {"PermissionRequest", "Notification"},
   task_complete |-> {"Stop", "SessionEnd"},
   decides |-> {"PermissionRequest"}, mints |-> TRUE, echoes |-> TRUE,
   context |-> {"Stop"}]

Gemini ==
  [session_started |-> {"SessionStart"}, tool_running |-> {"BeforeTool"},
   tool_finished |-> {"AfterTool"}, approval_required |-> {"Notification"},
   task_complete |-> {"SessionEnd"},
   decides |-> {}, mints |-> FALSE, echoes |-> FALSE, context |-> {}]

Cursor ==
  [session_started |-> {"sessionStart"}, tool_running |-> {"preToolUse"},
   tool_finished |-> {"postToolUse", "postToolUseFailure"},
   approval_required |-> {}, task_complete |-> {"stop", "sessionEnd"},
   decides |-> {}, mints |-> FALSE, echoes |-> FALSE, context |-> {}]

Kimi ==
  [session_started |-> {"SessionStart"}, tool_running |-> {"PreToolUse"},
   tool_finished |-> {"PostToolUse", "PostToolUseFailure"},
   approval_required |-> {"Notification", "PermissionRequest"},
   task_complete |-> {"Stop", "SessionEnd"},
   decides |-> {}, mints |-> FALSE, echoes |-> FALSE, context |-> {}]

OpenCode ==
  [session_started |-> {"session.created"},
   tool_running |-> {"tool.execute.before"},
   tool_finished |-> {"tool.execute.after"},
   approval_required |-> {"permission.asked", "permission.v2.asked"},
   task_complete |-> {"session.idle"},
   decides |-> {}, mints |-> FALSE, echoes |-> FALSE, context |-> {}]

Pi ==
  [session_started |-> {"session_start"},
   tool_running |-> {"agent_start", "tool_execution_start"},
   tool_finished |-> {"tool_execution_end"}, approval_required |-> {},
   task_complete |-> {"agent_end", "agent_settled"},
   decides |-> {}, mints |-> FALSE, echoes |-> FALSE,
   context |-> {"agent_settled"}]

Adapter ==
  [claude_code |-> ClaudeCode, codex |-> Codex, gemini |-> Gemini,
   cursor |-> Cursor, kimi |-> Kimi, qwen |-> Qwen, opencode |-> OpenCode,
   pi |-> Pi]

KnownAgents == DOMAIN Adapter

(* normalize fails on an event that has no category. *)
Handled(agent, event) == \E c \in Categories : event \in Adapter[agent][c]

CategoryOf(agent, event) ==
  CHOOSE c \in Categories : event \in Adapter[agent][c]

(* Whatever looks like an approval. *)
LooksLikeAnApproval(agent, event) ==
  event \in Adapter[agent].approval_required

IsDecidable(agent, event) == event \in Adapter[agent].decides

(* An id of ours, for the row's buttons to name. *)
MintsAnId(agent, event) ==
  Adapter[agent].mints /\ CategoryOf(agent, event) = "approval_required"

(* One adapter of the family copied over another. *)
RenderLikeClaude(agent, allow) ==
  [behavior |-> IF allow THEN "allow" ELSE "deny",
   updatedInput |-> allow, message |-> ~allow]

(* What the agent reads on stdout.  A payload without a tool input echoes  *)
(* an empty one, so there always is one to give back.                      *)
RenderDecision(agent, allow) ==
  [behavior |-> IF allow THEN "allow" ELSE "deny",
   updatedInput |-> allow /\ Adapter[agent].echoes,
   message |-> ~allow]

-----------------------------------------------------------------------------
(* What install subscribes to.                                             *)

Subscribed(agent) ==
  CASE agent = "claude_code" ->
         <<"SessionStart", "PreToolUse", "PostToolUse", "Notification",
           "PermissionRequest", "Stop">>
    [] agent = "codex" ->
         <<"SessionStart", "PreToolUse", "PostToolUse", "PermissionRequest",
           "SubagentStop", "Stop">>
    [] agent = "gemini" ->
         <<"SessionStart", "BeforeTool", "AfterTool", "Notification",
           "SessionEnd">>
    [] agent = "cursor" ->
         <<"sessionStart", "preToolUse", "postToolUse", "postToolUseFailure",
           "stop", "sessionEnd">>
    [] agent = "kimi" ->
         <<"SessionStart", "PreToolUse", "PostToolUse", "PostToolUseFailure",
           "Notification", "Stop", "SessionEnd">>
    [] agent = "qwen" ->
         <<"SessionStart", "PreToolUse", "PostToolUse", "PostToolUseFailure",
           "PermissionRequest", "Notification", "Stop", "SessionEnd">>

(* What the plugins forward: OpenCode's, whatever happens, and pi's.       *)
ForwardedByOpenCode ==
  {"session.created", "session.idle", "permission.asked",
   "permission.replied", "tool.execute.before", "tool.execute.after"}

ForwardedByPi ==
  {"session_start", "agent_start", "tool_execution_start",
   "tool_execution_end", "agent_end", "agent_settled"}

(* The events that reach the shim. *)
Reported(agent) ==
  IF agent = "opencode" THEN ForwardedByOpenCode
  ELSE IF agent = "pi" THEN ForwardedByPi
  ELSE {Subscribed(agent)[i] : i \in DOMAIN Subscribed(agent)}

WaitsForADecision(agent, event) ==
  event = "PermissionRequest" /\ agent \in {"claude_code", "codex", "qwen"}

(* How long the shim waits, in seconds: told by the command it is installed*)
(* with, or the same by default.                                           *)
APPROVAL_WAIT_SECS == 240

(* Everything in seconds. *)
TimeoutInSeconds(agent, event) ==
  IF WaitsForADecision(agent, event) THEN 300 ELSE 10

(* The time-out an installed hook carries, and what the agent takes one    *)
(* unit of it for.                                                         *)
TimeoutField(agent, event) ==
  LET waits == WaitsForADecision(agent, event) IN
  IF agent \in {"qwen", "gemini"} THEN IF waits THEN 300000 ELSE 10000
  ELSE IF waits THEN 300 ELSE 10

MillisecondsPerUnit(agent) == IF agent \in {"qwen", "gemini"} THEN 1 ELSE 1000
=============================================================================
