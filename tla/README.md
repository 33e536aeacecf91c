# sailor-hook in TLA+

sailor-hook runs on a developer's machine. Coding agents call it from their hooks;
a daemon folds the hook events into an inbox of one row per agent session, shows
the inbox to a phone, and carries the phone's answer to a permission request back
to the agent that waits for it. This directory holds TLA+ models of that program,
the TLC configurations that check them, and proofs, for every size of an instance,
about its seven state machines.

Paths such as `server.rs:67` are below `src/src/`.

## The system

| Part | State | Operations | Talks to |
| --- | --- | --- | --- |
| Hook shim, `commands/event.rs` | one process per hook event: its payload, its deadline, what it printed | parse, normalize, connect, send one line, wait, print | the daemon over the hook socket; the agent over stdin and stdout |
| Hook socket server, `server.rs` | one task per connection | event, decision, subscribe | `Inbox`, `Pending` |
| Pending registry, `pending.rs` | `waiting`: id -> one-shot sender, under a mutex | `register`, `resolve` (`cancel` has no caller) | the parked tasks |
| Inbox, `inbox.rs` | rows under a mutex, a broadcast ring of 256 | `apply`, `resolve`, `apply_agent_states`, `rows`, `prune`, `subscribe` | subscribers |
| Gateway, `gateway.rs` | none of its own; shares `Inbox` and `Pending` | `POST /approve`, `GET /events` (snapshot or WebSocket), request-response handlers | phones |
| CLI answer, `commands/approve.rs` | one attempt | send a decision, read the ack | the hook socket |
| Daemon, `commands/serve.rs`, `ipc.rs` | instance lock, socket file, two timers | start, run everything under one `select!`, stop | all of the above |
| Adapters, `adapters/` | none | normalize a payload, say whether it waits, render a decision | the shim |
| Hook configuration, `install.rs`, `uninstall.rs` | agents' settings files and their `.bak` | install, strip, back up, write | agents |
| Identity and secrets, `hostid.rs`, `secret.rs` | files | read, else mint and write | shim, daemon, easy-pair |
| Easy Pair, `easy_pair.rs` | a daemon it spawned, polls | probe, read or mint, spawn, poll, show | the daemon's port |
| Dev servers, `servers.rs` | a listing and what was found in it | list, probe, SIGTERM, SIGKILL, report | lsof, ps, other people's processes |
| Diff viewer, `diff.rs` | what one request has collected | `collect_changes`, `list_files`, `read_file` | git, the work tree |
| Terminal and Herdr, `context.rs`, `herdr.rs` | none | detect; fetch states | environment; Herdr |
| Push, `push.rs` | none | `is_notable`, `deliver` | an HTTP endpoint |
| Uploads, discovery, directory listings, service files | files outside | see PROJECT.json | other programs |

What is hard here: the shim, the daemon's tasks and any number of answerers run
concurrently and share the registry and the rows; each may die, time out or be
superseded between any two steps; the inbox publishes outside its lock; the ring
forgets; several processes write the same small files. The list of hazards, each
with its line, is in PROJECT.json.

What makes each part correct:

* approval path: no failure ever prints a decision; at most one answer is accepted
  and only its giver is told so; a row never shows the answer to another approval;
  an accepted answer reaches the agent and the row; the agent is never held longer
  than its own deadline;
* inbox feed: a client that has read everything was sent every live row as it
  stands, and a client that fell behind is dropped rather than resumed;
* hook configuration: what is not ours survives any sequence of commands, ours is
  there once, and a write cut short leaves the backup good;
* events: a hook is held exactly when there is an approval it is held for, and for
  less time than its agent gives it; what it prints is what that agent reads; neither a
  push nor a parked approval holds up the next line; a row forgets nothing it learnt,
  whatever overtakes what; an id on disk is the id of every hook that starts later;
* diff viewer: a quiet listing has everything that differs and nothing else, but for
  names git puts in quotes and a status that words of the text can change; a disturbed
  one invents nothing, errors have a cause;
* dev servers: who is signalled was listed at the port, or came by the pid since, and
  served a page if it had the port to itself; who is reported killed is gone;
* daemon and pairing: one daemon at a time owns the socket, nothing a dead one left
  keeps the next from starting, and every QR's token is the one daemons ask for.

## Modules

`ApprovalContract` is what the approval path promises, with no sockets, tasks or
registry: an approval gets at most one accepted answer, what the hook prints is
that answer or nothing, and `ok` is only said to the one whose answer it was.

`Approvals` is the path itself.

| Variable | In the code |
| --- | --- |
| `shim`, `gaveUp`, `printed` | where a run of `event.rs` is, whether its timer fired, its stdout |
| `kind`, `sess` | which event the shim reports: awaited permission request, approval-shaped notification, plain report, or a line that asks to wait without an id; whose session |
| `wire` | what the daemon wrote down the shim's connection, or its end |
| `task` | the await point of the connection's task in `handle` |
| `chan` | the content of the one-shot channel |
| `waiting` | `Pending.waiting` |
| `row` | id and resolution of the session's row |
| `published` | ids a phone has had a chance to see |
| `ask`, `via`, `target`, `answer`, `told` | one attempt to answer, from the CLI or over HTTP |
| `daemon`, `restarts` | the process |
| `accepted`, `winner` | history: which answer `resolve` handed over, and whose |

Steps are cut where the code awaits or where another thread may come in: the
row is applied and published in one step and the id registered in the next
(`HandleEvent`, `Register`: server.rs:59 and 67); `resolve` and the HTTP
handler's mark are two steps (`ResolveWaiting`, `MarkOverHttp`); a woken task
marks the row and then writes (`WakeAndMark`, `Reply`). `resolve` itself removes
the sender under the lock and sends after it; the removed sender belongs to the
caller alone, so that is one step. A hook's id is a fresh v4 UUID, so a hook is its
own id and `register` never replaces an entry. Rust's `Err(_)` branch of the
one-shot (server.rs:73) needs a sender dropped without sending, which only
`cancel` or a replaced entry could do; it has no action for that reason. The
crash of a daemon takes rows, registry and tasks with it, because all of them are
memory (`DaemonGone`), whether the process was stopped or `accept` failed for want
of descriptors and `select!` ended `serve` (`AcceptFails`). How many
descriptors are left is not counted, because phones and other programs hold them too:
accepting a hook may fail at any time.

`InboxFeed` is the inbox as a phone sees it. Every operation changes rows under the
lock and publishes copies after it (`Apply`, `Resolve`, `ApplyAgentStates`, then
`Publish`); subscribers register with the ring, take a snapshot, and follow it
(`Subscribe`, `Snapshot`, `Recv`, `DropLagged`). A row is reduced to the number of
the event it shows, whether it was answered, and Herdr's state; `sent` is every
message published, of which the ring holds the last `Capacity`. `aged` is the
passing of three hours without an event; `rows` hides such a row and `Prune`
drops it. An approval may be resolved twice, by the woken task and by the HTTP
handler (`Markers`), from the moment its row is published.

`HookFormats` is what install and uninstall make of a settings file, as functions:
objects are sequences of keyed values, because serde_json is built to keep their
order and its `remove` does not quite; groups, hooks and rules are reduced to their
owner and, for ours, event, binary and whether it waits. `Strip` and `Install` stand
for the three formats' functions of those names. `HookConfig` runs them: one command
at a time works through its agents (`ReadFails`, `Merge`, `NothingInstalled`,
`Backup`, `Truncate`, `Write`; plugin files by `InstallPlugin`, `LeavePlugin`,
`RemovePlugin`), it may be killed between any two steps or fail inside the write
(`Kill`, `WriteFails`: a cut JSON object never parses, a cut TOML table may), and
the owner of the file may write it at any moment (`Edit`). `mine` and `trace` are
history: what others last put into a file, and whether the last command's work on it
was whole, raced by an edit before or after its copy, cut, or came too late. A file's keys are "hooks",
"version", the events of the agents we merge into and `Names`, which stands for every
other key; `Docs` are the files that parse, `Contents` all that a file may hold.

`Daemon` is how daemons come and go, and how a phone is paired with one. `serve` takes
the instance lock, reads or mints the gateway token if it listens on the network,
clears a stale path, binds the hook socket and then the gateway's port (`Lock`,
`ReadToken`, `Mint`, `TruncateToken`, `WriteToken`, `Check`, `Unlink`, `Bind`,
`Gateway`, each with the way it fails); `easy-pair` probes, reads or mints the same
token, spawns a daemon once and polls (`Answered`, `Unanswered`, `SpawnGateway`,
`PollAgain`). A process may be stopped between any two steps. It then closes lock,
socket and port in any order: the kernel closes them one by one, and an orderly exit
drops the lock last. A token is named by the process that minted it, whole or cut
short by a failed write. What `/health` answers when another program has the port, and
hosts that are not this machine's, are left out.

`AgentHooks` is the two tables that are written apart and have to agree: what each
adapter makes of an event (`ClaudeCode` ... `Pi`, `CategoryOf`, `IsDecidable`,
`MintsAnId`, `RenderDecision`) and what install subscribes to and with which time-out,
in which unit (`Subscribed`, `ForwardedByOpenCode`, `ForwardedByPi`,
`WaitsForADecision`, `TimeoutField`). `AgentEvents` runs them.

| Variable of `AgentEvents` | In the code |
| --- | --- |
| `fleet`, `active` | the agents installed; whether pi's extension has seen a session start |
| `hook` | one run of `event.rs`: phase, payload, and the terminal, context and host id stamped on its line; `age` counts its wait by two minutes |
| `file`, `misread` | the host-id file: missing, emptied, or somebody's id; whether a read of an id failed (history) |
| `printed` | the decision on stdout, by its form |
| `wire`, `accepted`, `parked` | lines sent and not yet accepted; connections that have a task and whose line is not handled; approvals registered |
| `polling` | the main task waits for `herdr agent list` |
| `row` | the row of a session key: whose line it shows, host id, terminal, context, Herdr's state |
| `pushing` | detached deliveries under way |

A hook is launched with an event its agent reports (`Launch`), reads or mints the host
id as `fs::write` does, emptying first (`ReadHostId`, `TruncateHostId`, `WriteHostId`,
`MintFails`; an id that cannot be read is minted over, `MisreadHostId`), sends, and
waits or is done (`Send`, `DropEvent`, `Die`); a wait nobody answers ends in `TimeOut`,
with the shim's own deadline or killed by the agent if that comes first. The daemon
accepts connections in any order, unless its main task is held up by the poll of Herdr,
which blocks it (`Accept`, `PollStarts`, `PollReturns`), and handles lines in any order
(`HandleLine`: fold into the row, push, park); deliveries end when they do and answers
come (`DeliverPush`, `Answer`). What `Approvals` and `InboxFeed` take apart - an answer racing
its approval, rows racing their subscribers - is one step here.

`GitReview` is one request of `/diff`, `/browse` or `/browse/list`. A repository is
three trees from names to versions; the handler runs its git commands and reads its
files one by one (`OpenDirectory`, `AgainstCommit`, `Staged`, `Unstaged`,
`ListUntracked`, `Resolve`, `ReadUntracked`, `ListTree`, `AddUntracked`, `ShowFile`,
`ResolveFile`, `IsFile`, `ReadFile`), any of which may fail, while an agent writes,
stages and commits (`Write`, `Add`, `Commit`). A name may be a link out of the work tree
(`Linked`), which the confinement check of `resolve_in` turns into an error, and the
system may refuse to follow or read a path (`Refused`). Git itself is external: a diff is a set
of chunks, of which a pure rename is one. What the code reads out of a chunk is not:
changes under a new name in quotes are dropped, and the status is looked for anywhere in the patch, so a
text that has the words changes it (`Readable`, `Says`). `moments` is history, the
repositories there have been since the request came in. Requests are for the root of a
work tree or for a directory outside any.

`ServerKill` is `servers kill` among processes that start, listen, close, exit, ignore
SIGTERM and pass on their pids and ports. A process is a pid and how many had it before
(`Process`); only the model can tell. The command lists (`List`), probes whoever
answers on loopback (`Probe`, `Answering`), looks its argument up (`Verify`), signals
and polls (`Term`, `WaitsEnd`, `Kill`, `WaitsEndAgain`, `Report`); a ps that cannot be
run tells that nobody is there (`SeesNobody`). Who was signalled and who was listed are
history, and so is, of the command's port and until the probes end, who listened on any
interface and who was reached on loopback with a page (`heard`, `served`).

`ApprovalsProofs`, `InboxFeedProofs`, `DaemonProofs`, `AgentEventsProofs`,
`GitReviewProofs`, `ServerKillProofs`, `HookFormatsProofs` and `HookConfigProofs` hold
the theorems. `MCApprovals`,
`MCApprovalsLive`, `MCInboxFeed`, `MCHookConfig`, `MCDaemon`, `MCAgentEvents`,
`MCGitReview` and `MCServerKill` give TLC its constants. Operators named in a comment as
something the code does not do (`DecisionFailsOpen`, `ResumeLagged`, ...) are plausible
mistakes standing before the definition they would replace; PROJECT.json says which
property notices each.

## Runs

| Run | Instance | What it shows |
| --- | --- | --- |
| `approvals` | 2 hooks of any of the 4 kinds, 2 answerers, 2 sessions, 1 restart; and 2 hooks that wait, 2 answerers, no restart, where only the shims or only the daemon are scheduled | the type invariant, the safety properties below, and that the path implements `ApprovalContract`; every hook ends whatever the daemon does; answers are delivered, shown, and answerers hear back |
| `feed` | 1 session, 2 writers, a streaming and a snapshot-only client, ring of 1, 3 changes, 2 subscriptions | nothing is lost to a client that caught up, and every message is sent on or the stream is closed |
| `config` | Claude Code alone with 31 shapes of its file, and five pairs of agents of the four formats side by side; 2 binaries, 2 commands, 1 edit | foreign settings and hooks survive, ours are exact, a second install changes nothing, uninstall after install leaves what uninstall alone does, a cut write or an edit written over can be had from the backup, a torn file is left |
| `daemon` | 3 daemons and 2 easy-pairs, loopback and network, 2 polls | the path of a running daemon is its own, leftovers never block a start, every QR's token is the daemons' |
| `agent_events` | a hook of each of the eight agents with every event it reports, and a second of pi, of Qwen or of another agent; a bare shell, tmux, and tmux inside Herdr | waits, time-outs, ids and decisions fit together; every line is handled; a settled host id is everybody's; terminal and context are kept, and only a session that was in a pane of Herdr shows its state |
| `git_review` | 5 names (two plain, one quoted, one ignored, one a link out of the tree), 2 texts (one of them long and with the words of a patch), 2 steps of an agent, 25 kinds of requests | a quiet listing has all plain names that differ and nothing that does not, a disturbed one invents nothing, errors have a cause |
| `server_kill` | 2 pids of 2 lives each, 4 sites on 2 ports | who is signalled and what "killed" means |

Safety properties of `Approvals`: `NeverAllowUnlessAnswered` (stdout carries an
answer somebody gave to this very approval), `OnlyTheWinnerIsTold`,
`ResolutionIsTheRowsOwn` (a row's resolution is the accepted answer of the approval
it carries), `RegistryIsBacked` (a registered sender has its receiver parked on an
empty channel in a live task, so `tx.send` cannot fail), `HttpOkMeansMarked`.

The bounds: two hooks are needed for one approval to supersede another in a row,
two sessions for an answer to reach the wrong row, two answerers for a race; the
properties speak of pairs, so a third of each adds only more of the same. One
restart gives a shim that outlives the daemon it spoke to. Two commands are an install
and the re-install or uninstall after it, or the command after one that died; one edit
between them puts a hook into one of our groups or a setting behind ours. Codex, Gemini
and Qwen differ from Claude Code by the table of events alone. Three changes fill a ring
of one and wrap it; two writers are what it takes to publish out of order. Two easy-pairs
and three daemons are a running daemon, one that races with it and one that follows.

Two hooks of one agent are two lines of one row, or two processes at one host-id file;
agents share nothing but that file, which asks none of them, so but for two neighbours
one agent is installed at a time. `FewLaunches` (an ACTION_CONSTRAINT) keeps the second
hook to what tells hooks apart: pi's at any time and from anywhere, so that they race for
the host id, misread it and move their row; Qwen's from the same terminal after the first
line is sent, for a second approval or the end of a turn; the neighbour's under its own
name. One of Herdr's four states stands for them. Sessions are the anonymous one alone: rows of different keys do not meet. A
share of 130 percent is the one the clamp is for. Three ticks would be past every
time-out; two reach the wait (240 s) and not the time-out (300 s), and a time-out in
the wrong unit is long past by then. In `git_review` two steps of the agent are what
it takes for a name to go and come back within one request, or for a commit to follow
an add; two plain names are a rename, and a quoted name or a link is committed, staged,
moved or untracked when the request comes in (`SmallRepos`), as the agent only adds plain
ones (`PlainAdditions`, an ACTION_CONSTRAINT). In `server_kill` two lives are a pid and its
reuse; the four sites are a page, a process before it on loopback, one beside it on
another interface, and a low port.

Deadlock is not checked in any run: hooks, answerers, changes, requests and commands are
bounded or end, so every instance comes to rest. Symmetry is used where everything
checked is an invariant. `approvals` also checks liveness and a refinement; there the
initial states are instead the first of each class under renaming of hooks, answerers and
sessions (`UpToRenaming`), which loses no behaviour up to renaming.

### Fairness

Fairness of the approval path is stated in `MCApprovalsLive`, whose variable
`scheduled` is fixed at the start of a behaviour: nobody is scheduled, or the shims are, or
the service is, and the weak fairness of `LiveSpec` is of the steps of whoever it is, all
taken together. `ShimsRun` is what the operating system owes a process: a launched shim
connects or fails to, then reads what is on its socket or is woken by its timer.
`HooksTerminate` assumes nothing else; the daemon may hang for ever. `ServiceRuns`
is what the runtime owes a spawned task: one whose await is over is polled, and a shim
reads a reply that is there. Either has finitely many steps to take, so one fairness for all of them gets every one
done. Nothing assumes that a phone answers, that a deadline
passes, or that a daemon is started again. What it does assume is that the daemon's main
task gets to `accept`: it runs `herdr agent list` every five seconds with a call that
blocks and has no time-out (serve.rs:90-119, herdr.rs:56-59), and a call that never ends
would hold up new connections for ever. `AgentEvents` has that call. Its `FairSpec`
says that a connection's task that has a line runs, that the accept loop has a turn
between polls (strong fairness, as polls recur) and, explicitly, that Herdr's binary
ends; nothing in it says that a push is answered or an approval decided, and
`LinesAreHandled` holds without. In `InboxFeed` (`FairSpec`) a writer that
left the lock goes on to publish (there is no await in between), and a subscriber's task
that has a message, or a lag to report, is polled. The other modules state no fairness.

### What the code does not do

Five runs check a sentence of the code's comments or messages and find it violated.

| Run | The sentence | What happens |
| --- | --- | --- |
| `late_answer_accepted` | `resolve` is false when the approval "timed out" (pending.rs:38-40) | the task awaits only the channel, so after a time-out the sender is still registered and its receiver alive: the answer is accepted, the answerer told `ok`, the row marked, nothing printed |
| `early_answer_refused` | the same sentence, and the refusal's text (server.rs:88) | an answer between the row's publication and `register` is refused although the hook waits |
| `feed_reordered` | a message carries "the row as it now stands" (inbox.rs:127-128) | copies are published after the lock, possibly in the opposite order |
| `settings_lost` | "a bad merge has to be recoverable" (install.rs:290-291) | a command dies after the truncation; the next reads the blank file as `{}` and copies it over the good backup |
| `quoted_names` | "files with unusual names (git quotes them) parse with a best-effort name and still render" (diff.rs:205-207) | the header of a chunk is split before ` b/`, which is not there when the new name is in quotes; the file and its patch are missing from the diff |

Smaller differences the models carry without a run of their own:

* approvals: the entry of a hook that gave up is only cleared by an answer
  (server.rs:68-70 says the dropped connection does it); a Notification mints an id
  nobody waits on, and supersedes the row of an approval that could still be answered
  (inbox.rs:47-50, claude_code.rs:41); OpenCode's `permission.replied` is forwarded and
  not handled, so its row stays at the approval;
* events: hooks of a fresh host mint two host ids, and lines may carry the one that
  lost (hostid.rs:4-5); a hook that cannot read a good id mints over it (hostid.rs:21);
  lines of a session that overtake each other leave the row at the older; Herdr's state
  is documented as `None` for a row whose agent is not in a pane, or when Herdr does not
  run (inbox.rs:43-45), but `update` never clears it (inbox.rs:84-110), so a row keeps it
  after its session has moved into tmux and after Herdr has ended: `StateComesFromAPane`
  says what is left of the sentence; a push may be delivered after the answer it asks
  for; a `herdr agent list` that hangs keeps the daemon from accepting lines;
* configuration: `remove` under `preserve_order` moves the last key to the removed
  one's place, so an uninstall, and an install over older hooks, may reorder settings
  (Cargo.toml:24-25), though a second install never does so again; uninstall prunes lists
  and objects the user had left empty, replaces an event's value that was no list
  (`Replaces`) and leaves the version install gave Cursor's file (`Versioned`), so it is
  the inverse of uninstall.rs:3-5 but for what it would prune anyway; a plugin file with our marker is never rewritten (install.rs:870,
  1099); a file the user breaks between read and write is overwritten;
* diff viewer: a listing is HEAD and what is untracked, so a staged new file is in
  neither (diff.rs:100); a file that is missing from the work tree is an error rather
  than the `Ok(None)` of diff.rs:126-127, unless it goes between two of the steps; an
  untracked name git puts in quotes fails the request; a
  modified file that has "new file mode" in its text is shown as added;
* dev servers: "keep only those that actually serve HTML, and tag each with its owning
  process + PID for a safe kill" (servers.rs:3-6, 101-102) holds of a process that has
  its port to itself; one that listens on the same port of another interface is listed
  with the page of the one that answers on loopback, and `servers kill` signals it; a
  process that came by the pid after the listing is signalled in the server's place; SIGKILL may reach a successor that was never
  sent SIGTERM; a ps that fails counts as the process being gone.

## Proofs

`ApprovalsProofs` proves, for any number of hooks, answerers, sessions and restarts, from
the assumptions that `None` is neither a hook nor an answerer, that `Kinds` are among the
four, and that the bound is a number:

* `IndInvHolds`: the inductive invariant `IndInv`;
* `TypeCorrect`, `NeverAllow`, `OneAcknowledged`, `RowsTellTheTruth`,
  `RegistryBacked`, `HttpOkMarks`: the invariants of the run `approvals`;
* `NoAnswerIsDropped` and `NoButtonIsForgotten`, the halves of `AnswerIsDelivered` and
  `AnswerIsShown` that need no fairness: a shim that ended printed the answer accepted for
  it, unless its own deadline passed or the daemon closed on it; and a row that carries an
  answered approval shows the answer, or the task that marks it next holds the answer in
  a daemon that runs. They rest on `WayInv`, inductive on top of `IndInv`: an accepted
  answer is with its task, on the wire, or went with the daemon (`AnswerStands`), and a
  shim that stopped waiting heard the daemon out or gave up (`HeardOut`);
* `Implements`: `Spec => Contract!Spec`.

None of the safety properties is inductive alone. `IndInv` adds how the copies of an
answer relate: `HistoryAgrees` (an accepted answer is the one its winner gave, and the
winner has been through `resolve`), `AnswerOnItsWay` (channel, wire and stdout carry
the accepted answer), `NoTaskBeforeDelivery` and `NotAcceptedBeforeRegistered`
(an approval whose task is not parked yet has no accepted answer, so what `Apply` puts
in a row cannot contradict a mark), `AsksAgree` (what an answerer was told agrees with
whether it won) and `RowsAreTheirSessions`. With `RegistryIsBacked` they give that
`ResolveWaiting` only ever accepts for an approval without an accepted answer, which
is the heart of the matter. Each action has its lemma; the refinement maps every step
to one step of the contract or to a stutter, with `IndInv` available in both states.

`DaemonProofs` proves, for any number of daemons, easy-pairs, addresses and polls, the
inductive invariant `IndInv` of `Daemon` (`IndInvHolds`) and from it `TypeCorrect`,
`SocketKept`, `StaleReplaced` and `TokensConverge`. The argument: whoever is past the
lock holds it (`LockHeld`), so the path, open listeners and the unfinished token file
have one writer; a listener belongs to a daemon that is up or still closing
(`ListenersHeld`); a start that found nothing open meets nothing on its way
(`WayIsClear`); and an easy-pair that was answered on the network was answered by a
daemon that had its token in the file, so only daemons mint (`TokenAgrees`, under
`NetworkOnly`). The assumptions are that the two kinds of processes differ and that
`None` and `Blank` are not tokens, processes or numbers.

`InboxFeedProofs` proves, for any sessions, writers, clients and ring, `TypeCorrect` and
`NothingLost`. `NothingIsLost` speaks of a client at rest with every writer at rest;
what is inductive is `Following`: of every live row, a streaming client was sent the
copy as it stands (`WasSent`), or has it before it in the ring (`IsInTheRing`), or a
writer that left the lock still holds it (`IsPublishedBy`). A change hands its copy to
the writer's outbox, publishing moves it to the ring, receiving moves the cursor past
it, and a lag ends the stream; with nothing in an outbox and the cursor at the end only
`WasSent` is left.

`AgentEventsProofs` proves, for any hooks, sessions, fleets, terminals and percentages,
`TypeCorrect`, `NeverKilled`, `HeldForAnAnswer`, `Readable`, `StateFromAPane`,
`HostIdShared` and `NothingForgotten`. The tables are constants, so the lemma `Decides`
evaluates them: the installer waits for an event if and only if the adapter decides it
and mints an id for it, and only three agents do. The inductive invariant adds that only
a hook whose line is out is on the wire, parked, pushed or shown in a row (`Sent`), that
a hook held back is parked or its line is yet to be handled, and that what is printed
came of `RenderDecision` (`Decided`), that a row's terminal was told by a handled line of
its session (`RowsAreTold`), and that a hook which found a settled id is not minting, nor
is anybody else (`HostIdIsKept`). `OutlivesTheWait` is the arithmetic of the units.

`GitReviewProofs` proves, for any names, texts, repositories, requests and steps of the
agent, `TypeCorrect`, `NothingInvented`, `CausedErrors` and `QuietExact`. The inductive invariant adds
which requests come through which phase (`Routed`), that what was collected is of its
kind and every name still to be read was untracked at some moment (`Collected`), and
that the present is one of the moments; a moment once seen stays one, so an entry that
was true when git was asked stays accounted for. `ParsedIsClaimed` is the heart: what
the code reads out of a chunk is what is true of the two trees, unless the words of the
patch may be those of a text. It speaks of every chunk that is readable; `QuietExact` says of the entries that they
are claims, and of the claims under plain names that they are entries. What quoted names
lose is the run `quoted_names`. `Exact`, on top of it, says what a diff has collected in a
repository at rest: what the scopes behind it claim, and an entry for every name git
listed and the handler has read. It is what makes `QuietExact` inductive: a step of the
agent is what ends the rest, as each makes the repository another one. It is assumed that git pairs renames somehow between any
two trees (`PairingAssumption`, which TLC evaluates on the instance).

`ServerKillProofs` proves, for any pids, lives, ports and sites, `TypeCorrect`,
`OnlyServers` and `KilledGone`. A pid's lives only go up, so what the listing said of a
pid stays true of whoever has it now or had it before (`Sourced`, `Verified`); `InOrder`
is the order of the command's steps, and `NobodyThere` what a report of "killed" saw.
Who is reached with a page listens there, so a port that one process has to itself was
served by it (`HistoryKept`).

`HookFormatsProofs` proves what `Strip` and `Install` do to any file of any of the six
agents, for any binaries, user's hooks and other settings: `StripKeepsTheirs` and
`InstallKeepsTheirs` (every setting and every hook that is not ours, in its order),
`StripTakesOurs`, `StripTwice`, `InstallIsExact`, `InstallTwice` (a second install changes
at most the order of events), and key for key in their order `StripInstalled` (the file
install found, if there was nothing to prune), `UninstallAfterInstall` (what uninstall
alone leaves, of any file in which no value was replaced), `InstallOverAnother` (of such a
file an install over another binary's is that install alone) and `InstallThrice` (of any
file at all the second install is the last to change anything). The two functions run over lists of events, groups and hooks. Their loops are
recursive functions, whose steps are given by `RecExists` and `RecUnique`; what they
compute for a list follows by induction on its last entry (`SeqInd`). Induction is
stated of sets (`NatInd`), from the least element of a set of numbers, because the
provers cannot instantiate an operator that is a parameter. Most is told of an object by
the set of its keyed values, where `insert` and the two kinds of `remove` agree; only
`StripInstalled`, on which the last three rest, needs places: what install adds comes
after what was there (`AddEventsExtends`), so serde_json's `remove`, which moves the last
key to the place of the removed one, only moves what it will remove as well
(`EmptiedTail`). What strip leaves has nothing to strip or prune in it (`StripIsClean`),
so whatever file install starts from, `StripInstalled` is about the one it puts its hooks
into.
Assumed: hooks of ours are not among the user's, "hooks" is not one of `Names`, and the
value of a wrong kind is no list and no object.

`HookConfigProofs` proves, for any agents in play, first contents, commands and edits,
`TypeCorrect`, `NothingOfTheirsIsLost`, `AnOverwriteIsRecoverable`, `OurHooksAreExact`,
`InstallingTwiceIsInstallingOnce`, `UninstallTakesInstallBack` and `TornFilesAreLeft`.
`TypeInv` adds to `TypeOK` that a result comes from a file that parsed (`ResultReady`),
that a file that is not there has no backup, and that the file being worked on is not
torn (`NothingTorn`), so only an edit writes one that is. `TheirsSurvive` and
`OverwriteIsRecoverable` are not inductive: between the read and the end of the write what
others put into a file is in what is about to be written (`ResultHolds`) and, once the
copy is made, in the backup (`BackupHolds`); and no file still in a command's queue is
one it cut or was raced over (`TurnInv`, as each file has one turn in a command:
`TargetsOnce`), so an edit that falls before the copy is in it (`RacedHolds`). The merge keeps them by the theorems on `Strip` and `Install`. The last three are about every file the
program can be in, which `TypeOK` says. Assumed: the markers of missing, blank, torn and
plugin files are apart and are no documents, and `Starts` are files of the agents.

Model-checked only: liveness (fairness is out of the prover's reach; `NoAnswerIsDropped`
and `NoButtonIsForgotten` are what of it is safety) and
`LinesAreHandled` (liveness). The five runs that expect a
violation are counterexamples.

## Not modelled

PROJECT.json lists every part with its status. Left out for good: argument parsing,
printing, QR codes, Bonjour, uploads, the text and encoding of a push, listings of
sessions and panes, generated service files and probing of other programs, which are
I/O or formatting without shared state. Recent directories are one pass over files that
agents wrote, with nothing that could come in between. The gateway's token check and
its uploads and process listings are single request-response handlers. `pair` and
`unpair` store and remove one token. Requests of the diff viewer below the root of a
work tree differ from the others in how git prints names, which is not modelled.

## What could follow

1. Which order a file has after an install that replaces a value, beside `InstallThrice`.
2. Directories below the root of a work tree in `GitReview`.
