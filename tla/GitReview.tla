------------------------------ MODULE GitReview ------------------------------
(***************************************************************************)
(* The review surfaces of the gateway: /diff, /browse and /browse/list     *)
(* (src/src/gateway.rs over src/src/diff.rs).  A request runs several git  *)
(* commands and reads files one after the other, without a lock, while an  *)
(* agent goes on editing, staging and committing in the same work tree.    *)
(*                                                                         *)
(* A repository is three trees - HEAD, index, work tree - and a tree is the*)
(* version each name has.  A version stands for a text, of a symlink its   *)
(* target; what tells texts apart here is their size and whether they speak*)
(* of file modes.  Requests are for the root of a work tree or for a       *)
(* directory outside any.                                                  *)
(***************************************************************************)

EXTENDS Integers, FiniteSets, Sequences

CONSTANTS
  Names,      \* paths below the root
  Quoted,     \* the names git puts in quotes (not ASCII, control characters)
  Ignored,    \* the names .gitignore excludes
  Linked,     \* the names that are symlinks to what is not in the work tree
  Versions,   \* texts a file may have
  Big,        \* the texts longer than MAX_UNTRACKED_BYTES
  Wordy,      \* the texts with "new file mode" somewhere in them
  Absent,     \* the version of a name that is not in a tree
  None,       \* a parameter left out
  MaxChanges  \* bound on the agent's steps during a request

ASSUME NamesAssumption ==
  Quoted \subseteq Names /\ Ignored \subseteq Names /\ Linked \subseteq Names
ASSUME VersionsAssumption ==
  Big \subseteq Versions /\ Wordy \subseteq Versions /\ Absent \notin Versions
ASSUME ChangesAssumption == MaxChanges \in Nat
ASSUME NoneAssumption ==
  None \notin Names /\ None \notin {"HEAD", "unknown"} /\ None \notin BOOLEAN

VARIABLES
  head, index, work, \* the trees
  changes,    \* the agent's steps since the request came in
  moments,    \* history: the trees the repository has had since then
  failed,     \* history: "exit" if a git command of the request failed, "spawn"
              \*   if one could not be run, "refused" if the system let a path
              \*   not be followed or read that is there
  request,    \* what was asked
  phase,      \* what the handler does next
  at,         \* the name it reads, or None
  found,      \* the changes collected so far
  todo,       \* untracked names still to be read
  reply       \* status and body, or None

repoVars == <<head, index, work, changes, moments>>
handlerVars == <<failed, request, phase, at, found, todo, reply>>
vars == <<repoVars, handlerVars>>

Trees == [Names -> Versions \union {Absent}]
Now == [head |-> head, index |-> index, work |-> work]

-----------------------------------------------------------------------------
(* git.                                                                    *)

(* git diff from one tree to another: what was taken away and turns up     *)
(* under another name unchanged is a rename, each name in one of them at   *)
(* most, and a symlink only to a symlink; everything else is one chunk for *)
(* its name.                                                               *)
Movable(from, to) ==
  {p \in Names \X Names :
     /\ from[p[1]] # Absent /\ to[p[1]] = Absent
     /\ from[p[2]] = Absent /\ to[p[2]] = from[p[1]]
     /\ p[1] \in Linked <=> p[2] \in Linked}

IsPairing(m, pairs) ==
  \A p \in pairs :
    p \in m <=> ~\E other \in m \ {p} : p[1] = other[1] \/ p[2] = other[2]

Renames(from, to) ==
  LET pairs == Movable(from, to) IN
  CHOOSE m \in SUBSET pairs : IsPairing(m, pairs)

(* Git finds a pairing between any two trees, as one does of finitely many *)
(* names.                                                                  *)
ASSUME PairingAssumption ==
  \A from, to \in Trees :
    \E m \in SUBSET Movable(from, to) : IsPairing(m, Movable(from, to))

GitDiff(from, to) ==
  LET moved   == {p[1] : p \in Renames(from, to)}
                   \union {p[2] : p \in Renames(from, to)}
      changed == {n \in Names : from[n] # to[n]} \ moved
  IN {[old |-> n, new |-> n, from |-> from[n], to |-> to[n]] : n \in changed}
       \union {[old |-> p[1], new |-> p[2], from |-> from[p[1]],
                to |-> to[p[2]]] : p \in Renames(from, to)}

(* Only what the index knows is compared with the work tree. *)
Tracked(names, tree) ==
  [n \in Names |-> IF n \in names THEN tree[n] ELSE Absent]
In(tree) == {n \in Names : tree[n] # Absent}

(* git diff HEAD, in place of git diff --cached. *)
DiffWithoutCached(r) == GitDiff(r.head, Tracked(In(r.index), r.work))

StagedDiff(r) == GitDiff(r.head, r.index)
UnstagedDiff(r) == GitDiff(r.index, Tracked(In(r.index), r.work))
CommitDiff(r) == GitDiff(r.head, Tracked(In(r.index), r.work))

(* ls-files --others --exclude-standard. *)
Untracked(r) == In(r.work) \ (In(r.index) \union Ignored)

-----------------------------------------------------------------------------
(* What the code makes of git's output.                                    *)

(* A header is split before b/, which is not there if the new name is in   *)
(* quotes: the chunk is dropped.  An old name is taken as git prints it.   *)
Readable(chunk) == chunk.new \notin Quoted

(* The patch of a file is its mode lines and both texts; a pure rename has *)
(* no text.  The status is looked for anywhere in it, in this order.       *)
Says(chunk, words) ==
  LET texts == {chunk.from, chunk.to} IN
  CASE words = "new file mode" ->
         chunk.from = Absent \/ (chunk.from # chunk.to /\ texts \cap Wordy # {})
    [] words = "deleted file mode" -> chunk.to = Absent
    [] words = "rename from" -> chunk.old # chunk.new

Change(name, prev, status, contents, scope) ==
  [name |-> name, prev_name |-> prev, status |-> status,
   contents |-> contents, scope |-> scope]

ParseChunk(chunk, scope) ==
  Change(chunk.new, IF chunk.old = chunk.new THEN None ELSE chunk.old,
         IF Says(chunk, "new file mode") THEN "added"
         ELSE IF Says(chunk, "deleted file mode") THEN "deleted"
         ELSE IF Says(chunk, "rename from") THEN "renamed" ELSE "modified",
         None, scope)

ParseDiff(chunks, scope) ==
  {ParseChunk(c, scope) : c \in {x \in chunks : Readable(x)}}

(* "Naming a scope selects it exclusively; naming none asks for all three."*)
Scopes == {"staged", "unstaged", "untracked"}
AnyScope(q) == \E s \in Scopes : q.scopes[s] # None

(* Every scope that is not named defaults to TRUE. *)
WantsUnlessRefused(q, scope) ==
  IF q.scopes[scope] # None THEN q.scopes[scope] ELSE TRUE

Wants(q, scope) ==
  IF q.scopes[scope] # None THEN q.scopes[scope] ELSE ~AnyScope(q)

-----------------------------------------------------------------------------
(* Requests.                                                               *)

Dirs == {"root", "outside", "missing"}
Commits == {"HEAD", "unknown", None}

DiffRequests ==
  [kind : {"diff"}, dir : Dirs, commit : Commits,
   scopes : [Scopes -> {TRUE, FALSE, None}]]
BrowseRequests == [kind : {"browse"}, dir : Dirs, commit : Commits, file : Names]
ListRequests == [kind : {"list"}, dir : Dirs, commit : Commits]

CONSTANTS
  Requests,   \* the requests of a run
  Repos       \* the repositories of a run

ASSUME RequestsAssumption ==
  Requests \subseteq DiffRequests \union BrowseRequests \union ListRequests
ASSUME ReposAssumption ==
  Repos \subseteq [head : Trees, index : Trees, work : Trees]

Init ==
  /\ \E r \in Repos : head = r.head /\ index = r.index /\ work = r.work
  /\ request \in Requests
  /\ changes = 0
  /\ moments = {Now}
  /\ failed = {}
  /\ phase = "directory"
  /\ at = None
  /\ found = {}
  /\ todo = {}
  /\ reply = None

Running == reply = None

(* What the agent does meanwhile. *)
Meanwhile ==
  /\ Running
  /\ changes < MaxChanges
  /\ changes' = changes + 1
  /\ moments' = moments \union {Now'}
  /\ UNCHANGED handlerVars

Write(n, v) ==
  /\ v # work[n]
  /\ work' = [work EXCEPT ![n] = v]
  /\ UNCHANGED <<head, index>>
  /\ Meanwhile

Add(n) ==
  /\ index[n] # work[n]
  /\ index' = [index EXCEPT ![n] = work[n]]
  /\ UNCHANGED <<head, work>>
  /\ Meanwhile

Commit ==
  /\ head # index
  /\ head' = index
  /\ UNCHANGED <<index, work>>
  /\ Meanwhile

-----------------------------------------------------------------------------
(* The handlers.                                                           *)

At(p) == Running /\ phase = p

Go(p) == phase' = p /\ UNCHANGED reply

(* What was collected before the error is sent with it. *)
AnswerAnyway(status, body) ==
  /\ reply' = [status |-> status, body |-> found]
  /\ phase' = "done"

Answer(status, body) ==
  /\ reply' = [status |-> status, body |-> body]
  /\ phase' = "done"

Rest == UNCHANGED <<repoVars, request>>

First ==
  CASE request.kind = "browse" -> IF request.commit = None THEN "path" ELSE "show"
    [] request.kind = "list" -> "tree"
    [] request.kind = "diff" -> IF request.commit = None THEN "staged" ELSE "commit"

(* The system refuses: no permission, no descriptors left, a directory.    *)
Refused == failed' = failed \union {"refused"}

(* canonicalize_dir, then rev-parse --show-toplevel, which may also refuse *)
(* a work tree that is somebody else's.                                    *)
OpenDirectory ==
  /\ At("directory")
  /\ \/ request.dir = "missing" /\ Answer(500, {}) /\ UNCHANGED failed
     \/ request.dir = "outside" /\ Answer(404, {}) /\ UNCHANGED failed
     \/ request.dir = "root" /\ Go(First) /\ UNCHANGED failed
     \/ request.dir # "missing" /\ Answer(500, {}) /\ Refused
     \/ /\ request.dir = "root" /\ Answer(404, {})
        /\ failed' = failed \union {"exit"}
  /\ UNCHANGED <<at, found, todo>>
  /\ Rest

(* No git, or no process for it: the request fails as a whole.             *)
RunsGit ==
  phase \in {"directory", "commit", "staged", "unstaged", "untracked", "tree",
            "others", "show"}

GitWontRun ==
  /\ Running
  /\ RunsGit /\ request.dir # "missing"
  /\ phase \in Scopes => Wants(request, phase)
  /\ Answer(500, {})
  /\ failed' = failed \union {"spawn"}
  /\ UNCHANGED <<at, found, todo>>
  /\ Rest

(* A git command that fails is taken for one that printed nothing, and a   *)
(* ref that does not exist makes it fail.                                  *)
KnownRef == request.commit # "unknown"

Collect(p, next, chunks) ==
  /\ At(p)
  /\ Go(next)
  /\ IF KnownRef /\ (p \in Scopes => Wants(request, p))
     THEN \/ found' = found \union ParseDiff(chunks, p) /\ UNCHANGED failed
          \/ failed' = failed \union {"exit"} /\ UNCHANGED found
     ELSE UNCHANGED <<found, failed>>
  /\ UNCHANGED <<at, todo>>
  /\ Rest

AgainstCommit == Collect("commit", "untracked", CommitDiff(Now))
Staged == Collect("staged", "unstaged", StagedDiff(Now))
Unstaged == Collect("unstaged", "untracked", UnstagedDiff(Now))

ListUntracked ==
  /\ At("untracked")
  /\ IF Wants(request, "untracked")
     THEN \/ todo' = Untracked(Now) /\ UNCHANGED failed
          \/ failed' = failed \union {"exit"} /\ UNCHANGED todo
     ELSE UNCHANGED <<todo, failed>>
  /\ Go("resolve")
  /\ UNCHANGED <<at, found>>
  /\ Rest

(* The limit on contents taken for one on files. *)
ThereAndShort(n) == n \notin Quoted \union Linked /\ work[n] \in Versions \ Big

(* resolve_in: the name as git printed it has to lead to something in the  *)
(* work tree, or the request fails as a whole.  What is no file by now may *)
(* be a directory.                                                         *)
There(n) == n \notin Quoted \union Linked /\ work[n] # Absent

Resolve(n) ==
  /\ At("resolve")
  /\ n \in todo
  /\ \/ /\ n \notin Quoted \union Linked
        /\ Go("read") /\ at' = n /\ UNCHANGED failed
     \/ ~There(n) /\ Answer(500, {}) /\ at' = None /\ UNCHANGED failed
     \/ Answer(500, {}) /\ at' = None /\ Refused
  /\ UNCHANGED <<found, todo>>
  /\ Rest

(* fs::read; what is gone by now, too long or refused, has no contents.    *)
Shown(v) == IF v \in Versions \ Big THEN v ELSE None

ReadUntracked ==
  LET Adds(contents) == found' = found \union
        {Change(at, None, "untracked", contents, "untracked")}
  IN
  /\ At("read")
  /\ \/ Adds(Shown(work[at])) /\ UNCHANGED failed
     \/ Adds(None) /\ Refused
  /\ todo' = todo \ {at}
  /\ at' = None
  /\ Go("resolve")
  /\ Rest

ReplyDiff ==
  /\ At("resolve")
  /\ todo = {}
  /\ Answer(200, found)
  /\ UNCHANGED <<failed, at, found, todo>>
  /\ Rest

(* ls-tree: of a commit, or of HEAD before the untracked files are added.  *)
ListTree ==
  /\ At("tree")
  /\ \/ /\ KnownRef
        /\ found' = In(head)
        /\ UNCHANGED failed
     \/ failed' = failed \union {"exit"} /\ UNCHANGED found
  /\ IF request.commit = None THEN Go("others") ELSE Answer(200, found')
  /\ UNCHANGED <<at, todo>>
  /\ Rest

AddUntracked ==
  /\ At("others")
  /\ \/ found' = found \union Untracked(Now) /\ UNCHANGED failed
     \/ failed' = failed \union {"exit"} /\ UNCHANGED found
  /\ Answer(200, found')
  /\ UNCHANGED <<at, todo>>
  /\ Rest

(* git show commit:path; whatever fails is a file that is not there. *)
ShowFile ==
  LET v == head[request.file] IN
  /\ At("show")
  /\ \/ /\ KnownRef /\ v # Absent
        /\ Answer(200, {v})
        /\ UNCHANGED failed
     \/ Answer(404, {}) /\ failed' = IF KnownRef /\ v # Absent THEN {"exit"} ELSE {}
  /\ UNCHANGED <<at, found, todo>>
  /\ Rest

(* resolve_in, is_file, and fs::read with its limit.  A name that is asked *)
(* for is not in quotes; what is no file in the work tree may be a         *)
(* directory there.                                                        *)
ResolveFile ==
  LET n == request.file IN
  /\ At("path")
  /\ \/ n \notin Linked /\ Go("is_file") /\ UNCHANGED failed
     \/ /\ n \in Linked \/ work[n] = Absent
        /\ Answer(500, {}) /\ UNCHANGED failed
     \/ Answer(500, {}) /\ Refused
  /\ UNCHANGED <<at, found, todo>>
  /\ Rest

IsFile ==
  /\ At("is_file")
  /\ \/ work[request.file] # Absent /\ Go("file") /\ UNCHANGED failed
     \/ work[request.file] = Absent /\ Answer(404, {}) /\ UNCHANGED failed
     \/ Answer(404, {}) /\ Refused
  /\ UNCHANGED <<at, found, todo>>
  /\ Rest

ReadFile ==
  LET v == work[request.file] IN
  /\ At("file")
  /\ \/ v = Absent /\ Answer(500, {}) /\ UNCHANGED failed
     \/ v \in Big /\ Answer(404, {}) /\ UNCHANGED failed
     \/ v \in Versions \ Big /\ Answer(200, {v}) /\ UNCHANGED failed
     \/ Answer(500, {}) /\ Refused
  /\ UNCHANGED <<at, found, todo>>
  /\ Rest

-----------------------------------------------------------------------------
Handle ==
  \/ OpenDirectory \/ GitWontRun
  \/ AgainstCommit \/ Staged \/ Unstaged \/ ListUntracked
  \/ \E n \in Names : Resolve(n)
  \/ ReadUntracked \/ ReplyDiff
  \/ ListTree \/ AddUntracked
  \/ ShowFile \/ ResolveFile \/ IsFile \/ ReadFile

Work ==
  \/ \E n \in Names : Add(n) \/ \E v \in Versions \union {Absent} : Write(n, v)
  \/ Commit

Next == Handle \/ Work

Spec == Init /\ [][Next]_vars

-----------------------------------------------------------------------------
Phases == {"directory", "commit", "staged", "unstaged", "untracked", "resolve",
           "read", "tree", "others", "show", "path", "is_file", "file", "done"}

Changes ==
  [name : Names, prev_name : Names \union {None}, scope : Scopes \union {"commit"},
   status : {"added", "modified", "deleted", "renamed", "untracked"},
   contents : Versions \union {None}]

(* Type invariant: a reply is only of changes, names or texts, and of none *)
(* if there was an error.                                                  *)
TypeOK ==
  /\ {head, index, work} \subseteq Trees
  /\ changes \in 0..MaxChanges /\ moments \subseteq [head : Trees, index : Trees, work : Trees]
  /\ failed \subseteq {"exit", "spawn", "refused"} /\ phase \in Phases
  /\ at \in Names \union {None} /\ (phase = "read" <=> at # None)
  /\ todo \subseteq Names
  /\ reply # None =>
       /\ reply.status \in {200, 404, 500}
       /\ reply.status # 200 => reply.body = {}
       /\ request.kind = "diff" => reply.body \subseteq Changes
       /\ request.kind = "list" => reply.body \subseteq Names
       /\ request.kind = "browse" => reply.body \subseteq Versions

(* What a request asks for, in the words of the code's comments, and what  *)
(* is true of a repository: per name, by its versions in the two trees.    *)
Selected ==
  IF \A s \in Scopes : request.scopes[s] = None THEN Scopes
  ELSE {s \in Scopes : request.scopes[s] = TRUE}

Claims(from, to, scope) ==
  LET pairs == Renames(from, to)
      moved == {p[1] : p \in pairs} \union {p[2] : p \in pairs}
  IN {Change(p[2], p[1], "renamed", None, scope) : p \in pairs}
       \union {Change(n, None, IF from[n] = Absent THEN "added"
                               ELSE IF to[n] = Absent THEN "deleted"
                               ELSE "modified", None, scope) :
                 n \in {m \in Names \ moved : from[m] # to[m]}}

Known(r) == [n \in Names |-> IF r.index[n] # Absent THEN r.work[n] ELSE Absent]

ClaimsOf(scope, r) ==
  CASE scope = "commit" -> Claims(r.head, Known(r), scope)
    [] scope = "staged" -> Claims(r.head, r.index, scope)
    [] scope = "unstaged" -> Claims(r.index, Known(r), scope)
    [] scope = "untracked" ->
         {Change(n, None, scope, IF r.work[n] \in Big THEN None ELSE r.work[n],
                 scope) :
            n \in {m \in Names \ Ignored :
                     r.work[m] # Absent /\ r.index[m] = Absent}}

Shows ==
  IF request.commit = "unknown" THEN Selected \cap {"untracked"}
  ELSE IF request.commit = "HEAD"
  THEN {"commit"} \union (Selected \cap {"untracked"})
  ELSE Selected

(* The code drops a change whose name git puts in quotes, and takes the    *)
(* words of a patch for git's when they are those of its text.             *)
Plain(c) == c.name \notin Quoted
Texts(r, c) ==
  UNION {{r.head[n], r.index[n], r.work[n]} : n \in {c.name, c.prev_name} \ {None}}
Blur(r, c) ==
  IF Texts(r, c) \cap Wordy = {} THEN c ELSE [c EXCEPT !.status = "modified"]

(* A diff was made while nothing happened in the repository, and nothing   *)
(* failed.                                                                 *)
QuietDiff ==
  /\ request.kind = "diff" /\ reply # None /\ reply.status = 200
  /\ Cardinality(moments) = 1 /\ failed = {}

(* The comments of collect_changes (diff.rs:50-53) and of the scopes       *)
(* (gateway.rs:203-205): while nothing happens in the repository, what a   *)
(* diff lists differs, in the scopes that were named or in all three, a    *)
(* commit in place of the first two; and whatever differs there is listed, *)
(* but for names in quotes.  Of a patch that speaks of file modes the      *)
(* status may be wrong.                                                    *)
QuietIsExact ==
  QuietDiff =>
    LET claims == UNION {ClaimsOf(s, Now) : s \in Shows}
        listed == {Blur(Now, c) : c \in reply.body}
    IN /\ listed \subseteq {Blur(Now, c) : c \in claims}
       /\ \A c \in claims : Plain(c) => Blur(Now, c) \in listed

(* "Files with unusual names (git quotes them) parse with a best-effort    *)
(* name and still render" (diff.rs:205-207): under whatever name, there is *)
(* an entry for everything that differs.                                   *)
UnusualNamesStillRender ==
  QuietDiff => \A s \in Shows \ {"untracked"} :
    Cardinality({c \in reply.body : c.scope = s}) = Cardinality(ClaimsOf(s, Now))

(* While the agent works, every entry of a diff was true at some moment of *)
(* the request, an untracked file's contents at one of their own, and every*)
(* name of a listing was committed or untracked at one (diff.rs:100).      *)
NoEntryIsInvented ==
  /\ request.kind = "list" => \A n \in found : \E r \in moments :
       r.head[n] # Absent \/ (r.work[n] # Absent /\ r.index[n] = Absent)
  /\ request.kind = "diff" => \A c \in found : \E r, m \in moments :
       IF c.scope = "untracked"
       THEN /\ [c EXCEPT !.contents = None] \in
                 {[e EXCEPT !.contents = None] : e \in ClaimsOf("untracked", r)}
            /\ c.contents # None => c.contents = m.work[c.name]
       ELSE Blur(r, c) \in {Blur(r, e) : e \in ClaimsOf(c.scope, r)}

(* A request fails for want of its directory, of git, or of a file that is *)
(* not there at some moment, is a link out of the work tree (diff.rs:286-  *)
(* 288) or may not be read, and because of a name in quotes; and calls     *)
(* missing only what was missing, was too long, or what git could not show *)
(* (diff.rs:100-153, gateway.rs:221-277).                                  *)
ErrorsHaveACause ==
  reply # None =>
    LET gone == {n \in Names : \E r \in moments : r.work[n] = Absent} IN
    /\ reply.status = 500 =>
         \/ request.dir = "missing"
         \/ {"spawn", "refused"} \cap failed # {}
         \/ request.kind = "browse" /\ request.file \in gone \union Linked
         \/ request.kind = "diff" /\ todo \cap (gone \union Quoted \union Linked) # {}
    /\ reply.status = 404 =>
         \/ request.dir = "outside" \/ "exit" \in failed
         \/ /\ request.kind = "browse"
            /\ IF request.commit # None
               THEN request.commit = "unknown"
                    \/ \E r \in moments : r.head[request.file] = Absent
               ELSE "refused" \in failed
                    \/ \E r \in moments :
                         r.work[request.file] \in Big \union {Absent}
=============================================================================
