-------------------------- MODULE GitReviewProofs --------------------------
(***************************************************************************)
(* What the review surfaces answer, for any set of names and texts, any    *)
(* requests and any number of steps of the agent meanwhile: replies are    *)
(* what their types say, no entry is invented, errors have a cause, and in *)
(* a repository at rest a diff is of what differs, and of all of it but    *)
(* for names in quotes.                                                    *)
(***************************************************************************)

EXTENDS GitReview, FiniteSetTheorems, TLAPS

(* Which requests come through which phases, and that none of them is      *)
(* answered before the last.                                               *)
Routed ==
  /\ phase \in {"commit", "staged", "unstaged", "untracked", "resolve", "read"}
       => request.kind = "diff"
  /\ phase \in {"tree", "others"} => request.kind = "list"
  /\ phase = "show" => request.kind = "browse" /\ request.commit # None
  /\ phase \in {"path", "is_file", "file"}
       => request.kind = "browse" /\ request.commit = None
  /\ phase # "done" => reply = None

(* What was collected is of its kind, and every name still to be read was  *)
(* untracked when git was asked.                                           *)
Collected ==
  /\ request.kind = "diff" =>
       /\ found \subseteq Changes
       /\ \A n \in todo : \E r \in moments : n \in Untracked(r)
  /\ request.kind = "list" => found \subseteq Names
  /\ at # None => at \in todo

IndInv ==
  /\ TypeOK
  /\ request \in Requests
  /\ Now \in moments
  /\ Routed
  /\ Collected
  /\ NoEntryIsInvented
  /\ ErrorsHaveACause
-----------------------------------------------------------------------------
(* The three trees stay trees.                                             *)

(* A repository's moment is a record of three trees. *)
Moments == [head : Trees, index : Trees, work : Trees]

(* What a request asks for is among what there is to ask. *)
LEMMA RequestKinds ==
  ASSUME request \in Requests
  PROVE  /\ request.kind \in {"diff", "browse", "list"}
         /\ request.dir \in Dirs
         /\ request.kind = "browse" => request.file \in Names
BY RequestsAssumption DEF DiffRequests, BrowseRequests, ListRequests

(* Git's pairs are names that went and names that came with the same text. *)
LEMMA RenamesAreMoves ==
  ASSUME NEW from \in Trees, NEW to \in Trees
  PROVE  Renames(from, to) \subseteq Movable(from, to)
BY PairingAssumption DEF Renames

(* A chunk of git's output is a rename or one name that differs.           *)
LEMMA ChunkForms ==
  ASSUME NEW from \in Trees, NEW to \in Trees, NEW k \in GitDiff(from, to)
  PROVE  /\ k.old \in Names /\ k.new \in Names
         /\ k.from = from[k.old] /\ k.to = to[k.new]
         /\ \/ /\ k.old = k.new /\ from[k.old] # to[k.old]
               /\ \A p \in Renames(from, to) : k.old # p[1] /\ k.old # p[2]
            \/ /\ k.old # k.new /\ k.from = k.to /\ k.from # Absent
               /\ <<k.old, k.new>> \in Renames(from, to)
<1> DEFINE moved == {p[1] : p \in Renames(from, to)}
                      \union {p[2] : p \in Renames(from, to)}
           changed == {n \in Names : from[n] # to[n]} \ moved
<1>1. CASE \E n \in changed :
             k = [old |-> n, new |-> n, from |-> from[n], to |-> to[n]]
  BY <1>1
<1>2. CASE \E p \in Renames(from, to) :
             k = [old |-> p[1], new |-> p[2], from |-> from[p[1]],
                  to |-> to[p[2]]]
  <2>1. PICK p \in Renames(from, to) :
               k = [old |-> p[1], new |-> p[2], from |-> from[p[1]],
                    to |-> to[p[2]]]
    BY <1>2
  <2>2. p \in Movable(from, to)
    BY RenamesAreMoves
  <2>3. /\ p[1] \in Names /\ p[2] \in Names /\ p = <<p[1], p[2]>>
        /\ from[p[1]] # Absent /\ from[p[2]] = Absent /\ to[p[2]] = from[p[1]]
    BY <2>2 DEF Movable
  <2> QED
    BY <2>1, <2>3
<1> QED
  BY <1>1, <1>2 DEF GitDiff

(* What the code makes of a chunk is a change, and is a true claim but for *)
(* the words of the patch that may be those of its text.                   *)
LEMMA ParsedIsChange ==
  ASSUME NEW from \in Trees, NEW to \in Trees,
         NEW scope \in Scopes \union {"commit"}
  PROVE  ParseDiff(GitDiff(from, to), scope) \subseteq Changes
<1> SUFFICES ASSUME NEW k \in GitDiff(from, to)
             PROVE  ParseChunk(k, scope) \in Changes
  BY DEF ParseDiff
<1>1. k.old \in Names /\ k.new \in Names
  BY ChunkForms
<1> QED
  BY <1>1 DEF ParseChunk, Change, Changes

LEMMA Blurred ==
  ASSUME NEW name, NEW prev, NEW status, NEW scope
  PROVE  [Change(name, prev, status, None, scope) EXCEPT !.status = "modified"]
           = Change(name, prev, "modified", None, scope)
BY DEF Change

(* What is true of a chunk, whatever the words of its patch.               *)
Claim(k, scope) ==
  Change(k.new, IF k.old = k.new THEN None ELSE k.old,
         IF k.old # k.new THEN "renamed" ELSE IF k.from = Absent THEN "added"
         ELSE IF k.to = Absent THEN "deleted" ELSE "modified", None, scope)

(* Git's chunks and what is true of the trees, one for one.                *)
LEMMA ClaimsAreChunks ==
  ASSUME NEW from \in Trees, NEW to \in Trees, NEW scope
  PROVE  Claims(from, to, scope) = {Claim(k, scope) : k \in GitDiff(from, to)}
<1> DEFINE pairs == Renames(from, to)
           moved == {p[1] : p \in pairs} \union {p[2] : p \in pairs}
<1>1. ASSUME NEW e \in Claims(from, to, scope)
      PROVE  \E k \in GitDiff(from, to) : e = Claim(k, scope)
  <2>1. CASE \E p \in pairs : e = Change(p[2], p[1], "renamed", None, scope)
    <3>1. PICK p \in pairs : e = Change(p[2], p[1], "renamed", None, scope)
      BY <2>1
    <3> DEFINE k == [old |-> p[1], new |-> p[2], from |-> from[p[1]], to |-> to[p[2]]]
    <3>2. k \in GitDiff(from, to)
      BY DEF GitDiff
    <3>3. p[1] # p[2]
      BY RenamesAreMoves DEF Movable
    <3>4. e = Claim(k, scope)
      BY <3>1, <3>3 DEF Claim
    <3> QED
      BY <3>2, <3>4
  <2>2. CASE \E n \in {m \in Names \ moved : from[m] # to[m]} :
               e = Change(n, None, IF from[n] = Absent THEN "added"
                                   ELSE IF to[n] = Absent THEN "deleted"
                                   ELSE "modified", None, scope)
    <3>1. PICK n \in {m \in Names \ moved : from[m] # to[m]} :
                e = Change(n, None, IF from[n] = Absent THEN "added"
                                    ELSE IF to[n] = Absent THEN "deleted"
                                    ELSE "modified", None, scope)
      BY <2>2
    <3> DEFINE k == [old |-> n, new |-> n, from |-> from[n], to |-> to[n]]
    <3>2. k \in GitDiff(from, to)
      BY <3>1 DEF GitDiff
    <3>3. e = Claim(k, scope)
      BY <3>1 DEF Claim
    <3> QED
      BY <3>2, <3>3
  <2> QED
    BY <1>1, <2>1, <2>2 DEF Claims
<1>2. ASSUME NEW k \in GitDiff(from, to)
      PROVE  Claim(k, scope) \in Claims(from, to, scope)
  <2>1. /\ k.old \in Names /\ k.new \in Names
        /\ k.from = from[k.old] /\ k.to = to[k.new]
        /\ \/ /\ k.old = k.new /\ from[k.old] # to[k.old]
              /\ \A p \in pairs : k.old # p[1] /\ k.old # p[2]
           \/ k.old # k.new /\ <<k.old, k.new>> \in pairs
    BY ChunkForms
  <2>2. CASE k.old = k.new
    <3>1. k.new \in {m \in Names \ moved : from[m] # to[m]}
      BY <2>1, <2>2
    <3>2. Claim(k, scope) = Change(k.new, None,
             IF from[k.new] = Absent THEN "added"
             ELSE IF to[k.new] = Absent THEN "deleted" ELSE "modified", None, scope)
      BY <2>1, <2>2 DEF Claim
    <3> QED
      BY <3>1, <3>2 DEF Claims
  <2>3. CASE k.old # k.new
    <3>1. Claim(k, scope) = Change(<<k.old, k.new>>[2], <<k.old, k.new>>[1],
                                   "renamed", None, scope)
      BY <2>3 DEF Claim
    <3>2. <<k.old, k.new>> \in pairs
      BY <2>1, <2>3
    <3> QED
      BY <3>1, <3>2 DEF Claims
  <2> QED
    BY <2>2, <2>3
<1> QED
  BY <1>1, <1>2

(* A tree made of those of a repository.                                   *)
Of(tree, r) ==
  \A n \in Names : tree[n] \in {r.head[n], r.index[n], r.work[n], Absent}

Blurs(r, cs) == {Blur(r, c) : c \in cs}
PlainOnes(cs) == {c \in cs : Plain(c)}

(* The code reads a chunk's claim out of it, but for the words.            *)
LEMMA ChunkIsClaim ==
  ASSUME NEW from \in Trees, NEW to \in Trees, NEW scope, NEW r,
         Of(from, r), Of(to, r), NEW k \in GitDiff(from, to)
  PROVE  /\ Blur(r, ParseChunk(k, scope)) = Blur(r, Claim(k, scope))
         /\ Readable(k) <=> Plain(Claim(k, scope))
<1> DEFINE status == IF Says(k, "new file mode") THEN "added"
                     ELSE IF Says(k, "deleted file mode") THEN "deleted"
                     ELSE IF Says(k, "rename from") THEN "renamed" ELSE "modified"
           prev == IF k.old = k.new THEN None ELSE k.old
           true == IF k.old # k.new THEN "renamed"
                   ELSE IF k.from = Absent THEN "added"
                   ELSE IF k.to = Absent THEN "deleted" ELSE "modified"
           c == ParseChunk(k, scope)
           e == Claim(k, scope)
<1>2. /\ k.old \in Names /\ k.new \in Names
      /\ k.from = from[k.old] /\ k.to = to[k.new]
      /\ \/ k.old = k.new /\ from[k.old] # to[k.old]
         \/ k.old # k.new /\ k.from = k.to /\ k.from # Absent
  BY ChunkForms
<1>3. c = Change(k.new, prev, status, None, scope)
  BY DEF ParseChunk
<1>4. e = Change(k.new, prev, true, None, scope)
  BY DEF Claim
<1>5. /\ c.name = k.new /\ c.prev_name = prev
      /\ e.name = k.new /\ e.prev_name = prev
      /\ Texts(r, c) = Texts(r, e)
  <2>1. c.name = k.new /\ c.prev_name = prev
    BY DEF ParseChunk, Change
  <2>2. e.name = k.new /\ e.prev_name = prev
    BY DEF Claim, Change
  <2> HIDE DEF c, e, prev
  <2> QED
    BY <2>1, <2>2 DEF Texts
<1>6. ASSUME Texts(r, c) \cap Wordy = {}
      PROVE  status = true
  <2>1. {k.old, k.new} \subseteq {c.name, c.prev_name} \ {None}
    <3> HIDE DEF c, e
    <3> QED
      BY <1>2, <1>5, NoneAssumption
  <2>2. {k.from, k.to} \subseteq Texts(r, c) \union {Absent}
    <3>1. \A n \in {k.old, k.new} :
            {r.head[n], r.index[n], r.work[n]} \subseteq Texts(r, c)
      BY <2>1 DEF Texts
    <3> QED
      BY <1>2, <3>1 DEF Of
  <2>3. {k.from, k.to} \cap Wordy = {}
    BY <1>6, <2>2, VersionsAssumption
  <2>4. Says(k, "new file mode") <=> k.from = Absent
    BY <2>3 DEF Says
  <2>5. Says(k, "deleted file mode") <=> k.to = Absent
    BY DEF Says
  <2>6. Says(k, "rename from") <=> k.old # k.new
    BY DEF Says
  <2> QED
    BY <1>2, <2>4, <2>5, <2>6
<1>7. [c EXCEPT !.status = "modified"] = [e EXCEPT !.status = "modified"]
  <2> HIDE DEF status, prev, true, c, e
  <2> QED
    BY <1>3, <1>4, Blurred
<1>8. Readable(k) <=> Plain(e)
  BY <1>2, <1>4, NamesAssumption, NoneAssumption DEF Readable, Plain, Change
<1> HIDE DEF status, prev, true, c, e
<1>9. Blur(r, c) = Blur(r, e)
  BY <1>3, <1>4, <1>5, <1>6, <1>7 DEF Blur
<1> QED
  BY <1>8, <1>9 DEF c, e

(* So what it makes of git's output are the plain ones of the true claims. *)
LEMMA ParsedIsClaimed ==
  ASSUME NEW from \in Trees, NEW to \in Trees,
         NEW scope \in Scopes \union {"commit"}, NEW r, Of(from, r), Of(to, r)
  PROVE  Blurs(r, ParseDiff(GitDiff(from, to), scope))
           = Blurs(r, PlainOnes(Claims(from, to, scope)))
BY ChunkIsClaim, ClaimsAreChunks DEF ParseDiff, Blurs, PlainOnes

-----------------------------------------------------------------------------
(* Invariance.                                                             *)

LEMMA InitInv == Init => IndInv
<1> SUFFICES ASSUME Init PROVE IndInv
  OBVIOUS
<1>1. PICK r \in Repos : head = r.head /\ index = r.index /\ work = r.work
  BY DEF Init
<1>2. {head, index, work} \subseteq Trees
  BY <1>1, ReposAssumption
<1>3. TypeOK
  BY <1>2, ChangesAssumption, NoneAssumption DEF Init, TypeOK, Phases, Now
<1> QED
  BY <1>3 DEF Init, IndInv, Routed, Collected, NoEntryIsInvented, ErrorsHaveACause

(* The agent's steps only add moments to those the request has seen.       *)
LEMMA MeanwhileInv ==
  ASSUME IndInv, Meanwhile, {head', index', work'} \subseteq Trees
  PROVE  IndInv'
<1> USE DEF IndInv, Meanwhile, handlerVars
<1>1. Now' \in moments' /\ moments \subseteq moments'
  OBVIOUS
<1>2. Now' \in Moments
  BY DEF Now, Moments
<1>3. TypeOK'
  BY <1>2, ChangesAssumption DEF TypeOK, Running, Moments
<1>4. Routed' /\ Collected' /\ (request \in Requests)'
  BY <1>1 DEF Routed, Collected
<1>5. NoEntryIsInvented'
  BY <1>1 DEF NoEntryIsInvented
<1>6. ErrorsHaveACause'
  BY DEF ErrorsHaveACause, Running
<1> QED
  BY <1>1, <1>3, <1>4, <1>5, <1>6

LEMMA WorkInv == IndInv /\ Work => IndInv'
<1> SUFFICES ASSUME IndInv, Work PROVE IndInv'
  OBVIOUS
<1>1. ASSUME NEW n \in Names, Add(n) PROVE IndInv'
  <2>1. {head', index', work'} \subseteq Trees
    BY <1>1 DEF Add, IndInv, TypeOK, Trees
  <2> QED
    BY <1>1, <2>1, MeanwhileInv DEF Add
<1>2. ASSUME NEW n \in Names, NEW v \in Versions \union {Absent}, Write(n, v)
      PROVE  IndInv'
  <2>1. {head', index', work'} \subseteq Trees
    BY <1>2 DEF Write, IndInv, TypeOK, Trees
  <2> QED
    BY <1>2, <2>1, MeanwhileInv DEF Write
<1>3. ASSUME Commit PROVE IndInv'
  <2>1. {head', index', work'} \subseteq Trees
    BY <1>3 DEF Commit, IndInv, TypeOK
  <2> QED
    BY <1>3, <2>1, MeanwhileInv DEF Commit
<1> QED
  BY <1>1, <1>2, <1>3 DEF Work

(* What is the same after any step of the handler.                         *)
LEMMA Resting ==
  ASSUME IndInv, Rest
  PROVE  /\ Now' = Now /\ moments' = moments /\ request' = request
         /\ Now' \in moments' /\ (request \in Requests)'
         /\ {head', index', work'} \subseteq Trees
         /\ changes' \in 0..MaxChanges
         /\ moments' \subseteq [head : Trees, index : Trees, work : Trees]
BY DEF Rest, repoVars, Now, IndInv, TypeOK

(* A step that leaves what was found alone invents nothing.                *)
LEMMA NothingFound ==
  ASSUME IndInv, Rest, UNCHANGED found
  PROVE  NoEntryIsInvented'
BY DEF Rest, repoVars, IndInv, NoEntryIsInvented

(* A request that is not answered yet has no error to account for.         *)
LEMMA NoErrorYet ==
  ASSUME reply' = None
  PROVE  ErrorsHaveACause'
BY DEF ErrorsHaveACause

LEMMA OpenDirectoryInv == IndInv /\ OpenDirectory => IndInv'
<1> SUFFICES ASSUME IndInv, OpenDirectory PROVE IndInv'
  OBVIOUS
<1>0. Rest /\ At("directory") /\ UNCHANGED <<at, found, todo>>
  BY DEF OpenDirectory
<1>1. /\ request.kind \in {"diff", "browse", "list"} /\ request.dir \in Dirs
  BY RequestKinds DEF IndInv
<1>2. \/ request.dir = "missing" /\ Answer(500, {}) /\ failed' = failed
      \/ request.dir = "outside" /\ Answer(404, {}) /\ failed' = failed
      \/ Go(First) /\ failed' = failed
      \/ Answer(500, {}) /\ failed' = failed \union {"refused"}
      \/ Answer(404, {}) /\ failed' = failed \union {"exit"}
  BY DEF OpenDirectory, Refused
<1>3. at = None
  BY <1>0 DEF At, IndInv, TypeOK
<1>4. TypeOK'
  BY <1>0, <1>1, <1>2, <1>3, Resting
  DEF IndInv, TypeOK, Phases, Answer, Go, First, At, Running
<1>5. Routed'
  BY <1>0, <1>1, <1>2, Resting DEF Routed, Answer, Go, First, At, Running
<1>6. Collected'
  BY <1>0, Resting DEF IndInv, Collected, Untracked, In
<1>7. ErrorsHaveACause'
  BY <1>0, <1>2, Resting DEF Answer, Go, At, Running, ErrorsHaveACause
<1> QED
  BY <1>0, <1>4, <1>5, <1>6, <1>7, Resting, NothingFound DEF IndInv

LEMMA GitWontRunInv == IndInv /\ GitWontRun => IndInv'
<1> SUFFICES ASSUME IndInv, GitWontRun PROVE IndInv'
  OBVIOUS
<1>0. Rest /\ Answer(500, {}) /\ UNCHANGED <<at, found, todo>>
  BY DEF GitWontRun
<1>3. at = None
  BY DEF GitWontRun, RunsGit, IndInv, TypeOK
<1>4. TypeOK'
  BY <1>0, <1>3, Resting DEF GitWontRun, IndInv, TypeOK, Phases, Answer
<1>5. Routed'
  BY <1>0 DEF Routed, Answer
<1>6. Collected'
  BY <1>0, Resting DEF IndInv, Collected
<1>7. ErrorsHaveACause'
  BY <1>0 DEF GitWontRun, Answer, ErrorsHaveACause
<1> QED
  BY <1>0, <1>4, <1>5, <1>6, <1>7, Resting, NothingFound DEF IndInv

(* One git diff more of a request for one: what it found is of its kind,   *)
(* and each entry was true when git was asked.                             *)
LEMMA CollectInv ==
  ASSUME IndInv, NEW p \in {"commit", "staged", "unstaged"},
         NEW next \in {"unstaged", "untracked"},
         NEW from \in Trees, NEW to \in Trees,
         Collect(p, next, GitDiff(from, to)),
         ClaimsOf(p, Now) = Claims(from, to, p),
         \A n \in Names :
           /\ from[n] \in {head[n], index[n], work[n], Absent}
           /\ to[n] \in {head[n], index[n], work[n], Absent}
  PROVE  IndInv'
<1>0. Rest /\ At(p) /\ Go(next) /\ UNCHANGED <<at, todo>>
  BY DEF Collect
<1>1. /\ request.kind = "diff" /\ at = None /\ reply = None /\ reply' = None
      /\ p \in Scopes \union {"commit"} /\ p # "untracked"
  BY <1>0 DEF IndInv, Routed, TypeOK, At, Running, Go, Scopes
<1>2. \/ found' = found \union ParseDiff(GitDiff(from, to), p)
      \/ found' = found
  BY DEF Collect
<1>3. failed' \subseteq {"exit", "spawn", "refused"}
  <2>1. failed' = failed \/ failed' = failed \union {"exit"}
    BY DEF Collect
  <2> QED
    BY <2>1 DEF IndInv, TypeOK
<1>4. TypeOK'
  BY <1>0, <1>1, <1>3, Resting DEF IndInv, TypeOK, Phases, Go
<1>5. Routed'
  BY <1>0, <1>1, Resting DEF Routed, Go
<1>6. Collected'
  BY <1>0, <1>1, <1>2, Resting, ParsedIsChange DEF IndInv, Collected
<1>7. \A c \in ParseDiff(GitDiff(from, to), p) :
        /\ c.scope = p
        /\ \E e \in ClaimsOf(p, Now) : Blur(Now, c) = Blur(Now, e)
  <2>1. Of(from, Now) /\ Of(to, Now)
    BY DEF Of, Now
  <2>2. ASSUME NEW c \in ParseDiff(GitDiff(from, to), p) PROVE c.scope = p
    <3>1. PICK k \in GitDiff(from, to) : c = ParseChunk(k, p)
      BY DEF ParseDiff
    <3> QED
      BY <3>1 DEF ParseChunk, Change
  <2>3. ASSUME NEW c \in ParseDiff(GitDiff(from, to), p)
        PROVE  \E e \in Claims(from, to, p) : Blur(Now, c) = Blur(Now, e)
    <3>1. Blurs(Now, ParseDiff(GitDiff(from, to), p))
            = Blurs(Now, PlainOnes(Claims(from, to, p)))
      BY <1>1, <2>1, ParsedIsClaimed
    <3> QED
      BY <3>1 DEF Blurs, PlainOnes
  <2> QED
    BY <2>2, <2>3
<1>8. NoEntryIsInvented'
  <2>1. ASSUME NEW c \in found'
        PROVE  \E r, m \in moments :
          IF c.scope = "untracked"
          THEN /\ [c EXCEPT !.contents = None] \in
                     {[e EXCEPT !.contents = None] : e \in ClaimsOf("untracked", r)}
               /\ c.contents # None => c.contents = m.work[c.name]
          ELSE Blur(r, c) \in {Blur(r, e) : e \in ClaimsOf(c.scope, r)}
    <3>1. CASE c \in found
      BY <1>1, <3>1 DEF IndInv, NoEntryIsInvented
    <3>2. CASE c \in ParseDiff(GitDiff(from, to), p)
      BY <1>1, <1>7, <3>2 DEF IndInv
    <3> QED
      BY <1>2, <2>1, <3>1, <3>2
  <2> QED
    BY <1>0, <1>1, <2>1, Resting DEF NoEntryIsInvented
<1> QED
  BY <1>0, <1>1, <1>4, <1>5, <1>6, <1>8, Resting, NoErrorYet DEF IndInv

(* What the index knows of the work tree is a tree.                        *)
LEMMA KnownIsTree ==
  ASSUME IndInv
  PROVE  /\ Known(Now) \in Trees
         /\ Tracked(In(index), work) = Known(Now)
         /\ \A n \in Names : Known(Now)[n] \in {work[n], Absent}
BY DEF IndInv, TypeOK, Trees, Known, Tracked, In, Now

LEMMA DiffsInv == IndInv /\ (AgainstCommit \/ Staged \/ Unstaged) => IndInv'
<1> SUFFICES ASSUME IndInv PROVE AgainstCommit \/ Staged \/ Unstaged => IndInv'
  OBVIOUS
<1>0. head \in Trees /\ index \in Trees
  BY DEF IndInv, TypeOK
<1>1. ASSUME AgainstCommit PROVE IndInv'
  <2>1. Collect("commit", "untracked", GitDiff(head, Known(Now)))
    BY <1>1, KnownIsTree DEF AgainstCommit, CommitDiff, Now
  <2>2. ClaimsOf("commit", Now) = Claims(head, Known(Now), "commit")
    BY DEF ClaimsOf, Now
  <2> QED
    BY <1>0, <2>1, <2>2, KnownIsTree, CollectInv
<1>2. ASSUME Staged PROVE IndInv'
  <2>1. Collect("staged", "unstaged", GitDiff(head, index))
    BY <1>2 DEF Staged, StagedDiff, Now
  <2>2. ClaimsOf("staged", Now) = Claims(head, index, "staged")
    BY DEF ClaimsOf, Now
  <2> QED
    BY <1>0, <2>1, <2>2, CollectInv
<1>3. ASSUME Unstaged PROVE IndInv'
  <2>1. Collect("unstaged", "untracked", GitDiff(index, Known(Now)))
    BY <1>3, KnownIsTree DEF Unstaged, UnstagedDiff, Now
  <2>2. ClaimsOf("unstaged", Now) = Claims(index, Known(Now), "unstaged")
    BY DEF ClaimsOf, Now
  <2> QED
    BY <1>0, <2>1, <2>2, KnownIsTree, CollectInv
<1> QED
  BY <1>1, <1>2, <1>3

LEMMA ListUntrackedInv == IndInv /\ ListUntracked => IndInv'
<1> SUFFICES ASSUME IndInv, ListUntracked PROVE IndInv'
  OBVIOUS
<1>0. /\ Rest /\ At("untracked") /\ Go("resolve") /\ UNCHANGED <<at, found>>
      /\ todo' \in {todo, Untracked(Now)} /\ failed' \subseteq failed \union {"exit"}
  BY DEF ListUntracked
<1>1. /\ request.kind = "diff" /\ at = None /\ reply' = None
  BY <1>0 DEF IndInv, Routed, TypeOK, At, Running, Go
<1>2. Untracked(Now) \subseteq Names
  BY DEF Untracked, In
<1>4. TypeOK'
  BY <1>0, <1>1, <1>2, Resting DEF IndInv, TypeOK, Phases, Go
<1>5. Routed'
  BY <1>0, <1>1, Resting DEF Routed, Go
<1>6. Collected'
  BY <1>0, <1>1, Resting DEF IndInv, Collected
<1> QED
  BY <1>0, <1>1, <1>4, <1>5, <1>6, Resting, NothingFound, NoErrorYet DEF IndInv

LEMMA ResolveInv ==
  ASSUME IndInv, NEW n \in Names, Resolve(n)
  PROVE  IndInv'
<1>0. /\ Rest /\ At("resolve") /\ n \in todo /\ UNCHANGED <<found, todo>>
  BY DEF Resolve
<1>1. request.kind = "diff" /\ n # None /\ request'.kind = "diff"
  BY <1>0, NoneAssumption, Resting DEF IndInv, Routed, At
<1>2. CASE Go("read") /\ at' = n /\ failed' = failed
  <2>1. reply' = None
    BY <1>0, <1>2 DEF Go, At, Running
  <2>2. TypeOK' /\ Routed' /\ Collected'
    BY <1>0, <1>1, <1>2, <2>1, Resting
    DEF IndInv, TypeOK, Phases, Routed, Collected, Go
  <2> QED
    BY <1>0, <2>1, <2>2, Resting, NothingFound, NoErrorYet DEF IndInv
<1>3. CASE /\ Answer(500, {}) /\ at' = None
           /\ \/ ~There(n) /\ failed' = failed
              \/ failed' = failed \union {"refused"}
  <2>1. TypeOK' /\ Routed' /\ Collected'
    BY <1>0, <1>1, <1>3, Resting
    DEF IndInv, TypeOK, Phases, Routed, Collected, Answer
  <2>2. CASE "refused" \in failed'
    <3>1. ErrorsHaveACause'
      BY <1>3, <2>2 DEF ErrorsHaveACause, Answer
    <3> QED
      BY <1>0, <2>1, <3>1, Resting, NothingFound DEF IndInv
  <2>3. CASE ~There(n)
    <3>1. n \in Quoted \union Linked \/ \E r \in moments' : r.work[n] = Absent
      BY <2>3, Resting, <1>0 DEF There, Now
    <3>2. todo' \cap ({m \in Names : \E r \in moments' : r.work[m] = Absent}
                        \union Quoted \union Linked) # {}
      BY <1>0, <3>1
    <3>3. ErrorsHaveACause'
      BY <1>1, <1>3, <3>2 DEF ErrorsHaveACause, Answer
    <3> QED
      BY <1>0, <2>1, <3>3, Resting, NothingFound DEF IndInv
  <2> QED
    BY <1>3, <2>2, <2>3
<1> QED
  BY <1>2, <1>3 DEF Resolve, Refused

(* What was untracked when git was asked is listed with the text it has now*)
(* or with none.                                                           *)
LEMMA UntrackedIsClaimed ==
  ASSUME NEW r, NEW n \in Names, n \in Untracked(r), NEW v
  PROVE  [Change(n, None, "untracked", v, "untracked") EXCEPT !.contents = None]
           \in {[e EXCEPT !.contents = None] : e \in ClaimsOf("untracked", r)}
<1> DEFINE w == IF r.work[n] \in Big THEN None ELSE r.work[n]
<1>1. n \in {m \in Names \ Ignored : r.work[m] # Absent /\ r.index[m] = Absent}
  BY DEF Untracked, In
<1>2. Change(n, None, "untracked", w, "untracked") \in ClaimsOf("untracked", r)
  BY <1>1 DEF ClaimsOf
<1>3. \A x : [Change(n, None, "untracked", x, "untracked") EXCEPT !.contents = None]
               = Change(n, None, "untracked", None, "untracked")
  BY DEF Change
<1> QED
  BY <1>2, <1>3

LEMMA ReadUntrackedInv == IndInv /\ ReadUntracked => IndInv'
<1> SUFFICES ASSUME IndInv, ReadUntracked PROVE IndInv'
  OBVIOUS
<1>a. PICK v \in {Shown(work[at]), None} :
        /\ found' = found \union {Change(at, None, "untracked", v, "untracked")}
        /\ failed' = failed \/ failed' = failed \union {"refused"}
  BY DEF ReadUntracked, Refused
<1> DEFINE c == Change(at, None, "untracked", v, "untracked")
<1>0. /\ Rest /\ At("read") /\ Go("resolve")
      /\ failed' = failed \/ failed' = failed \union {"refused"}
      /\ found' = found \union {c} /\ todo' = todo \ {at} /\ at' = None
  BY <1>a DEF ReadUntracked
<1>1. /\ request.kind = "diff" /\ at \in todo /\ at \in Names
      /\ reply = None /\ reply' = None
  BY <1>0, NoneAssumption DEF IndInv, Routed, TypeOK, Collected, At, Running, Go
<1>2. PICK r \in moments : at \in Untracked(r)
  BY <1>1 DEF IndInv, Collected
<1>3. c \in Changes
  <2>1. v \in Versions \union {None}
    BY DEF Shown
  <2>2. "untracked" \in Scopes
    BY DEF Scopes
  <2> QED
    BY <1>1, <2>1, <2>2 DEF Changes, Change
<1>4. TypeOK'
  BY <1>0, <1>1, Resting DEF IndInv, TypeOK, Phases, Go
<1>5. Routed'
  BY <1>0, <1>1, Resting DEF Routed, Go
<1>6. Collected'
  BY <1>0, <1>1, <1>3, Resting DEF IndInv, Collected
<1>7. NoEntryIsInvented'
  <2>1. /\ c.scope = "untracked"
        /\ c.contents # None => c.contents = Now.work[c.name]
    BY DEF Change, Shown, Now
  <2>2. [c EXCEPT !.contents = None] \in
          {[e EXCEPT !.contents = None] : e \in ClaimsOf("untracked", r)}
    BY <1>1, <1>2, UntrackedIsClaimed
  <2>3. ASSUME NEW d \in found'
        PROVE  \E t, m \in moments :
          IF d.scope = "untracked"
          THEN /\ [d EXCEPT !.contents = None] \in
                     {[e EXCEPT !.contents = None] : e \in ClaimsOf("untracked", t)}
               /\ d.contents # None => d.contents = m.work[d.name]
          ELSE Blur(t, d) \in {Blur(t, e) : e \in ClaimsOf(d.scope, t)}
    <3>1. CASE d \in found
      BY <1>1, <3>1 DEF IndInv, NoEntryIsInvented
    <3>2. CASE d = c
      <4> HIDE DEF c
      <4> QED
        BY <1>2, <2>1, <2>2, <3>2 DEF IndInv
    <3> QED
      BY <1>0, <2>3, <3>1, <3>2
  <2> QED
    BY <1>0, <1>1, <2>3, Resting DEF NoEntryIsInvented
<1> QED
  BY <1>0, <1>1, <1>4, <1>5, <1>6, <1>7, Resting, NoErrorYet DEF IndInv

LEMMA ReplyDiffInv == IndInv /\ ReplyDiff => IndInv'
<1> SUFFICES ASSUME IndInv, ReplyDiff PROVE IndInv'
  OBVIOUS
<1>0. /\ Rest /\ At("resolve") /\ Answer(200, found)
      /\ UNCHANGED <<failed, at, found, todo>>
  BY DEF ReplyDiff
<1>1. request.kind = "diff" /\ at = None
  BY <1>0 DEF IndInv, Routed, TypeOK, At
<1>4. TypeOK'
  BY <1>0, <1>1, Resting DEF IndInv, TypeOK, Phases, Answer, Collected
<1>5. Routed'
  BY <1>0 DEF Routed, Answer
<1>6. Collected'
  BY <1>0, Resting DEF IndInv, Collected
<1>7. ErrorsHaveACause'
  BY <1>0 DEF ErrorsHaveACause, Answer
<1> QED
  BY <1>0, <1>4, <1>5, <1>6, <1>7, Resting, NothingFound DEF IndInv

(* A listing collects names only: committed ones, then untracked ones.     *)
LEMMA ListingInv == IndInv /\ (ListTree \/ AddUntracked) => IndInv'
<1> SUFFICES ASSUME IndInv, ListTree \/ AddUntracked PROVE IndInv'
  OBVIOUS
<1>0. /\ Rest /\ Running /\ phase \in {"tree", "others"}
      /\ UNCHANGED <<at, todo>> /\ failed' \subseteq failed \union {"exit"}
      /\ Go("others") \/ Answer(200, found')
  BY DEF ListTree, AddUntracked, At
<1>1. request.kind = "list" /\ at = None
  BY <1>0 DEF IndInv, Routed, TypeOK
<1>2. \A n \in found' :
        \/ n \in found
        \/ n \in Names /\ head[n] # Absent
        \/ n \in Names /\ work[n] # Absent /\ index[n] = Absent
  BY DEF ListTree, AddUntracked, In, Untracked, Now
<1>3. found' \subseteq Names
  BY <1>1, <1>2 DEF IndInv, Collected
<1>4. TypeOK'
  BY <1>0, <1>1, <1>3, Resting
  DEF IndInv, TypeOK, Phases, Go, Answer, Running
<1>5. Routed'
  BY <1>0, <1>1, Resting DEF Routed, Go, Answer, Running
<1>6. Collected'
  BY <1>0, <1>1, <1>3, Resting DEF IndInv, Collected
<1>7. NoEntryIsInvented'
  <2>1. ASSUME NEW n \in found'
        PROVE  \E r \in moments : \/ r.head[n] # Absent
                                  \/ r.work[n] # Absent /\ r.index[n] = Absent
    <3>1. CASE n \in found
      BY <1>1, <3>1 DEF IndInv, NoEntryIsInvented
    <3>2. CASE \/ head[n] # Absent
               \/ work[n] # Absent /\ index[n] = Absent
      BY <3>2 DEF IndInv, Now
    <3> QED
      BY <1>2, <2>1, <3>1, <3>2
  <2> QED
    BY <1>0, <1>1, <2>1, Resting DEF NoEntryIsInvented
<1>8. ErrorsHaveACause'
  BY <1>0 DEF ErrorsHaveACause, Answer, Go, Running
<1> QED
  BY <1>0, <1>4, <1>5, <1>6, <1>7, <1>8, Resting DEF IndInv

(* A file of a commit, or of the work tree.                                *)
LEMMA BrowseInv == IndInv /\ (ShowFile \/ ResolveFile \/ IsFile \/ ReadFile) => IndInv'
<1> SUFFICES ASSUME IndInv, ShowFile \/ ResolveFile \/ IsFile \/ ReadFile
             PROVE  IndInv'
  OBVIOUS
<1> DEFINE n == request.file
<1>0. /\ Rest /\ Running /\ UNCHANGED <<at, found, todo>>
      /\ phase \in {"show", "path", "is_file", "file"}
  BY DEF ShowFile, ResolveFile, IsFile, ReadFile, At
<1>1. /\ request.kind = "browse" /\ n \in Names /\ at = None
      /\ phase = "show" <=> request.commit # None
      /\ head[n] \in Versions \union {Absent} /\ work[n] \in Versions \union {Absent}
  BY <1>0, RequestKinds DEF IndInv, Routed, TypeOK, Trees
<1>2. \/ /\ phase \in {"path", "is_file"}
         /\ phase' \in {"is_file", "file"} /\ UNCHANGED <<reply, failed>>
      \/ /\ phase = "show" /\ head[n] # Absent /\ Answer(200, {head[n]})
         /\ UNCHANGED failed
      \/ /\ phase = "show" /\ Answer(404, {})
         /\ IF KnownRef /\ head[n] # Absent THEN failed' = {"exit"} ELSE failed' = {}
      \/ /\ phase \in {"path", "file"} /\ (work[n] = Absent \/ n \in Linked)
         /\ Answer(500, {}) /\ UNCHANGED failed
      \/ /\ phase \in {"is_file", "file"} /\ work[n] \in Big \union {Absent}
         /\ Answer(404, {}) /\ UNCHANGED failed
      \/ /\ phase = "file" /\ work[n] # Absent /\ Answer(200, {work[n]})
         /\ UNCHANGED failed
      \/ /\ phase \in {"path", "is_file", "file"}
         /\ Answer(404, {}) \/ Answer(500, {})
         /\ failed' = failed \union {"refused"}
  <2>1. CASE ShowFile
    BY <2>1 DEF ShowFile, At
  <2>2. CASE ResolveFile
    BY <2>2 DEF ResolveFile, Refused, At, Go
  <2>3. CASE IsFile
    BY <2>3 DEF IsFile, Refused, At, Go
  <2>4. CASE ReadFile
    BY <2>4, VersionsAssumption DEF ReadFile, Refused, At
  <2> QED
    BY <2>1, <2>2, <2>3, <2>4
<1>3. /\ failed' \subseteq {"exit", "spawn", "refused"} /\ phase' \in Phases /\ phase' # "read"
      /\ request' = request
      /\ \/ reply' = None
         \/ \E v \in Versions : reply' = [status |-> 200, body |-> {v}]
         \/ \E status \in {404, 500} : reply' = [status |-> status, body |-> {}]
  <2>1. failed' \subseteq {"exit", "spawn", "refused"}
    <3>1. \/ failed' = failed \/ failed' = {"exit"} \/ failed' = {}
          \/ failed' = failed \union {"refused"}
      BY <1>2
    <3> QED
      BY <3>1 DEF IndInv, TypeOK
  <2>2. phase' \in Phases /\ phase' # "read" /\ request' = request
    BY <1>0, <1>2, Resting DEF Phases, Answer
  <2>3. \/ reply' = reply
        \/ head[n] \in Versions /\ Answer(200, {head[n]})
        \/ work[n] \in Versions /\ Answer(200, {work[n]})
        \/ Answer(404, {}) \/ Answer(500, {})
    BY <1>1, <1>2
  <2>4. \/ reply' = None
        \/ \E v \in Versions : reply' = [status |-> 200, body |-> {v}]
        \/ \E status \in {404, 500} : reply' = [status |-> status, body |-> {}]
    BY <1>0, <2>3 DEF Answer, Running
  <2> QED
    BY <2>1, <2>2, <2>4
<1>4. TypeOK'
  <2>1. reply' # None => /\ reply'.status \in {200, 404, 500}
                         /\ reply'.status # 200 => reply'.body = {}
                         /\ reply'.body \subseteq Versions
    BY <1>3
  <2> QED
    BY <1>0, <1>1, <1>3, <2>1, Resting DEF IndInv, TypeOK
<1>5. Routed'
  BY <1>0, <1>1, <1>2, Resting DEF Routed, Answer, Running
<1>6. Collected'
  BY <1>0, Resting DEF IndInv, Collected
<1>7. ErrorsHaveACause'
  <2>1. work[n] \in Big \union {Absent} =>
          \E r \in moments : r.work[n] \in Big \union {Absent}
    BY DEF IndInv, Now
  <2>2. work[n] = Absent => \E r \in moments : r.work[n] = Absent
    BY DEF IndInv, Now
  <2>3. head[n] = Absent => \E r \in moments : r.head[n] = Absent
    BY DEF IndInv, Now
  <2> QED
    BY <1>0, <1>1, <1>2, <2>1, <2>2, <2>3, Resting
    DEF ErrorsHaveACause, Answer, Running, KnownRef
<1> QED
  BY <1>0, <1>4, <1>5, <1>6, <1>7, Resting, NothingFound DEF IndInv

LEMMA HandleInv == IndInv /\ Handle => IndInv'
BY OpenDirectoryInv, GitWontRunInv, DiffsInv, ListUntrackedInv, ResolveInv,
   ReadUntrackedInv, ReplyDiffInv, ListingInv, BrowseInv DEF Handle

LEMMA StutterInv == IndInv /\ UNCHANGED vars => IndInv'
<1> SUFFICES ASSUME IndInv, UNCHANGED vars PROVE IndInv'
  OBVIOUS
<1>1. /\ head' = head /\ index' = index /\ work' = work /\ changes' = changes
      /\ moments' = moments /\ failed' = failed /\ request' = request
      /\ phase' = phase /\ at' = at /\ found' = found /\ todo' = todo
      /\ reply' = reply
  BY DEF vars, repoVars, handlerVars
<1>2. TypeOK' /\ (Now \in moments)' /\ (request \in Requests)'
  BY <1>1 DEF IndInv, TypeOK, Now
<1>3. Routed' /\ Collected'
  BY <1>1 DEF IndInv, Routed, Collected
<1>4. NoEntryIsInvented'
  BY <1>1 DEF IndInv, NoEntryIsInvented
<1>5. ErrorsHaveACause'
  BY <1>1 DEF IndInv, ErrorsHaveACause
<1> QED
  BY <1>2, <1>3, <1>4, <1>5 DEF IndInv

(* The inductive invariant: every request is on its way, and what it has   *)
(* collected was in the repository at some moment since it came in.        *)
THEOREM IndInvHolds == Spec => []IndInv
<1>1. IndInv /\ [Next]_vars => IndInv'
  BY HandleInv, WorkInv, StutterInv DEF Next
<1> QED
  BY InitInv, <1>1, PTL DEF Spec

(* Replies are of changes, names or texts, and empty if there was an error.*)
THEOREM TypeCorrect == Spec => []TypeOK
BY IndInvHolds, PTL DEF IndInv

(* A listing made while an agent works holds nothing that was not true at  *)
(* some moment of the request (diff.rs:50-97, 100-123).                    *)
THEOREM NothingInvented == Spec => []NoEntryIsInvented
BY IndInvHolds, PTL DEF IndInv

(* Every 500 and 404 has a cause outside the request's own doing           *)
(* (diff.rs:100-153, gateway.rs:221-277).                                  *)
THEOREM CausedErrors == Spec => []ErrorsHaveACause
BY IndInvHolds, PTL DEF IndInv

-----------------------------------------------------------------------------
(* While nothing happens in the repository.                                *)

Quiet == moments = {Now} /\ failed = {}

(* The git diffs there have been before each phase.                        *)
Before ==
  CASE phase = "unstaged" -> {"staged"}
    [] phase \in {"untracked", "resolve", "read", "done"} ->
         {"commit", "staged", "unstaged"}
    [] OTHER -> {}

(* The names git listed, and the entry each is to have.                    *)
Listed ==
  IF phase \in {"resolve", "read", "done"} /\ "untracked" \in Shows
  THEN Untracked(Now) ELSE {}

Entry(r, n) ==
  Blur(r, Change(n, None, "untracked",
                 IF r.work[n] \in Big THEN None ELSE r.work[n], "untracked"))

Claimed(r, scopes) == UNION {ClaimsOf(s, r) : s \in scopes}

(* A diff on its way holds what its scopes so far claim, and the entries of*)
(* the names that were read.                                               *)
Exact ==
  request.kind = "diff" =>
    /\ phase = "commit" => request.commit # None
    /\ phase \in {"staged", "unstaged"} => request.commit = None
    /\ Quiet /\ (phase = "done" => reply.status = 200) =>
         /\ Blurs(Now, found) = Blurs(Now, PlainOnes(Claimed(Now, Shows \cap Before)))
                                  \union {Entry(Now, n) : n \in Listed \ todo}
         /\ todo \subseteq Listed
         /\ (Listed \ todo) \cap Quoted = {}
         /\ at # None => at \notin Quoted
         /\ phase = "done" => todo = {} /\ reply.body = found

(* The scopes a diff wants are those it was asked for.                     *)
LEMMA WantsIsShows ==
  ASSUME request \in Requests, request.kind = "diff"
  PROVE  /\ Shows \subseteq {"commit", "staged", "unstaged", "untracked"}
         /\ request.commit \in {"HEAD", "unknown", None}
         /\ "commit" \in Shows <=> request.commit = "HEAD"
         /\ \A s \in {"staged", "unstaged"} :
              s \in Shows <=> request.commit = None /\ Wants(request, s)
         /\ "untracked" \in Shows <=> Wants(request, "untracked")
<1>1. /\ request.commit \in {"HEAD", "unknown", None}
      /\ request.scopes \in [Scopes -> {TRUE, FALSE, None}]
  BY RequestsAssumption DEF DiffRequests, BrowseRequests, ListRequests, Commits
<1>2. \A s \in Scopes : s \in Selected <=> Wants(request, s)
  <2> TAKE s \in Scopes
  <2>1. request.scopes[s] \in {TRUE, FALSE, None}
    BY <1>1
  <2>2. CASE AnyScope(request)
    BY <2>1, <2>2, NoneAssumption DEF Selected, Wants, AnyScope
  <2>3. CASE ~AnyScope(request)
    BY <2>1, <2>3, NoneAssumption DEF Selected, Wants, AnyScope
  <2> QED
    BY <2>2, <2>3
<1>3. Selected \subseteq Scopes
  BY DEF Selected
<1> HIDE DEF Selected, Wants
<1>4. CASE request.commit = "unknown"
  BY <1>2, <1>3, <1>4, NoneAssumption DEF Shows, Scopes
<1>5. CASE request.commit = "HEAD"
  BY <1>2, <1>3, <1>5, NoneAssumption DEF Shows, Scopes
<1>6. CASE request.commit = None
  BY <1>2, <1>3, <1>6, NoneAssumption DEF Shows, Scopes
<1> QED
  BY <1>1, <1>4, <1>5, <1>6

(* Nothing is collected at first.                                          *)
LEMMA InitExact == Init => Exact
<1> SUFFICES ASSUME Init PROVE Exact
  OBVIOUS
<1>1. /\ phase = "directory" /\ found = {} /\ todo = {} /\ at = None
  BY DEF Init
<1>2. Before = {} /\ Listed = {}
  BY <1>1 DEF Before, Listed
<1>3. Blurs(Now, PlainOnes(Claimed(Now, Shows \cap Before))) = {}
  BY <1>2 DEF Claimed, PlainOnes, Blurs
<1>4. Blurs(Now, found) = {}
  BY <1>1 DEF Blurs
<1> QED
  BY <1>1, <1>2, <1>3, <1>4 DEF Exact

(* Every step of the agent makes the repository another one.               *)
LEMMA WorkExact == IndInv /\ Exact /\ Work => Exact'
<1> SUFFICES ASSUME IndInv, Exact, Work PROVE Exact'
  OBVIOUS
<1>1. Meanwhile
  BY DEF Work, Add, Write, Commit
<1>2. Now' # Now
  <2>1. head' # head \/ index' # index \/ work' # work
    BY DEF Work, Add, Write, Commit, IndInv, TypeOK, Trees
  <2> QED
    BY <2>1 DEF Now
<1>3. Now \in moments' /\ Now' \in moments'
  BY <1>1 DEF Meanwhile, IndInv
<1>4. ~Quiet'
  BY <1>2, <1>3 DEF Quiet
<1> QED
  BY <1>1, <1>4 DEF Meanwhile, handlerVars, Exact

(* What is the same of the above after a step of the handler.              *)
LEMMA RestExact ==
  ASSUME IndInv, Rest, failed \subseteq failed'
  PROVE  /\ Now' = Now /\ request' = request /\ Shows' = Shows
         /\ Quiet' => Quiet
<1>1. Now' = Now /\ moments' = moments /\ request' = request
  BY Resting
<1>2. Shows' = Shows
  BY <1>1 DEF Shows, Selected
<1>3. Quiet' => Quiet
  BY <1>1 DEF Quiet
<1> QED
  BY <1>1, <1>2, <1>3

(* Nothing is collected before the directory is opened.                    *)
LEMMA OpenDirectoryExact == IndInv /\ Exact /\ OpenDirectory => Exact'
<1> SUFFICES ASSUME IndInv, Exact, OpenDirectory PROVE Exact'
  OBVIOUS
<1>1. Rest /\ At("directory") /\ UNCHANGED <<at, found, todo>>
  BY DEF OpenDirectory
<1>2. \/ Answer(500, {}) \/ Answer(404, {})
      \/ Go(First) /\ failed' = failed
  BY DEF OpenDirectory
<1>3. CASE Answer(500, {}) \/ Answer(404, {})
  BY <1>3 DEF Answer, Exact
<1>4. CASE Go(First) /\ failed' = failed
  <2>1. SUFFICES ASSUME request.kind = "diff" PROVE Exact'
    BY <1>1, Resting DEF Exact
  <2>2. /\ phase' = IF request.commit = None THEN "staged" ELSE "commit"
        /\ request' = request
    BY <1>1, <1>4, <2>1, Resting DEF Go, First
  <2>3. Before = {} /\ Before' = {} /\ Listed = {} /\ Listed' = {}
    BY <1>1, <2>2 DEF Before, Listed, At
  <2>4. phase # "done" /\ phase' # "done"
    BY <1>1, <2>2 DEF At
  <2> QED
    BY <1>1, <1>4, <2>1, <2>2, <2>3, <2>4, RestExact DEF Exact
<1> QED
  BY <1>2, <1>3, <1>4

(* One scope more is its claims more.                                      *)
LEMMA ClaimsAddUp ==
  ASSUME NEW r, NEW done, NEW s
  PROVE  Blurs(r, PlainOnes(Claimed(r, done \union {s})))
           = Blurs(r, PlainOnes(Claimed(r, done)))
               \union Blurs(r, PlainOnes(ClaimsOf(s, r)))
<1>1. Claimed(r, done \union {s}) = Claimed(r, done) \union ClaimsOf(s, r)
  BY DEF Claimed
<1> QED
  BY <1>1 DEF Blurs, PlainOnes

(* A git diff that succeeds adds what its scope claims, if it is wanted.   *)
LEMMA CollectExact ==
  ASSUME IndInv, Exact, NEW p \in {"commit", "staged", "unstaged"},
         NEW next \in {"unstaged", "untracked"}, NEW chunks,
         Collect(p, next, chunks),
         next = "unstaged" => p = "staged",
         p = "staged" => next = "unstaged",
         Blurs(Now, ParseDiff(chunks, p)) = Blurs(Now, PlainOnes(ClaimsOf(p, Now)))
  PROVE  Exact'
<1>1. Rest /\ At(p) /\ Go(next) /\ UNCHANGED <<at, todo>>
  BY DEF Collect
<1>2. /\ request.kind = "diff" /\ request \in Requests /\ at = None
      /\ phase = p /\ phase' = next /\ failed \subseteq failed'
  BY <1>1 DEF IndInv, Routed, TypeOK, At, Go, Collect
<1>3. SUFFICES ASSUME Quiet'
               PROVE  /\ Blurs(Now, found') = Blurs(Now, PlainOnes(Claimed(Now, Shows \cap Before')))
                      /\ todo' = {}
  <2>1. /\ phase' = "commit" => request'.commit # None
        /\ phase' \in {"staged", "unstaged"} => request'.commit = None
    BY <1>1, <1>2, Resting DEF Exact
  <2>2. ASSUME Quiet'
        PROVE  /\ Blurs(Now, found)' =
                    Blurs(Now, PlainOnes(Claimed(Now, Shows \cap Before)))'
                      \union {Entry(Now, n) : n \in Listed \ todo}'
               /\ todo' \subseteq Listed' /\ (Listed' \ todo') \cap Quoted = {}
    <3>1. Listed' = {} /\ {Entry(Now, n) : n \in Listed \ todo}' = {}
      BY <1>2 DEF Listed
    <3>2. Now' = Now /\ Shows' = Shows
      BY <1>1, <1>2, RestExact
    <3>3. /\ Blurs(Now, found') = Blurs(Now, PlainOnes(Claimed(Now, Shows \cap Before')))
          /\ todo' = {}
      BY <1>3, <2>2
    <3> QED
      BY <3>1, <3>2, <3>3
  <2>3. at' = None /\ phase' # "done"
    BY <1>1, <1>2
  <2> QED
    BY <2>1, <2>2, <2>3 DEF Exact
<1>4. /\ Quiet /\ Now' = Now /\ request' = request /\ Shows' = Shows
  BY <1>1, <1>2, <1>3, RestExact
<1>5. /\ Blurs(Now, found) = Blurs(Now, PlainOnes(Claimed(Now, Shows \cap Before)))
      /\ todo = {}
  <2>1. Listed = {} /\ {Entry(Now, n) : n \in Listed \ todo} = {}
    BY <1>2 DEF Listed
  <2> QED
    BY <1>2, <1>4, <2>1 DEF Exact
<1>6. p \in Shows <=> KnownRef /\ (p \in Scopes => Wants(request, p))
  <2>1. /\ p = "commit" => request.commit # None
        /\ p # "commit" => request.commit = None
    BY <1>2 DEF Exact
  <2>2. CASE p = "commit"
    BY <1>2, <2>1, <2>2, WantsIsShows DEF KnownRef, Scopes
  <2>3. CASE p # "commit"
    BY <1>2, <2>1, <2>3, WantsIsShows, NoneAssumption DEF KnownRef, Scopes
  <2> QED
    BY <2>2, <2>3
<1>7. found' = found \union IF p \in Shows THEN ParseDiff(chunks, p) ELSE {}
  <2>1. "exit" \notin failed'
    BY <1>3 DEF Quiet
  <2> QED
    BY <1>6, <2>1 DEF Collect
<1>8. Shows \cap Before' = (Shows \cap Before) \union (Shows \cap {p})
  BY <1>2, WantsIsShows, NoneAssumption DEF Before, Exact
<1>9. CASE p \in Shows
  <2>1. Shows \cap Before' = (Shows \cap Before) \union {p}
    BY <1>8, <1>9
  <2>2. Blurs(Now, found') = Blurs(Now, found) \union Blurs(Now, ParseDiff(chunks, p))
    BY <1>7, <1>9 DEF Blurs
  <2> QED
    BY <1>1, <1>5, <2>1, <2>2, ClaimsAddUp
<1>10. CASE p \notin Shows
  BY <1>1, <1>5, <1>7, <1>8, <1>10
<1> QED
  BY <1>9, <1>10

(* The three git diffs compare the trees their scopes are about.           *)
LEMMA DiffsExact == IndInv /\ Exact /\ (AgainstCommit \/ Staged \/ Unstaged) => Exact'
<1> SUFFICES ASSUME IndInv, Exact PROVE AgainstCommit \/ Staged \/ Unstaged => Exact'
  OBVIOUS
<1>0. head \in Trees /\ index \in Trees
  BY DEF IndInv, TypeOK
<1>1. Of(head, Now) /\ Of(index, Now) /\ Of(Known(Now), Now)
  BY KnownIsTree DEF Of, Now
<1>2. "commit" \in Scopes \union {"commit"} /\ "staged" \in Scopes \union {"commit"}
      /\ "unstaged" \in Scopes \union {"commit"}
  BY DEF Scopes
<1>3. ASSUME AgainstCommit PROVE Exact'
  <2>1. Collect("commit", "untracked", GitDiff(head, Known(Now)))
    BY <1>3, KnownIsTree DEF AgainstCommit, CommitDiff, Now
  <2>2. ClaimsOf("commit", Now) = Claims(head, Known(Now), "commit")
    BY DEF ClaimsOf, Now
  <2>3. Blurs(Now, ParseDiff(GitDiff(head, Known(Now)), "commit"))
          = Blurs(Now, PlainOnes(ClaimsOf("commit", Now)))
    BY <1>0, <1>1, <1>2, <2>2, KnownIsTree, ParsedIsClaimed
  <2> QED
    BY <2>1, <2>3, CollectExact
<1>4. ASSUME Staged PROVE Exact'
  <2>1. Collect("staged", "unstaged", GitDiff(head, index))
    BY <1>4 DEF Staged, StagedDiff, Now
  <2>2. ClaimsOf("staged", Now) = Claims(head, index, "staged")
    BY DEF ClaimsOf, Now
  <2>3. Blurs(Now, ParseDiff(GitDiff(head, index), "staged"))
          = Blurs(Now, PlainOnes(ClaimsOf("staged", Now)))
    BY <1>0, <1>1, <1>2, <2>2, ParsedIsClaimed
  <2> QED
    BY <2>1, <2>3, CollectExact
<1>5. ASSUME Unstaged PROVE Exact'
  <2>1. Collect("unstaged", "untracked", GitDiff(index, Known(Now)))
    BY <1>5, KnownIsTree DEF Unstaged, UnstagedDiff, Now
  <2>2. ClaimsOf("unstaged", Now) = Claims(index, Known(Now), "unstaged")
    BY DEF ClaimsOf, Now
  <2>3. Blurs(Now, ParseDiff(GitDiff(index, Known(Now)), "unstaged"))
          = Blurs(Now, PlainOnes(ClaimsOf("unstaged", Now)))
    BY <1>0, <1>1, <1>2, <2>2, KnownIsTree, ParsedIsClaimed
  <2> QED
    BY <2>1, <2>3, CollectExact
<1> QED
  BY <1>3, <1>4, <1>5

(* From here on the names git listed are the untracked ones.               *)
LEMMA ListUntrackedExact == IndInv /\ Exact /\ ListUntracked => Exact'
<1> SUFFICES ASSUME IndInv, Exact, ListUntracked PROVE Exact'
  OBVIOUS
<1>1. /\ Rest /\ phase = "untracked" /\ phase' = "resolve" /\ at' = at /\ found' = found
      /\ failed \subseteq failed'
  BY DEF ListUntracked, At, Go
<1>2. request.kind = "diff" /\ request \in Requests /\ at = None /\ todo \subseteq Names
  BY <1>1 DEF IndInv, Routed, TypeOK
<1>3. Now' = Now /\ request' = request /\ Shows' = Shows /\ (Quiet' => Quiet)
  BY <1>1, RestExact
<1>4. ASSUME Quiet'
      PROVE  /\ Blurs(Now, found)' =
                  Blurs(Now, PlainOnes(Claimed(Now, Shows \cap Before)))'
                    \union {Entry(Now, n) : n \in Listed \ todo}'
             /\ todo' \subseteq Listed' /\ Listed' \ todo' = {}
  <2>1. /\ Blurs(Now, found) = Blurs(Now, PlainOnes(Claimed(Now, Shows \cap Before)))
        /\ todo = {}
    <3>1. Listed = {} /\ {Entry(Now, n) : n \in Listed \ todo} = {}
      BY <1>1 DEF Listed
    <3> QED
      BY <1>1, <1>2, <1>3, <1>4, <3>1 DEF Exact
  <2>2. Before' = Before
    BY <1>1 DEF Before
  <2>3. todo' = Listed'
    <3>1. "exit" \notin failed'
      BY <1>4 DEF Quiet
    <3>2. Listed' = IF "untracked" \in Shows THEN Untracked(Now) ELSE {}
      BY <1>1, <1>3 DEF Listed
    <3>3. "untracked" \in Shows <=> Wants(request, "untracked")
      BY <1>2, WantsIsShows
    <3> QED
      BY <2>1, <3>1, <3>2, <3>3 DEF ListUntracked
  <2>4. {Entry(Now, n) : n \in Listed \ todo}' = {}
    BY <2>3
  <2> QED
    BY <1>1, <1>3, <2>1, <2>2, <2>3, <2>4
<1> QED
  BY <1>1, <1>2, <1>4 DEF Exact

(* A name that can be resolved is not in quotes.                           *)
LEMMA ResolveExact ==
  ASSUME IndInv, Exact, NEW n \in Names, Resolve(n)
  PROVE  Exact'
<1>1. /\ Rest /\ phase = "resolve" /\ n \in todo
      /\ found' = found /\ todo' = todo
  BY DEF Resolve, At
<1>2. request.kind = "diff" /\ request \in Requests
  BY <1>1 DEF IndInv, Routed
<1>3. Now' = Now /\ request' = request /\ Shows' = Shows /\ (Quiet' => Quiet)
  <2>1. failed \subseteq failed'
    BY DEF Resolve, Refused
  <2> QED
    BY <1>1, <2>1, RestExact
<1>4. CASE n \notin Quoted /\ Go("read") /\ at' = n /\ failed' = failed
  <2>1. phase' = "read" /\ at' = n /\ n \notin Quoted
    BY <1>4 DEF Go
  <2>2. Before' = Before /\ Listed' = Listed
    BY <1>1, <1>3, <2>1 DEF Before, Listed
  <2>3. /\ Blurs(Now, found)' = Blurs(Now, found)
        /\ Blurs(Now, PlainOnes(Claimed(Now, Shows \cap Before)))'
             = Blurs(Now, PlainOnes(Claimed(Now, Shows \cap Before)))
        /\ {Entry(Now, m) : m \in Listed \ todo}'
             = {Entry(Now, m) : m \in Listed \ todo}
    BY <1>1, <1>3, <2>2
  <2> QED
    BY <1>1, <1>2, <1>3, <2>1, <2>2, <2>3 DEF Exact
<1>5. CASE Answer(500, {})
  BY <1>5 DEF Answer, Exact
<1> QED
  BY <1>4, <1>5 DEF Resolve

(* A name that was read has its entry.                                     *)
LEMMA ReadUntrackedExact == IndInv /\ Exact /\ ReadUntracked => Exact'
<1> SUFFICES ASSUME IndInv, Exact, ReadUntracked PROVE Exact'
  OBVIOUS
<1> DEFINE c == Change(at, None, "untracked", Shown(work[at]), "untracked")
<1>0. CASE failed' # {}
  BY <1>0 DEF ReadUntracked, At, Go, Exact, Quiet, Rest, IndInv, Routed
<1>a. SUFFICES ASSUME failed' = {} PROVE Exact'
  BY <1>0
<1>1. /\ Rest /\ phase = "read" /\ phase' = "resolve" /\ failed' = failed
      /\ found' = found \union {c} /\ todo' = todo \ {at} /\ at' = None
  BY <1>a DEF ReadUntracked, Refused, At, Go
<1>2. /\ request.kind = "diff" /\ request \in Requests
      /\ at # None /\ at \in todo /\ at \in Names /\ work \in Trees
  BY <1>1, NoneAssumption DEF IndInv, Routed, TypeOK, Collected
<1>3. Now' = Now /\ request' = request /\ Shows' = Shows /\ (Quiet' => Quiet)
  BY <1>1, RestExact
<1>4. SUFFICES ASSUME Quiet
      PROVE  /\ Blurs(Now, found') =
                  Blurs(Now, PlainOnes(Claimed(Now, Shows \cap Before)))
                    \union {Entry(Now, n) : n \in Listed \ todo'}
             /\ todo' \subseteq Listed /\ (Listed \ todo') \cap Quoted = {}
  <2>1. Before' = Before /\ Listed' = Listed
    BY <1>1, <1>3 DEF Before, Listed
  <2>2. Quiet' => /\ Blurs(Now, found)' =
                       Blurs(Now, PlainOnes(Claimed(Now, Shows \cap Before)))'
                         \union {Entry(Now, n) : n \in Listed \ todo}'
                  /\ todo' \subseteq Listed' /\ (Listed' \ todo') \cap Quoted = {}
    BY <1>3, <1>4, <2>1
  <2> QED
    BY <1>1, <1>2, <2>2 DEF Exact
<1>5. /\ Blurs(Now, found) =
           Blurs(Now, PlainOnes(Claimed(Now, Shows \cap Before)))
             \union {Entry(Now, n) : n \in Listed \ todo}
      /\ todo \subseteq Listed /\ (Listed \ todo) \cap Quoted = {} /\ at \notin Quoted
  BY <1>1, <1>2, <1>4 DEF Exact
<1>6. Listed \ todo' = (Listed \ todo) \union {at}
  BY <1>1, <1>2, <1>5
<1>7. Blur(Now, c) = Entry(Now, at)
  <2>1. at \in Untracked(Now)
    BY <1>2, <1>5 DEF Listed
  <2>2. work[at] \in Versions /\ Now.work = work
    BY <1>2, <2>1 DEF Untracked, In, Now, Trees
  <2>3. Shown(work[at]) = IF Now.work[at] \in Big THEN None ELSE Now.work[at]
    BY <2>2 DEF Shown
  <2> QED
    BY <2>3 DEF Entry
<1>8. Blurs(Now, found') = Blurs(Now, found) \union {Entry(Now, at)}
  <2> HIDE DEF c
  <2> QED
    BY <1>1, <1>7 DEF Blurs
<1> QED
  BY <1>1, <1>5, <1>6, <1>8

(* The reply is all that was collected.                                    *)
LEMMA ReplyDiffExact == IndInv /\ Exact /\ ReplyDiff => Exact'
<1> SUFFICES ASSUME IndInv, Exact, ReplyDiff PROVE Exact'
  OBVIOUS
<1>1. /\ Rest /\ phase = "resolve" /\ phase' = "done" /\ todo = {} /\ todo' = {}
      /\ reply' = [status |-> 200, body |-> found]
      /\ failed' = failed /\ at' = at /\ found' = found
  BY DEF ReplyDiff, At, Answer
<1>2. request.kind = "diff" /\ at = None
  BY <1>1 DEF IndInv, Routed, TypeOK
<1>3. Now' = Now /\ request' = request /\ Shows' = Shows /\ (Quiet' => Quiet)
  BY <1>1, RestExact
<1>4. Before' = Before /\ Listed' = Listed
  BY <1>1, <1>3 DEF Before, Listed
<1> QED
  BY <1>1, <1>2, <1>3, <1>4 DEF Exact

(* The rest are of other requests, or end in an error.                     *)
LEMMA OthersExact ==
  IndInv /\ Exact /\ (GitWontRun \/ ListTree \/ AddUntracked
                      \/ ShowFile \/ ResolveFile \/ IsFile \/ ReadFile) => Exact'
<1> SUFFICES ASSUME IndInv, Exact
             PROVE  GitWontRun \/ ListTree \/ AddUntracked
                      \/ ShowFile \/ ResolveFile \/ IsFile \/ ReadFile => Exact'
  OBVIOUS
<1>1. ASSUME GitWontRun PROVE Exact'
  BY <1>1 DEF GitWontRun, Answer, Exact
<1>2. ASSUME ListTree \/ AddUntracked \/ ShowFile \/ ResolveFile \/ IsFile \/ ReadFile
      PROVE  Exact'
  <2>1. phase \in {"tree", "others", "show", "path", "is_file", "file"} /\ Rest
    BY <1>2 DEF ListTree, AddUntracked, ShowFile, ResolveFile, IsFile, ReadFile, At
  <2>2. request.kind # "diff" /\ request' = request
    BY <2>1, Resting DEF IndInv, Routed
  <2> QED
    BY <2>2 DEF Exact
<1> QED
  BY <1>1, <1>2

(* The invariant of diffs in a repository at rest.                         *)
THEOREM ExactHolds == Spec => []Exact
<1>1. IndInv /\ Exact /\ [Next]_vars => Exact'
  <2> SUFFICES ASSUME IndInv, Exact, [Next]_vars PROVE Exact'
    OBVIOUS
  <2>1. CASE Work
    BY <2>1, WorkExact
  <2>2. CASE Handle
    BY <2>2, OpenDirectoryExact, DiffsExact, ListUntrackedExact, ResolveExact,
       ReadUntrackedExact, ReplyDiffExact, OthersExact DEF Handle
  <2>3. CASE UNCHANGED vars
    <3>1. /\ Now' = Now /\ moments' = moments /\ failed' = failed
          /\ request' = request /\ phase' = phase /\ at' = at /\ found' = found
          /\ todo' = todo /\ reply' = reply
      BY <2>3 DEF vars, repoVars, handlerVars, Now
    <3>2. Shows' = Shows /\ Before' = Before
      BY <3>1 DEF Shows, Selected, Before
    <3>3. Listed' = Listed
      BY <3>1, <3>2 DEF Listed
    <3>4. Quiet' => Quiet
      BY <3>1 DEF Quiet
    <3>5. /\ Blurs(Now, found)' = Blurs(Now, found)
          /\ Blurs(Now, PlainOnes(Claimed(Now, Shows \cap Before)))'
               = Blurs(Now, PlainOnes(Claimed(Now, Shows \cap Before)))
          /\ {Entry(Now, n) : n \in Listed \ todo}'
               = {Entry(Now, n) : n \in Listed \ todo}
      BY <3>1, <3>2, <3>3
    <3> QED
      BY <3>1, <3>3, <3>4, <3>5 DEF Exact
  <2> QED
    BY <2>1, <2>2, <2>3 DEF Next
<1> QED
  BY InitExact, IndInvHolds, <1>1, PTL DEF Spec

(* There are finitely many moments, so one of them is now.                 *)
LEMMA FiniteMoments == Spec => []IsFiniteSet(moments)
<1>1. Init => IsFiniteSet(moments)
  BY FS_Singleton DEF Init
<1>2. IsFiniteSet(moments) /\ [Next]_vars => IsFiniteSet(moments)'
  <2>1. [Next]_vars => moments' = moments \/ moments' = moments \union {Now'}
    BY DEF Next, Handle, Work, Add, Write, Commit, Meanwhile, vars, repoVars, Rest,
      OpenDirectory, GitWontRun, AgainstCommit, Staged, Unstaged, Collect,
      ListUntracked, Resolve, ReadUntracked, ReplyDiff, ListTree, AddUntracked,
      ShowFile, ResolveFile, IsFile, ReadFile
  <2> QED
    BY <2>1, FS_AddElement
<1> QED
  BY <1>1, <1>2, PTL DEF Spec

(* While nothing happens in the repository, everything in a diff is claimed*)
(* of it in the scopes asked for, and every claim is in it but of a name in*)
(* quotes (diff.rs:50-97, gateway.rs:203-218).                             *)
THEOREM QuietExact == Spec => []QuietIsExact
<1>1. IndInv /\ Exact /\ IsFiniteSet(moments) => QuietIsExact
  <2> SUFFICES ASSUME IndInv, Exact, IsFiniteSet(moments), QuietDiff
               PROVE  Blurs(Now, reply.body) = Blurs(Now, PlainOnes(Claimed(Now, Shows)))
    BY DEF QuietIsExact, Blurs, PlainOnes, Claimed
  <2> USE DEF QuietDiff
  <2>1. moments = {Now}
    <3>1. PICK r : moments = {r}
      BY FS_Singleton
    <3> QED
      BY <3>1 DEF IndInv
  <2>2. phase = "done" /\ request \in Requests
    BY DEF IndInv, Routed
  <2>3. /\ reply.body = found /\ todo = {} /\ Listed \cap Quoted = {}
        /\ Blurs(Now, found) = Blurs(Now, PlainOnes(Claimed(Now, Shows \cap Before)))
                                 \union {Entry(Now, n) : n \in Listed}
    <3>1. Quiet
      BY <2>1 DEF Quiet
    <3>2. /\ reply.body = found /\ todo = {} /\ (Listed \ todo) \cap Quoted = {}
          /\ Blurs(Now, found) = Blurs(Now, PlainOnes(Claimed(Now, Shows \cap Before)))
                                   \union {Entry(Now, n) : n \in Listed \ todo}
      BY <2>2, <3>1 DEF Exact
    <3>3. Listed \ todo = Listed
      BY <3>2
    <3> QED
      BY <3>2, <3>3
  <2>4. Before = {"commit", "staged", "unstaged"}
    BY <2>2 DEF Before
  <2>5. Shows \subseteq {"commit", "staged", "unstaged", "untracked"}
    BY <2>2, WantsIsShows
  <2>6. CASE "untracked" \in Shows
    <3>1. Shows = (Shows \cap Before) \union {"untracked"} /\ Listed = Untracked(Now)
      <4>1. Listed = Untracked(Now)
        BY <2>2, <2>6 DEF Listed
      <4>2. \A s \in Shows : s \in Before \/ s = "untracked"
        BY <2>4, <2>5
      <4> QED
        BY <2>6, <4>1, <4>2
    <3>2. Blurs(Now, PlainOnes(ClaimsOf("untracked", Now)))
            = {Entry(Now, n) : n \in Untracked(Now)}
      <4>1. Untracked(Now) =
              {m \in Names \ Ignored : Now.work[m] # Absent /\ Now.index[m] = Absent}
        BY DEF Untracked, In
      <4>2. ClaimsOf("untracked", Now) =
              {Change(n, None, "untracked", IF Now.work[n] \in Big THEN None
                                            ELSE Now.work[n], "untracked") :
                 n \in Untracked(Now)}
        BY <4>1 DEF ClaimsOf
      <4>3. \A c \in ClaimsOf("untracked", Now) : Plain(c)
        <5>1. \A n \in Untracked(Now) : n \notin Quoted /\ n \in Names
          BY <2>3, <3>1, <4>1
        <5>2. None \notin Quoted
          BY NamesAssumption, NoneAssumption
        <5> QED
          BY <4>2, <5>1, <5>2 DEF Plain, Change
      <4>4. PlainOnes(ClaimsOf("untracked", Now)) = ClaimsOf("untracked", Now)
        BY <4>3 DEF PlainOnes
      <4> QED
        BY <4>2, <4>4 DEF Blurs, Entry
    <3> QED
      BY <2>3, <3>1, <3>2, ClaimsAddUp
  <2>7. CASE "untracked" \notin Shows
    <3>1. Shows = Shows \cap Before /\ Listed = {}
      <4>1. Listed = {}
        BY <2>7 DEF Listed
      <4>2. \A s \in Shows : s \in Before
        BY <2>4, <2>5, <2>7
      <4> QED
        BY <4>1, <4>2
    <3>2. {Entry(Now, n) : n \in Listed} = {}
      BY <3>1
    <3> QED
      BY <2>3, <3>1, <3>2
  <2> QED
    BY <2>6, <2>7
<1> QED
  BY IndInvHolds, ExactHolds, FiniteMoments, <1>1, PTL
=============================================================================
