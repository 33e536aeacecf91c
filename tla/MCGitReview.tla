---- MODULE MCGitReview ----
(* Instances of GitReview for TLC. *)
EXTENDS GitReview

CONSTANTS a, b, q, g, l, v1, v2

(* Every repository of two plain names, one of which only has a short text;*)
(* beside a clean one, an untracked name in quotes, an ignored one or a    *)
(* link; and a name in quotes or a link that is committed, staged or moved *)
(* to or from a plain name.                                                *)
PlainNames == {a, b}
TwoNames == {f \in [PlainNames -> Versions \union {Absent}] : f[b] # v2}

Only(n, v) == [m \in Names |-> IF m = n THEN v ELSE Absent]
With(tree, n, v) ==
  [Only(n, v) EXCEPT ![a] = tree[a], ![b] = tree[b]]
Plainly(tree) == With(tree, q, Absent)

SmallRepos ==
  {[head |-> Plainly(h), index |-> Plainly(i), work |-> Plainly(w)] :
     h, i, w \in TwoNames}
  \union
  {[head |-> Plainly(h), index |-> Plainly(h), work |-> With(h, n, v1)] :
     h \in TwoNames, n \in {q, g, l}}
  \union
  {[head |-> Only(m, v1), index |-> Only(n, v), work |-> Only(n, v)] :
     m, n \in {a, q, l}, v \in Versions}

(* All scopes, one at a time, all but one, or a commit with all or one of  *)
(* them; every way to browse.                                              *)
NoScope == [s \in Scopes |-> None]
ScopeChoices ==
  {NoScope} \union {[NoScope EXCEPT ![s] = TRUE] : s \in Scopes}
    \union {[s \in Scopes |-> s # "untracked"]}

FewRequests ==
  {r \in DiffRequests :
     \/ r.dir = "root" /\ r.scopes \in ScopeChoices /\ r.commit = None
     \/ r.dir = "root" /\ r.scopes = [NoScope EXCEPT !["unstaged"] = TRUE]
        /\ r.commit = "HEAD"
     \/ r.scopes = NoScope /\ (r.dir # "root" => r.commit = None)}
  \union {r \in BrowseRequests : r.file \in {a, l}
                                 /\ (r.dir # "root" => r.commit = None)}
  \union {r \in ListRequests : r.dir # "root" => r.commit = None}

(* The agent only adds plain names to the work tree; a name in quotes, an  *)
(* ignored one or a link is there when the request comes in, if at all.    *)
PlainAdditions ==
  \A n \in Names \ PlainNames : work[n] = Absent => work'[n] = Absent
====
