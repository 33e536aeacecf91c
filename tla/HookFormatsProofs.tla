------------------------- MODULE HookFormatsProofs -------------------------
(***************************************************************************)
(* What the operators of HookFormats do to a settings file, for any file,  *)
(* any path of the binary, any hooks of the user's and any other settings. *)
(*                                                                         *)
(* Lists are reasoned about by induction on their last entry (SeqInd), and *)
(* recursive functions by their steps.  Objects are told by the set of     *)
(* their keyed values, except where their order is what is proved: that    *)
(* uninstall gives back the file install found (StripInstalled), and that  *)
(* a second install makes what the first made (InstallOverAnother).        *)
(***************************************************************************)
EXTENDS HookFormats, SequenceTheorems, WellFoundedInduction, TLAPS

-----------------------------------------------------------------------------
(* Induction and recursion.                                                *)

(* Induction over the natural numbers, as a set closed under successor. *)
LEMMA NatInd ==
  ASSUME NEW S, 0 \in S, \A n \in Nat : n \in S => n + 1 \in S
  PROVE  Nat \subseteq S
  <1> DEFINE R == OpToRel(<, Nat)
             T == Nat \ S
  <1>1. \A x, y \in Nat : x < y => <<x, y>> \in R
    BY DEF OpToRel
  <1>2. SUFFICES ASSUME T # {} PROVE FALSE
    OBVIOUS
  <1>3. IsWellFoundedOn(R, Nat)
    BY NatLessThanWellFounded
  <1>4. PICK x \in T : \A y \in T : ~(<<y, x>> \in R)
    <2> HIDE DEF R
    <2>1. T \subseteq Nat
      OBVIOUS
    <2> HIDE DEF T
    <2> QED
      BY <1>2, <1>3, <2>1, WFMin
  <1>5. x # 0 /\ x \in Nat
    OBVIOUS
  <1>6. x - 1 \in Nat /\ x - 1 < x
    BY <1>5
  <1>7. x - 1 \notin T
    BY <1>6, <1>1, <1>4, <1>5
  <1>8. x - 1 \in S
    BY <1>6, <1>7
  <1> QED
    BY <1>8, <1>6, <1>5, (x - 1) + 1 = x

(* Every list is empty or a list with one more at its end. *)
LEMMA SeqInd ==
  ASSUME NEW D, NEW S, <<>> \in S,
         \A s \in Seq(D), x \in D : s \in S => Append(s, x) \in S
  PROVE  Seq(D) \subseteq S
  <1> DEFINE Short == {n \in Nat : \A s \in Seq(D) : Len(s) = n => s \in S}
  <1>1. 0 \in Short
    <2>1. \A s \in Seq(D) : Len(s) = 0 => s = <<>>
      BY EmptySeq
    <2> QED
      BY <2>1
  <1>2. ASSUME NEW n \in Nat, n \in Short PROVE n + 1 \in Short
    <2>1. SUFFICES ASSUME NEW s \in Seq(D), Len(s) = n + 1 PROVE s \in S
      OBVIOUS
    <2>2. s # <<>>
      BY <2>1
    <2>3. PICK t \in Seq(D), x \in D : s = Append(t, x)
      BY <2>2, SequenceEmptyOrAppend
    <2>4. Len(t) = n
      BY <2>1, <2>3
    <2> QED
      BY <1>2, <2>3, <2>4
  <1>3. Nat \subseteq Short
    <2> HIDE DEF Short
    <2> QED
      BY <1>1, <1>2, NatInd
  <1> QED
    BY <1>3

(* f takes n steps from b. *)
Run(f, b, step, n) == f[0] = b /\ \A i \in 1..n : f[i] = step[i][f[i - 1]]

(* A definition by recursion on 0..n defines a function. *)
LEMMA RecExists ==
  ASSUME NEW D, NEW b \in D, NEW n \in Nat, NEW step \in [1..n -> [D -> D]]
  PROVE  \E f \in [0..n -> D] : Run(f, b, step, n)
  <1> DEFINE S == {k \in Nat : k <= n => \E f \in [0..k -> D] : Run(f, b, step, k)}
  <1>1. 0 \in S
    <2>1. [i \in 0..0 |-> b] \in [0..0 -> D] /\ Run([i \in 0..0 |-> b], b, step, 0)
      BY DEF Run
    <2> QED
      BY <2>1
  <1>2. ASSUME NEW k \in Nat, k \in S PROVE k + 1 \in S
    <2>1. SUFFICES ASSUME k + 1 <= n
                   PROVE \E f \in [0..(k + 1) -> D] : Run(f, b, step, k + 1)
      OBVIOUS
    <2>2. PICK g \in [0..k -> D] : Run(g, b, step, k)
      BY <1>2, <2>1
    <2> DEFINE last == step[k + 1][g[k]]
               f == [i \in 0..(k + 1) |-> IF i = k + 1 THEN last ELSE g[i]]
    <2>3. last \in D
      BY <2>1
    <2>4. f \in [0..(k + 1) -> D]
      BY <2>3
    <2>5. f[0] = b
      BY <2>2 DEF Run
    <2>6. ASSUME NEW i \in 1..(k + 1) PROVE f[i] = step[i][f[i - 1]]
      <3>1. CASE i = k + 1
        <4>1. i - 1 = k /\ f[k] = g[k] /\ f[k + 1] = last
          BY <3>1
        <4> HIDE DEF f
        <4> QED
          BY <3>1, <4>1
      <3>2. CASE i # k + 1
        <4>1. i \in 1..k /\ i - 1 \in 0..k /\ i - 1 # k + 1
          BY <3>2
        <4>2. f[i] = g[i] /\ f[i - 1] = g[i - 1]
          BY <4>1, <3>2
        <4> HIDE DEF f
        <4> QED
          BY <2>2, <4>1, <4>2 DEF Run
      <3> QED
        BY <3>1, <3>2
    <2>7. Run(f, b, step, k + 1)
      BY <2>5, <2>6 DEF Run
    <2> QED
      BY <2>4, <2>7
  <1>3. n \in S
    <2> HIDE DEF S
    <2> QED
      BY <1>1, <1>2, NatInd
  <1> QED
    BY <1>3

(* Two functions that take the same n steps end alike. *)
SameSteps(f, g, n) ==
  f[0] = g[0] /\ \A i \in 1..n : f[i - 1] = g[i - 1] => f[i] = g[i]

(* By induction on the number of steps. *)
LEMMA RecUnique ==
  ASSUME NEW f, NEW g, NEW n \in Nat, SameSteps(f, g, n)
  PROVE  \A i \in 0..n : f[i] = g[i]
  <1> DEFINE S == {k \in Nat : k <= n => f[k] = g[k]}
  <1>1. 0 \in S
    BY DEF SameSteps
  <1>2. ASSUME NEW k \in Nat, k \in S PROVE k + 1 \in S
    <2>1. SUFFICES ASSUME k + 1 <= n PROVE f[k + 1] = g[k + 1]
      OBVIOUS
    <2>2. k + 1 \in 1..n /\ (k + 1) - 1 = k /\ f[k] = g[k]
      BY <1>2, <2>1
    <2> QED
      BY <2>2 DEF SameSteps
  <1>3. Nat \subseteq S
    <2> HIDE DEF S
    <2> QED
      BY <1>1, <1>2, NatInd
  <1> QED
    BY <1>3

-----------------------------------------------------------------------------
(* Sublist.                                                                *)

(* What it keeps of the first entries. *)
KeepStep(s, S, kept, n) ==
  IF s[n] \in S THEN Append(kept, s[n]) ELSE kept
IsKept(s, S, f) ==
  f = [n \in 0..Len(s) |-> IF n = 0 THEN <<>> ELSE KeepStep(s, S, f[n - 1], n)]
Kept(s, S) == CHOOSE f : IsKept(s, S, f)

(* Sublist is the last step of the recursion that defines it. *)
LEMMA SublistIsKept ==
  ASSUME NEW s, NEW S
  PROVE  Sublist(s, S) = Kept(s, S)[Len(s)]
  BY DEF Sublist, Kept, IsKept, KeepStep

(* The steps of that recursion, and their type. *)
LEMMA KeptSteps ==
  ASSUME NEW D, NEW s \in Seq(D), NEW S
  PROVE  /\ Kept(s, S)[0] = <<>>
         /\ \A n \in 1..Len(s) : Kept(s, S)[n] = KeepStep(s, S, Kept(s, S)[n - 1], n)
         /\ \A n \in 0..Len(s) : Kept(s, S)[n] \in Seq(D)
  <1> DEFINE N == Len(s)
             step == [n \in 1..N |-> [k \in Seq(D) |-> KeepStep(s, S, k, n)]]
  <1>1. N \in Nat /\ <<>> \in Seq(D)
    OBVIOUS
  <1>2. step \in [1..N -> [Seq(D) -> Seq(D)]]
    BY DEF KeepStep
  <1>3. PICK f \in [0..N -> Seq(D)] : Run(f, <<>>, step, N)
    <2> HIDE DEF step, N
    <2> QED
      BY <1>1, <1>2, RecExists
  <1>4. ASSUME NEW n \in 0..N
        PROVE  f[n] = IF n = 0 THEN <<>> ELSE KeepStep(s, S, f[n - 1], n)
    <2>1. CASE n = 0
      BY <1>3, <2>1 DEF Run
    <2>2. CASE n # 0
      <3>1. n \in 1..N /\ f[n - 1] \in Seq(D)
        BY <1>1, <2>2
      <3>2. f[n] = step[n][f[n - 1]]
        BY <1>3, <3>1 DEF Run
      <3> QED
        BY <2>2, <3>1, <3>2
    <2> QED
      BY <2>1, <2>2
  <1>5. f = [n \in 0..N |-> IF n = 0 THEN <<>> ELSE KeepStep(s, S, f[n - 1], n)]
    BY <1>4
  <1>6. IsKept(s, S, Kept(s, S))
    BY <1>5 DEF Kept, IsKept
  <1>7. SameSteps(Kept(s, S), f, N)
    BY <1>1, <1>4, <1>6 DEF IsKept, SameSteps
  <1>8. \A n \in 0..N : Kept(s, S)[n] = f[n]
    <2> HIDE DEF N
    <2> QED
      BY <1>1, <1>7, RecUnique
  <1>9. ASSUME NEW n \in 1..N
        PROVE  Kept(s, S)[n] = KeepStep(s, S, Kept(s, S)[n - 1], n)
    <2>1. n \in 0..N /\ n - 1 \in 0..N /\ n # 0
      BY <1>1
    <2> QED
      BY <1>4, <1>8, <2>1
  <1>10. Kept(s, S)[0] = <<>>
    BY <1>1, <1>4, <1>8
  <1> QED
    BY <1>8, <1>9, <1>10

(* A sublist is a list of the same kind. *)
LEMMA SublistType ==
  ASSUME NEW D, NEW s \in Seq(D), NEW S
  PROVE  Sublist(s, S) \in Seq(D)
  <1>1. Len(s) \in 0..Len(s)
    OBVIOUS
  <1> QED
    BY <1>1, SublistIsKept, KeptSteps

(* Nothing is kept of the empty list. *)
LEMMA SublistEmpty ==
  ASSUME NEW S
  PROVE  Sublist(<<>>, S) = <<>>
  <1> DEFINE s == <<>>
  <1>1. s \in Seq({}) /\ Len(s) = 0
    OBVIOUS
  <1>2. Sublist(s, S) = <<>>
    <2> HIDE DEF s
    <2> QED
      BY <1>1, SublistIsKept, KeptSteps
  <1> QED
    BY <1>2

(* A last entry is kept or not, whatever came before it. *)
LEMMA SublistAppend ==
  ASSUME NEW D, NEW s \in Seq(D), NEW x \in D, NEW S
  PROVE  Sublist(Append(s, x), S) =
           IF x \in S THEN Append(Sublist(s, S), x) ELSE Sublist(s, S)
  <1> DEFINE t == Append(s, x)
             N == Len(s)
             f == Kept(s, S)
             g == Kept(t, S)
  <1>1. t \in Seq(D) /\ Len(t) = N + 1 /\ t[N + 1] = x /\ N \in Nat
        /\ \A n \in 1..N : t[n] = s[n]
    OBVIOUS
  <1>2. f[0] = <<>> /\ \A n \in 1..N : f[n] = KeepStep(s, S, f[n - 1], n)
    BY KeptSteps
  <1>3. g[0] = <<>> /\ \A n \in 1..(N + 1) : g[n] = KeepStep(t, S, g[n - 1], n)
    <2> HIDE DEF t
    <2> QED
      BY <1>1, KeptSteps
  <1>4. SameSteps(f, g, N)
    <2> HIDE DEF f, g, t
    <2> QED
      BY <1>1, <1>2, <1>3 DEF SameSteps, KeepStep
  <1>5. f[N] = g[N]
    <2> HIDE DEF f, g, t, N
    <2> QED
      BY <1>1, <1>4, RecUnique
  <1>6. g[N + 1] = KeepStep(t, S, g[N], N + 1)
    <2> HIDE DEF f, g, t
    <2>1. N + 1 \in 1..(N + 1) /\ (N + 1) - 1 = N
      BY <1>1
    <2> QED
      BY <1>3, <2>1
  <1>7. Sublist(s, S) = f[N] /\ Sublist(t, S) = g[N + 1]
    BY <1>1, SublistIsKept
  <1> QED
    <2> HIDE DEF f, g, t
    <2>1. Sublist(t, S) = IF x \in S THEN Append(Sublist(s, S), x) ELSE Sublist(s, S)
      BY <1>1, <1>5, <1>6, <1>7 DEF KeepStep
    <2> QED
      BY <2>1 DEF t
(* A list without members is empty. *)
LEMMA NoMembers ==
  ASSUME NEW D, NEW s \in Seq(D), ToSet(s) = {}
  PROVE  s = <<>>
  <1>1. Len(s) \in Nat /\ DOMAIN s = 1..Len(s)
    OBVIOUS
  <1>2. SUFFICES ASSUME s # <<>> PROVE FALSE
    OBVIOUS
  <1>3. 1 \in DOMAIN s
    BY <1>1, <1>2, EmptySeq
  <1> QED
    BY <1>3 DEF ToSet

(* What a longer list holds. *)
LEMMA AppendToSet ==
  ASSUME NEW D, NEW s \in Seq(D), NEW x
  PROVE  ToSet(Append(s, x)) = ToSet(s) \union {x}
  <1>1. Append(s, x)[Len(s) + 1] = x /\ Len(s) + 1 \in DOMAIN Append(s, x)
    OBVIOUS
  <1>2. \A i \in DOMAIN s : i \in DOMAIN Append(s, x) /\ Append(s, x)[i] = s[i]
    OBVIOUS
  <1>3. \A i \in DOMAIN Append(s, x) : i \in DOMAIN s \/ i = Len(s) + 1
    OBVIOUS
  <1> QED
    BY <1>1, <1>2, <1>3 DEF ToSet

(* What is kept is in S, and what is in S is kept. *)
LEMMA SublistKeeps ==
  ASSUME NEW D, NEW S
  PROVE  \A s \in Seq(D) : /\ Sublist(s, S) \in Seq(S)
                           /\ ToSet(Sublist(s, S)) = ToSet(s) \intersect S
  <1> DEFINE Good == {s \in Seq(D) : /\ Sublist(s, S) \in Seq(S)
                                     /\ ToSet(Sublist(s, S)) = ToSet(s) \intersect S}
  <1>1. <<>> \in Good
    <2>1. ToSet(<<>>) = {} /\ <<>> \in Seq(S) /\ <<>> \in Seq(D)
      BY DEF ToSet
    <2>2. /\ Sublist(<<>>, S) \in Seq(S)
          /\ ToSet(Sublist(<<>>, S)) = ToSet(<<>>) \intersect S
      BY <2>1, SublistEmpty
    <2> QED
      BY <2>1, <2>2
  <1>2. ASSUME NEW s \in Seq(D), NEW x \in D, s \in Good PROVE Append(s, x) \in Good
    <2>1. Append(s, x) \in Seq(D)
      OBVIOUS
    <2>2. Sublist(Append(s, x), S) =
             IF x \in S THEN Append(Sublist(s, S), x) ELSE Sublist(s, S)
      BY SublistAppend
    <2>3. ToSet(Append(s, x)) = ToSet(s) \union {x}
      BY AppendToSet
    <2>4. Sublist(s, S) \in Seq(S) /\ ToSet(Sublist(s, S)) = ToSet(s) \intersect S
      BY <1>2
    <2>5. ToSet(Append(Sublist(s, S), x)) = ToSet(Sublist(s, S)) \union {x}
      BY <2>4, AppendToSet
    <2>6. /\ Sublist(Append(s, x), S) \in Seq(S)
          /\ ToSet(Sublist(Append(s, x), S)) = ToSet(Append(s, x)) \intersect S
      <3>1. CASE x \in S
        BY <2>2, <2>3, <2>4, <2>5, <3>1
      <3>2. CASE x \notin S
        BY <2>2, <2>3, <2>4, <3>2
      <3> QED
        BY <3>1, <3>2
    <2> QED
      BY <2>1, <2>6
  <1> HIDE DEF Good
  <1>3. Seq(D) \subseteq Good
    BY <1>1, <1>2, SeqInd
  <1> QED
    BY <1>3 DEF Good

(* A list is kept whole when all of it is in S. *)
LEMMA SublistOfAll ==
  ASSUME NEW S
  PROVE  \A s \in Seq(S) : Sublist(s, S) = s
  <1> DEFINE Good == {s \in Seq(S) : Sublist(s, S) = s}
  <1>1. <<>> \in Good
    BY SublistEmpty
  <1>2. ASSUME NEW s \in Seq(S), NEW x \in S, s \in Good PROVE Append(s, x) \in Good
    <2>1. Sublist(Append(s, x), S) = Append(Sublist(s, S), x)
      BY SublistAppend
    <2> QED
      BY <1>2, <2>1
  <1> HIDE DEF Good
  <1>3. Seq(S) \subseteq Good
    BY <1>1, <1>2, SeqInd
  <1> QED
    BY <1>3 DEF Good

(* Keeping entries of two lists one after the other. *)
LEMMA SublistConcat ==
  ASSUME NEW D, NEW S, NEW s \in Seq(D)
  PROVE  \A t \in Seq(D) : Sublist(s \o t, S) = Sublist(s, S) \o Sublist(t, S)
  <1> DEFINE Good == {t \in Seq(D) : Sublist(s \o t, S) = Sublist(s, S) \o Sublist(t, S)}
             r == Sublist(s, S)
  <1>0. r \in Seq(D)
    BY SublistType
  <1>1. <<>> \in Good
    <2>1. s \o <<>> = s /\ r \o <<>> = r
      BY <1>0, ConcatEmptySeq
    <2>2. Sublist(s \o <<>>, S) = r \o Sublist(<<>>, S)
      BY <2>1, SublistEmpty
    <2>3. <<>> \in Seq(D)
      OBVIOUS
    <2> QED
      BY <2>2, <2>3
  <1>2. ASSUME NEW t \in Seq(D), NEW x \in D, t \in Good PROVE Append(t, x) \in Good
    <2> DEFINE q == Sublist(t, S)
    <2>1. q \in Seq(D)
      BY SublistType
    <2>2. s \o t \in Seq(D) /\ s \o Append(t, x) = Append(s \o t, x)
      OBVIOUS
    <2>3. Sublist(Append(s \o t, x), S) =
            IF x \in S THEN Append(Sublist(s \o t, S), x) ELSE Sublist(s \o t, S)
      <3> DEFINE st == s \o t
      <3>1. st \in Seq(D)
        OBVIOUS
      <3> HIDE DEF st
      <3>2. Sublist(Append(st, x), S) = IF x \in S THEN Append(Sublist(st, S), x) ELSE Sublist(st, S)
        BY <3>1, SublistAppend
      <3> QED
        BY <3>2 DEF st
    <2>4. Sublist(Append(t, x), S) = IF x \in S THEN Append(q, x) ELSE q
      BY SublistAppend
    <2>5. r \o Append(q, x) = Append(r \o q, x)
      <3> HIDE DEF r, q
      <3> QED
        BY <1>0, <2>1
    <2>6. Sublist(s \o t, S) = r \o q
      BY <1>2
    <2>7. Sublist(s \o Append(t, x), S) = r \o Sublist(Append(t, x), S)
      <3> HIDE DEF r, q
      <3> QED
        BY <2>2, <2>3, <2>4, <2>5, <2>6
    <2>8. Append(t, x) \in Seq(D)
      OBVIOUS
    <2> QED
      BY <2>7, <2>8
  <1> HIDE DEF Good
  <1>3. Seq(D) \subseteq Good
    BY <1>1, <1>2, SeqInd
  <1> QED
    BY <1>3 DEF Good

-----------------------------------------------------------------------------
(* FlattenSeq.                                                             *)

Cat(k, x) == k \o x
IsFlat(s, f) == f = [i \in 1..Len(s) |-> IF i = 1 THEN s[i] ELSE Cat(f[i - 1], s[i])]
Flat(s) == CHOOSE f : IsFlat(s, f)

(* The same from 0, with the empty list. *)
Flat0(s) == [i \in 0..Len(s) |-> IF i = 0 THEN <<>> ELSE Flat(s)[i]]

(* The steps of FlattenSeq, and their type. *)
LEMMA FlatSteps ==
  ASSUME NEW D, NEW s \in Seq(Seq(D))
  PROVE  /\ Flat0(s)[0] = <<>>
         /\ \A n \in 1..Len(s) : Flat0(s)[n] = Cat(Flat0(s)[n - 1], s[n])
         /\ \A n \in 0..Len(s) : Flat0(s)[n] \in Seq(D)
  <1> DEFINE N == Len(s)
             step == [n \in 1..N |-> [k \in Seq(D) |-> Cat(k, s[n])]]
  <1>1. N \in Nat /\ <<>> \in Seq(D) /\ \A n \in 1..N : s[n] \in Seq(D)
    OBVIOUS
  <1>2. step \in [1..N -> [Seq(D) -> Seq(D)]]
    BY <1>1 DEF Cat
  <1>3. PICK f \in [0..N -> Seq(D)] : Run(f, <<>>, step, N)
    <2> HIDE DEF step, N
    <2> QED
      BY <1>1, <1>2, RecExists
  <1>4. f[0] = <<>>
    BY <1>3 DEF Run
  <1>5. ASSUME NEW n \in 1..N PROVE f[n] = Cat(f[n - 1], s[n])
    <2>1. f[n - 1] \in Seq(D)
      <3>1. N \in Nat
        BY <1>1
      <3> HIDE DEF N
      <3> QED
        BY <3>1
    <2>2. f[n] = step[n][f[n - 1]]
      BY <1>3 DEF Run
    <2> QED
      BY <2>1, <2>2
  <1> DEFINE g == [n \in 1..N |-> f[n]]
  <1>6. ASSUME NEW n \in 1..N PROVE g[n] = IF n = 1 THEN s[n] ELSE Cat(g[n - 1], s[n])
    <2>1. CASE n = 1
      <3>1. f[n] = Cat(<<>>, s[n])
        BY <1>4, <1>5, <2>1
      <3>2. Cat(<<>>, s[n]) = s[n]
        BY <1>1, ConcatEmptySeq DEF Cat
      <3> QED
        BY <2>1, <3>1, <3>2
    <2>2. CASE n # 1
      <3>1. n - 1 \in 1..N /\ g[n - 1] = f[n - 1] /\ g[n] = f[n]
        BY <1>1, <2>2
      <3> QED
        BY <1>5, <2>2, <3>1
    <2> QED
      BY <2>1, <2>2
  <1>7. g = [n \in 1..N |-> IF n = 1 THEN s[n] ELSE Cat(g[n - 1], s[n])]
    BY <1>6
  <1>8. IsFlat(s, Flat(s))
    <2>1. IsFlat(s, g)
      <3> HIDE DEF g
      <3> QED
        BY <1>7 DEF IsFlat
    <2> HIDE DEF g
    <2> QED
      BY <2>1 DEF Flat
  <1>9. ASSUME NEW n \in 1..N PROVE Flat(s)[n] = IF n = 1 THEN s[n] ELSE Cat(Flat(s)[n - 1], s[n])
    BY <1>8 DEF IsFlat
  <1>10. Flat0(s)[0] = <<>> /\ \A n \in 1..N : Flat0(s)[n] = Flat(s)[n]
    BY <1>1 DEF Flat0
  <1>11. ASSUME NEW n \in 1..N, f[n - 1] = Flat0(s)[n - 1] PROVE f[n] = Flat0(s)[n]
    <2>1. CASE n = 1
      <3>1. f[n] = Cat(<<>>, s[n])
        BY <1>4, <1>5, <2>1
      <3>2. Cat(<<>>, s[n]) = s[n]
        BY <1>1, ConcatEmptySeq DEF Cat
      <3> QED
        BY <1>9, <1>10, <2>1, <3>1, <3>2
    <2>2. CASE n # 1
      <3>1. n - 1 \in 1..N
        BY <1>1, <2>2
      <3>2. Flat0(s)[n] = Cat(Flat(s)[n - 1], s[n]) /\ Flat0(s)[n - 1] = Flat(s)[n - 1]
        BY <1>9, <1>10, <2>2, <3>1
      <3> QED
        BY <1>5, <1>11, <3>2
    <2> QED
      BY <2>1, <2>2
  <1>12. SameSteps(f, Flat0(s), N)
    BY <1>4, <1>10, <1>11 DEF SameSteps
  <1>13. \A n \in 0..N : f[n] = Flat0(s)[n]
    <2> HIDE DEF N
    <2> QED
      BY <1>1, <1>12, RecUnique
  <1>14. ASSUME NEW n \in 1..N PROVE Flat0(s)[n] = Cat(Flat0(s)[n - 1], s[n])
    <2>1. n \in 0..N /\ n - 1 \in 0..N
      BY <1>1
    <2> QED
      BY <1>5, <1>13, <2>1
  <1> QED
    BY <1>10, <1>13, <1>14

(* FlattenSeq is the last of them. *)
LEMMA FlattenIsFlat ==
  ASSUME NEW D, NEW s \in Seq(Seq(D))
  PROVE  FlattenSeq(s) = Flat0(s)[Len(s)]
  <1>1. CASE Len(s) = 0
    BY <1>1 DEF FlattenSeq, Flat0
  <1>2. CASE Len(s) # 0
    <2>1. FlattenSeq(s) = Flat(s)[Len(s)]
      BY <1>2 DEF FlattenSeq, Flat, IsFlat, Cat
    <2>2. Len(s) \in 0..Len(s)
      OBVIOUS
    <2> QED
      BY <1>2, <2>1, <2>2 DEF Flat0
  <1> QED
    BY <1>1, <1>2

(* A flattened list of lists is a list. *)
LEMMA FlattenType ==
  ASSUME NEW D, NEW s \in Seq(Seq(D))
  PROVE  FlattenSeq(s) \in Seq(D)
  <1>1. Len(s) \in 0..Len(s)
    OBVIOUS
  <1> QED
    BY <1>1, FlattenIsFlat, FlatSteps

(* One more list comes at the end of the flattened one. *)
LEMMA FlattenAppend ==
  ASSUME NEW D, NEW s \in Seq(Seq(D)), NEW x \in Seq(D)
  PROVE  FlattenSeq(Append(s, x)) = FlattenSeq(s) \o x
  <1> DEFINE t == Append(s, x)
             N == Len(s)
             f == Flat0(s)
             g == Flat0(t)
  <1>1. t \in Seq(Seq(D)) /\ Len(t) = N + 1 /\ t[N + 1] = x /\ N \in Nat
        /\ \A n \in 1..N : t[n] = s[n]
    OBVIOUS
  <1>2. f[0] = <<>> /\ \A n \in 1..N : f[n] = Cat(f[n - 1], s[n])
    BY FlatSteps
  <1>3. g[0] = <<>> /\ \A n \in 1..(N + 1) : g[n] = Cat(g[n - 1], t[n])
    <2> HIDE DEF t
    <2> QED
      BY <1>1, FlatSteps
  <1>4. SameSteps(f, g, N)
    <2> HIDE DEF f, g, t
    <2> QED
      BY <1>1, <1>2, <1>3 DEF SameSteps
  <1>5. f[N] = g[N]
    <2> HIDE DEF f, g, t, N
    <2> QED
      BY <1>1, <1>4, RecUnique
  <1>6. g[N + 1] = Cat(g[N], x)
    <2> HIDE DEF f, g, t
    <2>1. N + 1 \in 1..(N + 1) /\ (N + 1) - 1 = N
      BY <1>1
    <2> QED
      BY <1>1, <1>3, <2>1
  <1>7. FlattenSeq(s) = f[N]
    BY FlattenIsFlat
  <1>8. FlattenSeq(t) = g[N + 1]
    <2> HIDE DEF t
    <2> QED
      BY <1>1, FlattenIsFlat
  <1> QED
    <2> HIDE DEF f, g, t
    <2>1. FlattenSeq(t) = FlattenSeq(s) \o x
      BY <1>5, <1>6, <1>7, <1>8 DEF Cat
    <2> QED
      BY <2>1 DEF t

(* No lists flatten to no entries. *)
LEMMA FlattenEmpty == FlattenSeq(<<>>) = <<>>
  BY DEF FlattenSeq

-----------------------------------------------------------------------------
(* StripGroups.                                                            *)

Left(g) == IF g = Other THEN Other ELSE WithoutOurs(g)
StripStep(rest, g) == IF Left(g) = <<>> THEN rest ELSE Append(rest, Left(g))
IsStripped(s, f) ==
  f = [n \in 0..Len(s) |-> IF n = 0 THEN <<>> ELSE StripStep(f[n - 1], s[n])]
Stripped(s) == CHOOSE f : IsStripped(s, f)

(* StripGroups is the last step of the recursion that defines it. *)
LEMMA StripGroupsIs ==
  ASSUME NEW s
  PROVE  StripGroups(s) = Stripped(s)[Len(s)]
  BY DEF StripGroups, Stripped, IsStripped, StripStep, Left

(* The hooks that are not ours. *)
Foreigns == UserHooks \union {Other}

(* What is left of a list holds nothing of ours. *)
LEMMA WithoutOursType ==
  ASSUME NEW l \in Seq(Hook)
  PROVE  /\ WithoutOurs(l) \in Seq(Foreigns)
         /\ WithoutOurs(l) \in Seq(Hook)
  <1>1. WithoutOurs(l) \in Seq(Foreigns)
    BY SublistKeeps DEF WithoutOurs, Foreigns
  <1>2. Foreigns \subseteq Hook
    BY DEF Foreigns, Hook
  <1> QED
    BY <1>1, <1>2, SeqMonotonic

(* What is left of a group is a group. *)
LEMMA LeftType ==
  ASSUME NEW g \in Group
  PROVE  Left(g) \in Group
  BY WithoutOursType DEF Left, Group

(* The steps of StripGroups, and their type. *)
LEMMA StrippedSteps ==
  ASSUME NEW s \in Seq(Group)
  PROVE  /\ Stripped(s)[0] = <<>>
         /\ \A n \in 1..Len(s) : Stripped(s)[n] = StripStep(Stripped(s)[n - 1], s[n])
         /\ \A n \in 0..Len(s) : Stripped(s)[n] \in Seq(Group)
  <1> DEFINE N == Len(s)
             D == Seq(Group)
             step == [n \in 1..N |-> [k \in D |-> StripStep(k, s[n])]]
  <1>1. N \in Nat /\ <<>> \in D /\ \A n \in 1..N : s[n] \in Group
    OBVIOUS
  <1>2. step \in [1..N -> [D -> D]]
    <2>1. \A n \in 1..N, k \in D : StripStep(k, s[n]) \in D
      BY <1>1, LeftType DEF StripStep
    <2> HIDE DEF D, N
    <2> QED
      BY <2>1
  <1>3. PICK f \in [0..N -> D] : Run(f, <<>>, step, N)
    <2> HIDE DEF step, N, D
    <2> QED
      BY <1>1, <1>2, RecExists
  <1>4. ASSUME NEW n \in 0..N
        PROVE  f[n] = IF n = 0 THEN <<>> ELSE StripStep(f[n - 1], s[n])
    <2>1. CASE n = 0
      BY <1>3, <2>1 DEF Run
    <2>2. CASE n # 0
      <3>1. n \in 1..N /\ f[n - 1] \in D
        BY <1>1, <2>2
      <3>2. f[n] = step[n][f[n - 1]]
        BY <1>3, <3>1 DEF Run
      <3> QED
        BY <2>2, <3>1, <3>2
    <2> QED
      BY <2>1, <2>2
  <1>5. f = [n \in 0..N |-> IF n = 0 THEN <<>> ELSE StripStep(f[n - 1], s[n])]
    BY <1>4
  <1>6. IsStripped(s, Stripped(s))
    BY <1>5 DEF Stripped, IsStripped
  <1>7. SameSteps(Stripped(s), f, N)
    BY <1>1, <1>4, <1>6 DEF IsStripped, SameSteps
  <1>8. \A n \in 0..N : Stripped(s)[n] = f[n]
    <2> HIDE DEF N
    <2> QED
      BY <1>1, <1>7, RecUnique
  <1>9. ASSUME NEW n \in 1..N PROVE Stripped(s)[n] = StripStep(Stripped(s)[n - 1], s[n])
    <2>1. n \in 0..N /\ n - 1 \in 0..N /\ n # 0
      BY <1>1
    <2> QED
      BY <1>4, <1>8, <2>1
  <1>10. Stripped(s)[0] = <<>>
    BY <1>1, <1>4, <1>8
  <1> QED
    BY <1>8, <1>9, <1>10

(* What is left of a list of groups is one. *)
LEMMA StripGroupsType ==
  ASSUME NEW s \in Seq(Group)
  PROVE  StripGroups(s) \in Seq(Group)
  <1>1. Len(s) \in 0..Len(s)
    OBVIOUS
  <1> QED
    BY <1>1, StripGroupsIs, StrippedSteps

(* No groups are left of none. *)
LEMMA StripGroupsEmpty == StripGroups(<<>>) = <<>>
  <1> DEFINE s == <<>>
  <1>1. s \in Seq(Group) /\ Len(s) = 0
    OBVIOUS
  <1>2. StripGroups(s) = <<>>
    <2> HIDE DEF s
    <2> QED
      BY <1>1, StripGroupsIs, StrippedSteps
  <1> QED
    BY <1>2

(* A last group is stripped by itself. *)
LEMMA StripGroupsAppend ==
  ASSUME NEW s \in Seq(Group), NEW x \in Group
  PROVE  StripGroups(Append(s, x)) = StripStep(StripGroups(s), x)
  <1> DEFINE t == Append(s, x)
             N == Len(s)
             f == Stripped(s)
             g == Stripped(t)
  <1>1. t \in Seq(Group) /\ Len(t) = N + 1 /\ t[N + 1] = x /\ N \in Nat
        /\ \A n \in 1..N : t[n] = s[n]
    OBVIOUS
  <1>2. f[0] = <<>> /\ \A n \in 1..N : f[n] = StripStep(f[n - 1], s[n])
    BY StrippedSteps
  <1>3. g[0] = <<>> /\ \A n \in 1..(N + 1) : g[n] = StripStep(g[n - 1], t[n])
    <2> HIDE DEF t
    <2> QED
      BY <1>1, StrippedSteps
  <1>4. SameSteps(f, g, N)
    <2> HIDE DEF f, g, t
    <2> QED
      BY <1>1, <1>2, <1>3 DEF SameSteps
  <1>5. f[N] = g[N]
    <2> HIDE DEF f, g, t, N
    <2> QED
      BY <1>1, <1>4, RecUnique
  <1>6. g[N + 1] = StripStep(g[N], x)
    <2> HIDE DEF f, g, t
    <2>1. N + 1 \in 1..(N + 1) /\ (N + 1) - 1 = N
      BY <1>1
    <2> QED
      BY <1>1, <1>3, <2>1
  <1>7. StripGroups(s) = f[N] /\ StripGroups(t) = g[N + 1]
    BY <1>1, StripGroupsIs
  <1> QED
    <2> HIDE DEF f, g, t
    <2>1. StripGroups(t) = StripStep(StripGroups(s), x)
      BY <1>5, <1>6, <1>7
    <2> QED
      BY <2>1 DEF t

-----------------------------------------------------------------------------
(* The hooks in an event's list.                                           *)

(* Hooks that are not ours are hooks. *)
LEMMA ForeignsAreHooks == Foreigns \subseteq Hook /\ Other \in Foreigns
  BY DEF Foreigns, Hook

(* The value of the wrong kind is no list, and not the empty one. *)
LEMMA OtherIsNoList == Other \notin Seq(Hook) /\ Other \notin Seq(Group) /\ <<>> # Other
  <1>1. Other \notin Seq(Hook) /\ Other \notin Seq(Group)
    BY OtherAssumption
  <1>2. <<>> \in Seq(Hook)
    OBVIOUS
  <1>3. <<>> # Other
    BY <1>1, <1>2
  <1> QED
    BY <1>1, <1>3

(* Ours are taken out of two lists as out of one. *)
LEMMA WithoutOursConcat ==
  ASSUME NEW s \in Seq(Hook), NEW t \in Seq(Hook)
  PROVE  WithoutOurs(s \o t) = WithoutOurs(s) \o WithoutOurs(t)
  BY SublistConcat DEF WithoutOurs

(* Nothing is taken out of a list with nothing of ours. *)
LEMMA WithoutOursOfForeigns ==
  ASSUME NEW l \in Seq(Foreigns)
  PROVE  WithoutOurs(l) = l
  BY SublistOfAll DEF WithoutOurs, Foreigns

(* Ours are taken out once and for all. *)
LEMMA WithoutOursIdempotent ==
  ASSUME NEW l \in Seq(Hook)
  PROVE  WithoutOurs(WithoutOurs(l)) = WithoutOurs(l)
  BY WithoutOursType, WithoutOursOfForeigns

(* A hook of ours at the end is taken out again. *)
LEMMA WithoutOursAppend ==
  ASSUME NEW l \in Seq(Hook), NEW h \in OurHooks
  PROVE  WithoutOurs(Append(l, h)) = WithoutOurs(l)
  <1>1. h \in Hook /\ h \notin UserHooks \union {Other}
    BY OursAreOurs DEF Hook
  <1> QED
    BY <1>1, SublistAppend DEF WithoutOurs

(* Nothing is left of the empty list. *)
LEMMA WithoutOursEmpty == WithoutOurs(<<>>) = <<>>
  BY SublistEmpty DEF WithoutOurs

Spread(g) == IF g = Other THEN <<Other>> ELSE g
Spreads(groups) == [i \in DOMAIN groups |-> Spread(groups[i])]
AllHooks(groups) == FlattenSeq(Spreads(groups))

(* A group spreads to a list of hooks. *)
LEMMA SpreadType ==
  ASSUME NEW g \in Group
  PROVE  Spread(g) \in Seq(Hook)
  BY ForeignsAreHooks DEF Spread, Group

(* Groups spread to lists of hooks. *)
LEMMA SpreadsType ==
  ASSUME NEW s \in Seq(Group)
  PROVE  Spreads(s) \in Seq(Seq(Hook))
  <1>1. \A i \in 1..Len(s) : Spread(s[i]) \in Seq(Hook)
    BY SpreadType
  <1>2. Spreads(s) = [i \in 1..Len(s) |-> Spread(s[i])] /\ Len(s) \in Nat
    BY DEF Spreads
  <1>3. Spreads(s) \in [1..Len(s) -> Seq(Hook)]
    BY <1>1, <1>2
  <1> QED
    BY <1>2, <1>3

(* The hooks of all groups are a list of hooks. *)
LEMMA AllHooksType ==
  ASSUME NEW s \in Seq(Group)
  PROVE  AllHooks(s) \in Seq(Hook)
  BY SpreadsType, FlattenType DEF AllHooks

(* The hooks of a last group come last. *)
LEMMA AllHooksAppend ==
  ASSUME NEW s \in Seq(Group), NEW x \in Group
  PROVE  AllHooks(Append(s, x)) = AllHooks(s) \o Spread(x)
  <1>1. Spreads(Append(s, x)) = Append(Spreads(s), Spread(x))
    BY DEF Spreads
  <1>2. FlattenSeq(Append(Spreads(s), Spread(x))) = FlattenSeq(Spreads(s)) \o Spread(x)
    BY SpreadsType, SpreadType, FlattenAppend
  <1> QED
    BY <1>1, <1>2 DEF AllHooks

(* No groups, no hooks. *)
LEMMA AllHooksEmpty == AllHooks(<<>>) = <<>>
  <1>1. Spreads(<<>>) = <<>>
    BY DEF Spreads
  <1> QED
    BY <1>1, FlattenEmpty DEF AllHooks

(* Taking ours out of a group takes them out of what it spreads to. *)
LEMMA LeftSpread ==
  ASSUME NEW g \in Group
  PROVE  WithoutOurs(Spread(g)) = Spread(Left(g))
  <1>1. CASE g = Other
    <2>1. <<Other>> \in Seq(Foreigns)
      BY ForeignsAreHooks
    <2> QED
      BY <1>1, <2>1, WithoutOursOfForeigns DEF Spread, Left
  <1>2. CASE g # Other
    <2>1. g \in Seq(Hook)
      BY <1>2 DEF Group
    <2>2. WithoutOurs(g) # Other
      BY <2>1, WithoutOursType, OtherIsNoList
    <2> QED
      BY <1>2, <2>2 DEF Spread, Left
  <1> QED
    BY <1>1, <1>2

(* The hooks that are left after a strip are those that are not ours.      *)
LEMMA StripGroupsKeeps ==
  \A s \in Seq(Group) : WithoutOurs(AllHooks(s)) = AllHooks(StripGroups(s))
  <1> DEFINE Good == {s \in Seq(Group) : WithoutOurs(AllHooks(s)) = AllHooks(StripGroups(s))}
  <1>1. <<>> \in Good
    <2>1. WithoutOurs(AllHooks(<<>>)) = AllHooks(StripGroups(<<>>))
      BY AllHooksEmpty, StripGroupsEmpty, WithoutOursEmpty
    <2>2. <<>> \in Seq(Group)
      OBVIOUS
    <2> QED
      BY <2>1, <2>2
  <1>2. ASSUME NEW s \in Seq(Group), NEW x \in Group, s \in Good PROVE Append(s, x) \in Good
    <2> DEFINE r == StripGroups(s)
               l == Left(x)
    <2>1. r \in Seq(Group) /\ l \in Group
      BY StripGroupsType, LeftType
    <2>2. AllHooks(r) \in Seq(Hook) /\ AllHooks(s) \in Seq(Hook) /\ Spread(x) \in Seq(Hook)
      BY <2>1, AllHooksType, SpreadType
    <2>3. WithoutOurs(AllHooks(Append(s, x))) = WithoutOurs(AllHooks(s)) \o WithoutOurs(Spread(x))
      BY <2>2, AllHooksAppend, WithoutOursConcat
    <2>4. @ = AllHooks(r) \o Spread(l)
      BY <1>2, LeftSpread
    <2>5. AllHooks(StripStep(r, x)) = AllHooks(r) \o Spread(l)
      <3>1. CASE l = <<>>
        <4>1. Spread(l) = <<>>
          BY <3>1, OtherIsNoList DEF Spread
        <4>2. AllHooks(r) \o <<>> = AllHooks(r)
          BY <2>2, ConcatEmptySeq
        <4> QED
          BY <3>1, <4>1, <4>2 DEF StripStep
      <3>2. CASE l # <<>>
        BY <2>1, <3>2, AllHooksAppend DEF StripStep
      <3> QED
        BY <3>1, <3>2
    <2>6. WithoutOurs(AllHooks(Append(s, x))) = AllHooks(StripGroups(Append(s, x)))
      BY <2>3, <2>4, <2>5, StripGroupsAppend
    <2>7. Append(s, x) \in Seq(Group)
      OBVIOUS
    <2> QED
      BY <2>6, <2>7
  <1> HIDE DEF Good
  <1>3. Seq(Group) \subseteq Good
    BY <1>1, <1>2, SeqInd
  <1> QED
    BY <1>3 DEF Good

(* Stripping the groups a second time changes nothing. *)
LEMMA StripGroupsIdempotent ==
  \A s \in Seq(Group) : StripGroups(StripGroups(s)) = StripGroups(s)
  <1> DEFINE Good == {s \in Seq(Group) : StripGroups(StripGroups(s)) = StripGroups(s)}
  <1>1. <<>> \in Good
    <2>1. StripGroups(StripGroups(<<>>)) = StripGroups(<<>>)
      BY StripGroupsEmpty
    <2>2. <<>> \in Seq(Group)
      OBVIOUS
    <2> QED
      BY <2>1, <2>2
  <1>2. ASSUME NEW s \in Seq(Group), NEW x \in Group, s \in Good PROVE Append(s, x) \in Good
    <2> DEFINE r == StripGroups(s)
               l == Left(x)
    <2>1. r \in Seq(Group) /\ l \in Group
      BY StripGroupsType, LeftType
    <2>2. Left(l) = l
      <3>1. CASE x = Other
        BY <3>1 DEF Left
      <3>2. CASE x # Other
        <4>1. x \in Seq(Hook)
          BY <3>2 DEF Group
        <4>2. WithoutOurs(x) # Other /\ WithoutOurs(WithoutOurs(x)) = WithoutOurs(x)
          BY <4>1, WithoutOursType, OtherIsNoList, WithoutOursIdempotent
        <4> QED
          BY <3>2, <4>2 DEF Left
      <3> QED
        BY <3>1, <3>2
    <2>3. StripGroups(StripStep(r, x)) = StripStep(r, x)
      <3>1. CASE l = <<>>
        BY <1>2, <3>1 DEF StripStep
      <3>2. CASE l # <<>>
        <4>1. StripGroups(Append(r, l)) = StripStep(StripGroups(r), l)
          BY <2>1, StripGroupsAppend
        <4>2. StripGroups(r) = r
          BY <1>2
        <4> HIDE DEF l, r
        <4> QED
          BY <2>2, <3>2, <4>1, <4>2 DEF StripStep, l
      <3> QED
        BY <3>1, <3>2
    <2>4. StripGroups(Append(s, x)) = StripStep(r, x)
      BY StripGroupsAppend
    <2>5. Append(s, x) \in Seq(Group)
      OBVIOUS
    <2> QED
      BY <2>3, <2>4, <2>5
  <1> HIDE DEF Good
  <1>3. Seq(Group) \subseteq Good
    BY <1>1, <1>2, SeqInd
  <1> QED
    BY <1>3 DEF Good

(* An entry of ours for the list of an event. *)
EntryOf(agent, h) == IF agent \in Nested THEN <<h>> ELSE h

(* HooksOf, in these terms. *)
LEMMA HooksOfIs ==
  ASSUME NEW agent, NEW v
  PROVE  HooksOf(agent, v) = IF agent \in Nested THEN AllHooks(v) ELSE v
  BY DEF HooksOf, AllHooks, Spreads, Spread

(* What a strip does to one event's list, in both layouts. *)
LEMMA EntriesStripped ==
  ASSUME NEW agent, NEW v \in Entries(agent)
  PROVE  /\ StripEntries(agent, v) \in Entries(agent)
         /\ StripEntries(agent, StripEntries(agent, v)) = StripEntries(agent, v)
         /\ HooksOf(agent, v) \in Seq(Hook)
         /\ HooksOf(agent, StripEntries(agent, v)) = WithoutOurs(HooksOf(agent, v))
  <1>1. CASE agent \in Nested
    <2>1. v \in Seq(Group)
      BY <1>1 DEF Entries
    <2> QED
      BY <1>1, <2>1, HooksOfIs, StripGroupsType, StripGroupsIdempotent, StripGroupsKeeps,
         AllHooksType DEF Entries, StripEntries
  <1>2. CASE agent \notin Nested
    <2>1. v \in Seq(Hook)
      BY <1>2 DEF Entries
    <2> QED
      BY <1>2, <2>1, HooksOfIs, WithoutOursType, WithoutOursIdempotent
         DEF Entries, StripEntries
  <1> QED
    BY <1>1, <1>2

(* The empty list is one, stripped or not. *)
LEMMA NoEntries ==
  ASSUME NEW agent
  PROVE  /\ <<>> \in Entries(agent)
         /\ StripEntries(agent, <<>>) = <<>>
         /\ HooksOf(agent, <<>>) = <<>>
  BY HooksOfIs, AllHooksEmpty, StripGroupsEmpty, WithoutOursEmpty DEF Entries, StripEntries

(* Our entry at the end of a list is one more hook, and a strip takes it   *)
(* out.                                                                    *)
LEMMA EntryAppended ==
  ASSUME NEW agent, NEW v \in Entries(agent), NEW h \in OurHooks
  PROVE  /\ Append(v, EntryOf(agent, h)) \in Entries(agent)
         /\ StripEntries(agent, Append(v, EntryOf(agent, h))) = StripEntries(agent, v)
         /\ HooksOf(agent, Append(v, EntryOf(agent, h))) = Append(HooksOf(agent, v), h)
  <1>0. h \in Hook
    BY DEF Hook
  <1>1. CASE agent \in Nested
    <2>1. v \in Seq(Group) /\ <<h>> \in Seq(Hook) /\ <<h>> \in Group
      BY <1>0, <1>1 DEF Entries, Group
    <2>2. <<h>> # Other
      BY <2>1, OtherIsNoList
    <2>3. Left(<<h>>) = <<>> /\ Spread(<<h>>) = <<h>>
      <3> DEFINE e == <<>>
      <3>1. WithoutOurs(Append(e, h)) = WithoutOurs(e)
        <4>1. e \in Seq(Hook)
          OBVIOUS
        <4> HIDE DEF e
        <4> QED
          BY <4>1, WithoutOursAppend
      <3>2. Append(e, h) = <<h>>
        OBVIOUS
      <3> QED
        BY <2>2, <3>1, <3>2, WithoutOursEmpty DEF Left, Spread
    <2>4. StripGroups(Append(v, <<h>>)) = StripGroups(v)
      BY <2>1, <2>3, StripGroupsAppend DEF StripStep
    <2>5. AllHooks(Append(v, <<h>>)) = AllHooks(v) \o <<h>>
      BY <2>1, <2>3, AllHooksAppend
    <2>6. AllHooks(v) \o <<h>> = Append(AllHooks(v), h)
      BY <1>0, <2>1, AllHooksType, AppendIsConcat
    <2>7. Append(v, <<h>>) \in Seq(Group)
      BY <2>1
    <2> QED
      BY <1>1, <2>4, <2>5, <2>6, <2>7, HooksOfIs DEF EntryOf, Entries, StripEntries
  <1>2. CASE agent \notin Nested
    <2>1. v \in Seq(Hook)
      BY <1>2 DEF Entries
    <2>2. Append(v, h) \in Seq(Hook)
      BY <1>0, <2>1
    <2>3. WithoutOurs(Append(v, h)) = WithoutOurs(v)
      BY <2>1, WithoutOursAppend
    <2>4. EntryOf(agent, h) = h
      BY <1>2 DEF EntryOf
    <2>5. HooksOf(agent, Append(v, h)) = Append(v, h) /\ HooksOf(agent, v) = v
      BY <1>2, HooksOfIs
    <2> QED
      BY <1>2, <2>2, <2>3, <2>4, <2>5 DEF Entries, StripEntries
  <1> QED
    BY <1>1, <1>2

-----------------------------------------------------------------------------
(* Objects, by the set of their keyed values.                              *)

PairOf(k, v) == [key |-> k, value |-> v]
Rest(m, k) == {x \in ToSet(m) : x.key # k}
OneKey(X) == \A x, y \in X : x.key = y.key => x = y

(* Every entry of a list is a member of it. *)
LEMMA InToSet ==
  ASSUME NEW s, NEW i \in DOMAIN s
  PROVE  s[i] \in ToSet(s)
  BY DEF ToSet

(* An object is told by its set of keyed values: one for each key. *)
LEMMA ObjectMembers ==
  ASSUME NEW V, NEW m \in Object(V)
  PROVE  /\ m \in Seq(Pair(V))
         /\ OneOfEach(m)
         /\ ToSet(m) \subseteq Pair(V)
         /\ OneKey(ToSet(m))
         /\ \A x \in ToSet(m) : Has(m, x.key) /\ Get(m, x.key) = x.value
         /\ \A k : Has(m, k) => PairOf(k, Get(m, k)) \in ToSet(m) /\ Get(m, k) \in V
  <1>1. m \in Seq(Pair(V)) /\ OneOfEach(m)
    BY DEF Object
  <1>2. \A i \in DOMAIN m : m[i] \in Pair(V)
    BY <1>1
  <1>3. ToSet(m) \subseteq Pair(V)
    BY <1>2 DEF ToSet
  <1>4. OneKey(ToSet(m))
    BY <1>1 DEF ToSet, OneKey, OneOfEach
  <1>5. ASSUME NEW i \in DOMAIN m
        PROVE  Has(m, m[i].key) /\ Get(m, m[i].key) = m[i].value
    <2> DEFINE j == CHOOSE j \in DOMAIN m : m[j].key = m[i].key
    <2>1. j \in DOMAIN m /\ m[j].key = m[i].key
      OBVIOUS
    <2>2. j = i
      <3> HIDE DEF j
      <3> QED
        BY <1>1, <2>1 DEF OneOfEach
    <2>3. Get(m, m[i].key) = m[j].value
      BY DEF Get
    <2> HIDE DEF j
    <2> QED
      BY <2>2, <2>3 DEF Has
  <1>6. ASSUME NEW k, Has(m, k)
        PROVE  PairOf(k, Get(m, k)) \in ToSet(m) /\ Get(m, k) \in V
    <2>1. PICK i \in DOMAIN m : m[i].key = k
      BY <1>6 DEF Has
    <2>2. Get(m, k) = m[i].value
      BY <1>5, <2>1
    <2>3. m[i] = PairOf(k, m[i].value) /\ m[i].value \in V
      BY <1>2, <2>1 DEF Pair, PairOf
    <2> QED
      BY <2>2, <2>3, InToSet
  <1>7. ASSUME NEW x \in ToSet(m) PROVE Has(m, x.key) /\ Get(m, x.key) = x.value
    BY <1>5 DEF ToSet
  <1> QED
    BY <1>1, <1>3, <1>4, <1>6, <1>7

(* The empty object. *)
LEMMA EmptyObject ==
  ASSUME NEW V
  PROVE  <<>> \in Object(V) /\ ToSet(<<>>) = {} /\ \A k : ~Has(<<>>, k)
  <1>1. <<>> \in Seq(Pair(V)) /\ DOMAIN <<>> = {}
    OBVIOUS
  <1> QED
    BY <1>1 DEF Object, OneOfEach, ToSet, Has

(* A new key at the end keeps the keys apart. *)
LEMMA AppendOneOfEach ==
  ASSUME NEW V, NEW m \in Seq(Pair(V)), NEW x \in Pair(V)
  PROVE  OneOfEach(Append(m, x)) <=> OneOfEach(m) /\ ~Has(m, x.key)
  <1> DEFINE t == Append(m, x)
             N == Len(m)
  <1>1. N \in Nat /\ DOMAIN m = 1..N /\ DOMAIN t = 1..(N + 1) /\ t[N + 1] = x
    OBVIOUS
  <1>2. \A i \in 1..N : t[i] = m[i]
    OBVIOUS
  <1> HIDE DEF t, N
  <1>3. ASSUME OneOfEach(t) PROVE OneOfEach(m) /\ ~Has(m, x.key)
    <2>1. OneOfEach(m)
      BY <1>1, <1>2, <1>3 DEF OneOfEach
    <2>2. ASSUME NEW i \in 1..N, m[i].key = x.key PROVE FALSE
      <3>1. i \in 1..(N + 1) /\ N + 1 \in 1..(N + 1) /\ i # N + 1
        BY <1>1
      <3> QED
        BY <1>1, <1>2, <1>3, <2>2, <3>1 DEF OneOfEach
    <2> QED
      BY <1>1, <2>1, <2>2 DEF Has
  <1>4. ASSUME OneOfEach(m), ~Has(m, x.key) PROVE OneOfEach(t)
    <2>1. ASSUME NEW i \in 1..(N + 1), NEW j \in 1..(N + 1), t[i].key = t[j].key
          PROVE  i = j
      <3>1. CASE i = N + 1 /\ j = N + 1
        BY <3>1
      <3>2. CASE i = N + 1 /\ j # N + 1
        <4>1. j \in 1..N
          BY <1>1, <3>2
        <4> QED
          BY <1>1, <1>2, <1>4, <2>1, <3>2, <4>1 DEF Has
      <3>3. CASE i # N + 1 /\ j = N + 1
        <4>1. i \in 1..N
          BY <1>1, <3>3
        <4> QED
          BY <1>1, <1>2, <1>4, <2>1, <3>3, <4>1 DEF Has
      <3>4. CASE i # N + 1 /\ j # N + 1
        <4>1. i \in 1..N /\ j \in 1..N
          BY <1>1, <3>4
        <4> QED
          BY <1>1, <1>2, <1>4, <2>1, <4>1 DEF OneOfEach
      <3> QED
        BY <3>1, <3>2, <3>3, <3>4
    <2> QED
      BY <1>1, <2>1 DEF OneOfEach
  <1> QED
    BY <1>3, <1>4 DEF t

(* A key is there when a member has it. *)
LEMMA HasInToSet ==
  ASSUME NEW m, NEW k
  PROVE  Has(m, k) <=> \E x \in ToSet(m) : x.key = k
  BY DEF Has, ToSet

(* A sublist of an object is an object. *)
LEMMA SublistOfObject ==
  ASSUME NEW V, NEW S
  PROVE  \A m \in Object(V) : Sublist(m, S) \in Object(V)
  <1> DEFINE Good == {m \in Seq(Pair(V)) : OneOfEach(m) => OneOfEach(Sublist(m, S))}
  <1>1. <<>> \in Good
    <2>1. <<>> \in Seq(Pair(V)) /\ OneOfEach(<<>>)
      BY DEF OneOfEach
    <2> QED
      BY <2>1, SublistEmpty
  <1>2. ASSUME NEW m \in Seq(Pair(V)), NEW x \in Pair(V), m \in Good
        PROVE  Append(m, x) \in Good
    <2> DEFINE r == Sublist(m, S)
    <2>1. r \in Seq(Pair(V)) /\ ToSet(r) = ToSet(m) \intersect S
      BY SublistType, SublistKeeps
    <2>2. ASSUME OneOfEach(Append(m, x)) PROVE OneOfEach(Sublist(Append(m, x), S))
      <3>1. OneOfEach(m) /\ ~Has(m, x.key)
        BY <2>2, AppendOneOfEach
      <3>2. OneOfEach(r)
        BY <1>2, <3>1
      <3>3. ~Has(r, x.key)
        <4> HIDE DEF r
        <4> QED
          BY <2>1, <3>1, HasInToSet
      <3>4. OneOfEach(Append(r, x))
        <4> HIDE DEF r
        <4> QED
          BY <2>1, <3>2, <3>3, AppendOneOfEach
      <3> QED
        BY <3>2, <3>4, SublistAppend
    <2>3. Append(m, x) \in Seq(Pair(V))
      OBVIOUS
    <2> QED
      BY <2>2, <2>3
  <1> HIDE DEF Good
  <1>3. Seq(Pair(V)) \subseteq Good
    BY <1>1, <1>2, SeqInd
  <1>4. ASSUME NEW m \in Object(V) PROVE Sublist(m, S) \in Object(V)
    <2>1. m \in Good /\ m \in Seq(Pair(V)) /\ OneOfEach(m)
      BY <1>3, ObjectMembers
    <2> QED
      BY <2>1, SublistType DEF Good, Object
  <1> QED
    BY <1>4

(* toml's removal takes out the key and nothing else. *)
LEMMA ShiftRemoved ==
  ASSUME NEW V, NEW m \in Object(V), NEW k
  PROVE  /\ ShiftRemove(m, k) \in Object(V)
         /\ ToSet(ShiftRemove(m, k)) = Rest(m, k)
  <1>1. m \in Seq(Pair(V))
    BY ObjectMembers
  <1>2. ToSet(ShiftRemove(m, k)) = ToSet(m) \intersect Rest(m, k)
    BY <1>1, SublistKeeps DEF ShiftRemove, Rest
  <1> QED
    BY <1>2, SublistOfObject DEF ShiftRemove, Rest

(* An insertion replaces or adds the one key. *)
LEMMA PutResult ==
  ASSUME NEW V, NEW m \in Object(V), NEW k \in Key, NEW v \in V
  PROVE  /\ Put(m, k, v) \in Object(V)
         /\ ToSet(Put(m, k, v)) = Rest(m, k) \union {PairOf(k, v)}
  <1> DEFINE new == PairOf(k, v)
             N == Len(m)
             f == [i \in 1..N |-> IF m[i].key = k THEN new ELSE m[i]]
  <1>1. m \in Seq(Pair(V)) /\ OneOfEach(m) /\ N \in Nat /\ DOMAIN m = 1..N
    BY ObjectMembers
  <1>2. new \in Pair(V) /\ new.key = k
    BY DEF Pair, PairOf
  <1>3. \A i \in 1..N : m[i] \in Pair(V)
    BY <1>1
  <1>4. CASE Has(m, k)
    <2>1. Put(m, k, v) = f
      BY <1>1, <1>4 DEF Put, PairOf
    <2>2. f \in [1..N -> Pair(V)]
      BY <1>2, <1>3
    <2>3. f \in Seq(Pair(V)) /\ DOMAIN f = 1..N
      BY <1>1, <2>2
    <2>4. \A i \in 1..N : f[i].key = m[i].key
      BY <1>2
    <2>5. OneOfEach(f)
      <3> HIDE DEF f
      <3> QED
        BY <1>1, <2>3, <2>4 DEF OneOfEach
    <2>6. PICK p \in 1..N : m[p].key = k
      BY <1>1, <1>4 DEF Has
    <2>7. ASSUME NEW y \in ToSet(f) PROVE y \in Rest(m, k) \union {new}
      <3>1. PICK i \in 1..N : y = f[i]
        BY DEF ToSet
      <3>2. CASE m[i].key = k
        BY <3>1, <3>2
      <3>3. CASE m[i].key # k
        <4>1. y = m[i] /\ m[i] \in ToSet(m)
          BY <1>1, <3>1, <3>3, InToSet
        <4> QED
          BY <3>3, <4>1 DEF Rest
      <3> QED
        BY <3>2, <3>3
    <2>8. ASSUME NEW y \in Rest(m, k) PROVE y \in ToSet(f)
      <3>1. PICK i \in 1..N : y = m[i] /\ m[i].key # k
        BY <1>1 DEF Rest, ToSet
      <3>2. f[i] = y
        BY <3>1
      <3> QED
        BY <2>3, <3>2, InToSet
    <2>9. new \in ToSet(f)
      <3>1. f[p] = new
        BY <2>6
      <3> QED
        BY <2>3, <3>1, InToSet
    <2>10. f \in Object(V)
      BY <2>3, <2>5 DEF Object
    <2> HIDE DEF f, new
    <2> QED
      BY <2>1, <2>7, <2>8, <2>9, <2>10 DEF new
  <1>5. CASE ~Has(m, k)
    <2>1. Put(m, k, v) = Append(m, new)
      BY <1>5 DEF Put, PairOf
    <2>2. Rest(m, k) = ToSet(m)
      BY <1>5, HasInToSet DEF Rest
    <2>3. ToSet(Append(m, new)) = ToSet(m) \union {new}
      BY <1>1, AppendToSet
    <2>4. OneOfEach(Append(m, new))
      <3> HIDE DEF new
      <3> QED
        BY <1>1, <1>2, <1>5, AppendOneOfEach
    <2>5. Append(m, new) \in Seq(Pair(V))
      BY <1>1, <1>2
    <2> QED
      BY <2>1, <2>2, <2>3, <2>4, <2>5 DEF Object
  <1> QED
    BY <1>4, <1>5

(* serde_json's removal, place by place. *)
LEMMA SwapRemoveType ==
  ASSUME NEW V, NEW m \in Seq(Pair(V)), NEW k
  PROVE  /\ SwapRemove(m, k) \in Seq(Pair(V))
         /\ Len(m) > 0 => Len(SwapRemove(m, k)) = Len(m) - 1
         /\ \A i \in 1..(Len(m) - 1) :
              SwapRemove(m, k)[i] = IF m[i].key = k THEN m[Len(m)] ELSE m[i]
  <1> DEFINE n == Len(m)
             f == [i \in 1..n |-> IF m[i].key = k THEN m[n] ELSE m[i]]
  <1>1. n \in Nat /\ \A i \in 1..n : m[i] \in Pair(V)
    OBVIOUS
  <1>2. \A i \in 1..n : f[i] \in Pair(V) /\ n \in 1..n
    BY <1>1
  <1>3. SwapRemove(m, k) = SubSeq(f, 1, n - 1)
    BY DEF SwapRemove
  <1>4. n - 1 \in Int /\ \A i \in 1..(n - 1) : i \in 1..n /\ f[i] \in Pair(V)
    BY <1>1, <1>2
  <1>5. \A i \in 1..(n - 1) : f[i] = IF m[i].key = k THEN m[n] ELSE m[i]
    BY <1>4
  <1> HIDE DEF f, n
  <1>6. /\ SubSeq(f, 1, n - 1) \in Seq(Pair(V))
        /\ Len(SubSeq(f, 1, n - 1)) = IF 1 <= n - 1 THEN n - 1 - 1 + 1 ELSE 0
        /\ \A i \in 1..(n - 1 - 1 + 1) : SubSeq(f, 1, n - 1)[i] = f[1 + i - 1]
    BY <1>4, SubSeqProperties
  <1>7. \A i \in 1..(n - 1) : SubSeq(f, 1, n - 1)[i] = f[i]
    <2>1. n - 1 - 1 + 1 = n - 1 /\ \A i \in 1..(n - 1) : 1 + i - 1 = i
      BY <1>1
    <2> QED
      BY <1>6, <2>1
  <1>8. n > 0 => Len(SubSeq(f, 1, n - 1)) = n - 1
    BY <1>1, <1>6
  <1> QED
    BY <1>3, <1>5, <1>6, <1>7, <1>8 DEF n

(* serde_json's removal takes out the key and nothing else. *)
LEMMA SwapRemoved ==
  ASSUME NEW V, NEW m \in Object(V), NEW k, Has(m, k)
  PROVE  /\ SwapRemove(m, k) \in Object(V)
         /\ ToSet(SwapRemove(m, k)) = Rest(m, k)
  <1> DEFINE r == SwapRemove(m, k)
  <1>1. m \in Seq(Pair(V)) /\ OneOfEach(m)
    BY ObjectMembers
  <1>2. PICK n \in Nat : n = Len(m) /\ DOMAIN m = 1..n
    BY <1>1
  <1>3. PICK p \in 1..n : m[p].key = k
    BY <1>2 DEF Has
  <1>4. \A i \in 1..n : m[i].key = k => i = p
    BY <1>1, <1>2, <1>3 DEF OneOfEach
  <1>5. r \in Seq(Pair(V)) /\ Len(r) = n - 1
    <2>1. Len(m) > 0
      BY <1>2, <1>3
    <2> QED
      BY <1>1, <1>2, <2>1, SwapRemoveType
  <1>6. DOMAIN r = 1..(n - 1)
    BY <1>5
  <1>7. \A i \in 1..(n - 1) : r[i] = IF m[i].key = k THEN m[n] ELSE m[i]
    BY <1>1, <1>2, SwapRemoveType
  <1> DEFINE at(i) == IF i = p THEN n ELSE i
  <1>8. ASSUME NEW i \in 1..(n - 1)
        PROVE  /\ r[i] = m[at(i)] /\ at(i) \in 1..n /\ at(i) # p
               /\ \A j \in 1..(n - 1) : at(i) = at(j) => i = j
    <2>1. i \in 1..n /\ n \in 1..n /\ i # n
      BY <1>2
    <2>2. CASE i = p
      <3>1. r[i] = m[n]
        BY <1>3, <1>7, <2>2
      <3>2. \A j \in 1..(n - 1) : j # n
        BY <1>2
      <3> QED
        BY <2>1, <2>2, <3>1, <3>2
    <2>3. CASE i # p
      <3>1. r[i] = m[i]
        BY <1>4, <1>7, <2>1, <2>3
      <3> QED
        BY <2>1, <2>3, <3>1
    <2> QED
      BY <2>2, <2>3
  <1>9. OneOfEach(r)
    <2>1. ASSUME NEW i \in 1..(n - 1), NEW j \in 1..(n - 1), r[i].key = r[j].key
          PROVE  i = j
      <3>1. m[at(i)].key = m[at(j)].key
        BY <1>8, <2>1
      <3>2. at(i) = at(j)
        <4>1. at(i) \in 1..n /\ at(j) \in 1..n
          BY <1>8
        <4> HIDE DEF at
        <4> QED
          BY <1>1, <1>2, <3>1, <4>1 DEF OneOfEach
      <3> QED
        BY <1>8, <3>2
    <2> HIDE DEF r
    <2> QED
      BY <1>6, <2>1 DEF OneOfEach
  <1>10. ASSUME NEW y \in ToSet(r) PROVE y \in Rest(m, k)
    <2>1. PICK i \in 1..(n - 1) : y = r[i]
      <3> HIDE DEF r
      <3> QED
        BY <1>6 DEF ToSet
    <2>2. y = m[at(i)] /\ at(i) \in 1..n /\ at(i) # p
      BY <1>8, <2>1
    <2>3. m[at(i)].key # k
      BY <1>4, <2>2
    <2> QED
      BY <1>2, <2>2, <2>3, InToSet DEF Rest
  <1>11. ASSUME NEW y \in Rest(m, k) PROVE y \in ToSet(r)
    <2>1. PICK j \in 1..n : y = m[j] /\ m[j].key # k
      BY <1>2 DEF Rest, ToSet
    <2>2. j # p
      BY <1>3, <2>1
    <2>3. CASE j = n
      <3>1. p \in 1..(n - 1)
        BY <1>2, <2>2, <2>3
      <3>2. r[p] = y
        BY <1>3, <1>7, <2>1, <2>3, <3>1
      <3> HIDE DEF r
      <3> QED
        BY <1>6, <3>1, <3>2, InToSet
    <2>4. CASE j # n
      <3>1. j \in 1..(n - 1)
        BY <1>2, <2>4
      <3>2. r[j] = y
        BY <1>7, <2>1, <3>1
      <3> HIDE DEF r
      <3> QED
        BY <1>6, <3>1, <3>2, InToSet
    <2> QED
      BY <2>3, <2>4
  <1>12. r \in Object(V)
    BY <1>5, <1>9 DEF Object
  <1> HIDE DEF r
  <1> QED
    BY <1>10, <1>11, <1>12 DEF r

-----------------------------------------------------------------------------
(* StripEvents.                                                            *)

StripEvent(agent, x) ==
  PairOf(x.key, IF x.value = Other THEN Other ELSE StripEntries(agent, x.value))
StrippedSet(agent, hooks) ==
  {y \in {StripEvent(agent, x) : x \in ToSet(hooks)} : y.value # <<>>}

AllStripped(agent, hooks) ==
  [i \in DOMAIN hooks |->
     [hooks[i] EXCEPT !.value = IF @ = Other THEN Other ELSE StripEntries(agent, @)]]
Emptied(stripped) == Sublist(stripped, {x \in ToSet(stripped) : x.value = <<>>})
IsLeft(stripped, empty, f) ==
  f = [n \in 0..Len(empty) |->
         IF n = 0 THEN stripped ELSE SwapRemove(f[n - 1], empty[n].key)]
LeftOver(stripped, empty) == CHOOSE f : IsLeft(stripped, empty, f)

(* StripEvents is the last step of the recursion that defines it. *)
LEMMA StripEventsIs ==
  ASSUME NEW agent, NEW hooks
  PROVE  LET stripped == AllStripped(agent, hooks)
             empty == Emptied(stripped)
         IN StripEvents(agent, hooks) = LeftOver(stripped, empty)[Len(empty)]
  BY DEF StripEvents, AllStripped, Emptied, LeftOver, IsLeft

(* The steps of that recursion. *)
LEMMA LeftSteps ==
  ASSUME NEW V, NEW s \in Seq(Pair(V)), NEW e \in Seq(Pair(V))
  PROVE  /\ LeftOver(s, e)[0] = s
         /\ \A n \in 1..Len(e) : LeftOver(s, e)[n] = SwapRemove(LeftOver(s, e)[n - 1], e[n].key)
  <1> DEFINE D == Seq(Pair(V))
             N == Len(e)
             step == [n \in 1..N |-> [m \in D |-> SwapRemove(m, e[n].key)]]
  <1>1. N \in Nat
    OBVIOUS
  <1>2. step \in [1..N -> [D -> D]]
    <2>1. \A n \in 1..N, m \in D : SwapRemove(m, e[n].key) \in D
      BY SwapRemoveType
    <2> HIDE DEF D, N
    <2> QED
      BY <2>1
  <1>3. PICK f \in [0..N -> D] : Run(f, s, step, N)
    <2> HIDE DEF step, N, D
    <2>1. s \in D
      BY DEF D
    <2> QED
      BY <1>1, <1>2, <2>1, RecExists
  <1>4. ASSUME NEW n \in 0..N
        PROVE  f[n] = IF n = 0 THEN s ELSE SwapRemove(f[n - 1], e[n].key)
    <2>1. CASE n = 0
      BY <1>3, <2>1 DEF Run
    <2>2. CASE n # 0
      <3>1. n \in 1..N /\ f[n - 1] \in D
        <4> HIDE DEF D, N
        <4> QED
          BY <1>1, <2>2
      <3>2. f[n] = step[n][f[n - 1]]
        BY <1>3, <3>1 DEF Run
      <3> HIDE DEF D, N
      <3> QED
        BY <2>2, <3>1, <3>2
    <2> QED
      BY <2>1, <2>2
  <1>5. f = [n \in 0..N |-> IF n = 0 THEN s ELSE SwapRemove(f[n - 1], e[n].key)]
    BY <1>4
  <1>6. IsLeft(s, e, LeftOver(s, e))
    BY <1>5 DEF LeftOver, IsLeft
  <1>7. SameSteps(LeftOver(s, e), f, N)
    BY <1>1, <1>4, <1>6 DEF IsLeft, SameSteps
  <1>8. \A n \in 0..N : LeftOver(s, e)[n] = f[n]
    <2> HIDE DEF N
    <2> QED
      BY <1>1, <1>7, RecUnique
  <1>9. ASSUME NEW n \in 1..N
        PROVE  LeftOver(s, e)[n] = SwapRemove(LeftOver(s, e)[n - 1], e[n].key)
    <2>1. n \in 0..N /\ n - 1 \in 0..N /\ n # 0
      <3> HIDE DEF N
      <3> QED
        BY <1>1
    <2> QED
      BY <1>4, <1>8, <2>1
  <1>10. LeftOver(s, e)[0] = s
    BY <1>1, <1>4, <1>8
  <1> QED
    BY <1>9, <1>10

(* One by one, the entries of e are taken out of s. *)
Taken(e, n) == {e[i] : i \in 1..n}

(* What is left after n removals is what they did not take. *)
LEMMA LeftWithout ==
  ASSUME NEW V, NEW s \in Object(V), NEW e \in Object(V), ToSet(e) \subseteq ToSet(s)
  PROVE  \A n \in 0..Len(e) : /\ LeftOver(s, e)[n] \in Object(V)
                             /\ ToSet(LeftOver(s, e)[n]) = ToSet(s) \ Taken(e, n)
  <1>1. s \in Seq(Pair(V)) /\ e \in Seq(Pair(V)) /\ OneOfEach(e)
    BY ObjectMembers
  <1>2. PICK N \in Nat : N = Len(e) /\ DOMAIN e = 1..N
    BY <1>1
  <1> DEFINE f == LeftOver(s, e)
             Good(n) == f[n] \in Object(V) /\ ToSet(f[n]) = ToSet(s) \ Taken(e, n)
             S == {n \in Nat : n <= N => Good(n)}
  <1>3. f[0] = s /\ \A n \in 1..N : f[n] = SwapRemove(f[n - 1], e[n].key)
    BY <1>1, <1>2, LeftSteps
  <1>4. 0 \in S
    <2>1. Taken(e, 0) = {}
      BY DEF Taken
    <2> QED
      BY <1>3, <2>1
  <1>5. ASSUME NEW n \in Nat, n \in S PROVE n + 1 \in S
    <2>1. SUFFICES ASSUME n + 1 <= N PROVE Good(n + 1)
      OBVIOUS
    <2> DEFINE x == e[n + 1]
    <2>2. n + 1 \in 1..N /\ (n + 1) - 1 = n /\ Good(n)
      BY <1>5, <2>1
    <2>3. x \in ToSet(e) /\ x \in ToSet(s)
      BY <1>2, <2>2, InToSet
    <2>4. x \notin Taken(e, n)
      <3>1. \A i \in 1..n : i \in 1..N /\ i # n + 1
        BY <2>1
      <3>2. \A i \in 1..n : e[i].key # x.key
        BY <1>1, <1>2, <2>2, <3>1 DEF OneOfEach
      <3> QED
        BY <3>2 DEF Taken
    <2>5. x \in ToSet(f[n])
      BY <2>2, <2>3, <2>4
    <2>6. Has(f[n], x.key) /\ OneKey(ToSet(f[n]))
      BY <2>2, <2>5, ObjectMembers
    <2>7. f[n + 1] = SwapRemove(f[n], x.key)
      BY <1>3, <2>2
    <2>8. f[n + 1] \in Object(V) /\ ToSet(f[n + 1]) = Rest(f[n], x.key)
      <3> HIDE DEF f, x
      <3> QED
        BY <2>2, <2>6, <2>7, SwapRemoved
    <2>9. Rest(f[n], x.key) = ToSet(f[n]) \ {x}
      BY <2>5, <2>6 DEF Rest, OneKey
    <2>10. Taken(e, n + 1) = Taken(e, n) \union {x}
      <3>1. \A i \in 1..(n + 1) : i \in 1..n \/ i = n + 1
        OBVIOUS
      <3>2. \A i \in 1..n : i \in 1..(n + 1)
        OBVIOUS
      <3>3. n + 1 \in 1..(n + 1)
        OBVIOUS
      <3> QED
        BY <3>1, <3>2, <3>3 DEF Taken
    <2> HIDE DEF x, f
    <2> QED
      BY <2>2, <2>8, <2>9, <2>10
  <1>6. Nat \subseteq S
    <2> HIDE DEF S
    <2> QED
      BY <1>4, <1>5, NatInd
  <1> HIDE DEF f
  <1>7. ASSUME NEW n \in 0..N PROVE Good(n)
    <2>1. n \in S /\ n <= N
      BY <1>6
    <2> QED
      BY <2>1
  <1> QED
    BY <1>2, <1>7 DEF f

(* Every event is stripped by itself, and the empty ones are gone. *)
LEMMA EventsStripped ==
  ASSUME NEW agent, NEW hooks \in EventTable(agent)
  PROVE  /\ StripEvents(agent, hooks) \in EventTable(agent)
         /\ ToSet(StripEvents(agent, hooks)) = StrippedSet(agent, hooks)
  <1> DEFINE V == Entries(agent) \union {Other}
             s == AllStripped(agent, hooks)
             e == Emptied(s)
  <1>1. hooks \in Object(V) /\ hooks \in Seq(Pair(V)) /\ OneOfEach(hooks)
    BY ObjectMembers DEF EventTable
  <1>2. PICK N \in Nat : N = Len(hooks) /\ DOMAIN hooks = 1..N
    BY <1>1
  <1>3. \A i \in 1..N : hooks[i] \in Pair(V)
    BY <1>1, <1>2
  <1>4. ASSUME NEW i \in 1..N
        PROVE  /\ s[i] = StripEvent(agent, hooks[i]) /\ s[i] \in Pair(V)
               /\ s[i].key = hooks[i].key
    <2> DEFINE x == hooks[i]
               v == IF x.value = Other THEN Other ELSE StripEntries(agent, x.value)
    <2>1. x \in Pair(V) /\ v \in V
      <3>1. x \in Pair(V) /\ x.value \in V
        BY <1>3 DEF Pair
      <3> QED
        BY <3>1, EntriesStripped
    <2>2. s[i] = [x EXCEPT !.value = v]
      BY <1>2 DEF AllStripped
    <2> HIDE DEF x, v, V
    <2>3. [x EXCEPT !.value = v] = PairOf(x.key, v)
      BY <2>1 DEF Pair, PairOf
    <2>4. PairOf(x.key, v) \in Pair(V)
      BY <2>1 DEF Pair, PairOf
    <2> QED
      BY <2>2, <2>3, <2>4 DEF StripEvent, PairOf, x, v
  <1>5. DOMAIN s = 1..N /\ s \in Seq(Pair(V))
    <2>1. s = [i \in 1..N |-> s[i]]
      BY <1>2 DEF AllStripped
    <2> HIDE DEF s
    <2> HIDE DEF V
    <2>2. s \in [1..N -> Pair(V)]
      BY <1>4, <2>1
    <2> QED
      BY <2>2
  <1>6. s \in Object(V)
    <2> HIDE DEF s
    <2> QED
      BY <1>1, <1>2, <1>4, <1>5 DEF Object, OneOfEach
  <1>7. ToSet(s) = {StripEvent(agent, x) : x \in ToSet(hooks)}
    <2> HIDE DEF s
    <2> QED
      BY <1>2, <1>4, <1>5 DEF ToSet
  <1>8. e \in Object(V) /\ ToSet(e) = {x \in ToSet(s) : x.value = <<>>}
    <2> HIDE DEF s
    <2>1. e \in Object(V)
      BY <1>6, SublistOfObject DEF Emptied
    <2>2. ToSet(e) = ToSet(s) \intersect {x \in ToSet(s) : x.value = <<>>}
      BY <1>5, SublistKeeps DEF Emptied
    <2> HIDE DEF e
    <2> QED
      BY <2>1, <2>2
  <1>9. Len(e) \in Nat /\ Taken(e, Len(e)) = ToSet(e)
    <2>1. e \in Seq(Pair(V))
      BY <1>8, ObjectMembers
    <2> HIDE DEF e
    <2>2. DOMAIN e = 1..Len(e) /\ Len(e) \in Nat
      BY <2>1
    <2> QED
      BY <2>2 DEF Taken, ToSet
  <1>10. /\ LeftOver(s, e)[Len(e)] \in Object(V)
         /\ ToSet(LeftOver(s, e)[Len(e)]) = ToSet(s) \ ToSet(e)
    <2> HIDE DEF s, e
    <2>1. ToSet(e) \subseteq ToSet(s) /\ Len(e) \in 0..Len(e)
      BY <1>8, <1>9
    <2> QED
      BY <1>6, <1>8, <1>9, <2>1, LeftWithout
  <1>11. StripEvents(agent, hooks) = LeftOver(s, e)[Len(e)]
    BY StripEventsIs
  <1>12. ToSet(s) \ ToSet(e) = StrippedSet(agent, hooks)
    <2> HIDE DEF s, e
    <2> QED
      BY <1>7, <1>8 DEF StrippedSet
  <1> HIDE DEF s, e
  <1> QED
    BY <1>10, <1>11, <1>12 DEF EventTable

-----------------------------------------------------------------------------
(* Documents.                                                              *)

HooksIn(doc) == IF Has(doc, "hooks") THEN Get(doc, "hooks") ELSE <<>>
Settings(doc) == {x \in ToSet(doc) : x.key \notin {"hooks", "version"}}

DocValue(agent) == {Theirs} \union HooksValue(agent)
WellKeyed(agent, X) ==
  \A x \in X : IF x.key = "hooks" THEN x.value \in HooksValue(agent)
               ELSE x.value = Theirs

(* A document, by the set of its settings. *)
LEMMA DocMembers ==
  ASSUME NEW agent
  PROVE  \A d : d \in Docs(agent) <=>
                  d \in Object(DocValue(agent)) /\ WellKeyed(agent, ToSet(d))
  BY DEF Docs, DocValue, WellKeyed, ToSet

(* The hooks of a document are of its agent's kind. *)
LEMMA HooksInType ==
  ASSUME NEW agent, NEW d \in Docs(agent)
  PROVE  HooksIn(d) \in HooksValue(agent)
  <1>1. <<>> \in HooksValue(agent)
    BY EmptyObject DEF HooksValue, EventTable
  <1>2. ASSUME Has(d, "hooks") PROVE Get(d, "hooks") \in HooksValue(agent)
    <2>1. PairOf("hooks", Get(d, "hooks")) \in ToSet(d) /\ WellKeyed(agent, ToSet(d))
      BY <1>2, DocMembers, ObjectMembers
    <2> QED
      BY <2>1 DEF WellKeyed, PairOf
  <1> QED
    BY <1>1, <1>2 DEF HooksIn

(* A document with other hooks is one, and the rest of it stays. *)
LEMMA PutHooks ==
  ASSUME NEW agent, NEW d \in Docs(agent), NEW v \in HooksValue(agent)
  PROVE  /\ Put(d, "hooks", v) \in Docs(agent)
         /\ Has(Put(d, "hooks", v), "hooks")
         /\ Get(Put(d, "hooks", v), "hooks") = v
         /\ Rest(Put(d, "hooks", v), "hooks") = Rest(d, "hooks")
  <1> DEFINE V == DocValue(agent)
             p == Put(d, "hooks", v)
             new == PairOf("hooks", v)
  <1>1. d \in Object(V) /\ WellKeyed(agent, ToSet(d))
    BY DocMembers
  <1>2. v \in V
    BY DEF DocValue
  <1>3. p \in Object(V) /\ ToSet(p) = Rest(d, "hooks") \union {new}
    <2> HIDE DEF V
    <2>1. "hooks" \in Key
      BY DEF Key
    <2> QED
      BY <1>1, <1>2, <2>1, PutResult
  <1>4. new.key = "hooks" /\ new.value = v
    BY DEF PairOf
  <1> HIDE DEF p, V, new
  <1>5. WellKeyed(agent, ToSet(p))
    BY <1>1, <1>3, <1>4 DEF WellKeyed, Rest
  <1>6. Has(p, "hooks") /\ Get(p, "hooks") = v
    BY <1>3, <1>4, ObjectMembers
  <1>7. Rest(p, "hooks") = Rest(d, "hooks")
    BY <1>3, <1>4 DEF Rest
  <1>8. p \in Docs(agent)
    BY <1>3, <1>5, DocMembers DEF V
  <1> QED
    BY <1>6, <1>7, <1>8 DEF p

(* Cursor's version changes no other setting. *)
LEMMA PutVersion ==
  ASSUME NEW agent, NEW d \in Docs(agent)
  PROVE  /\ Put(d, "version", Theirs) \in Docs(agent)
         /\ HooksIn(Put(d, "version", Theirs)) = HooksIn(d)
         /\ Has(Put(d, "version", Theirs), "hooks") <=> Has(d, "hooks")
         /\ Settings(Put(d, "version", Theirs)) = Settings(d)
  <1> DEFINE V == DocValue(agent)
             p == Put(d, "version", Theirs)
             new == PairOf("version", Theirs)
  <1>1. d \in Object(V) /\ WellKeyed(agent, ToSet(d))
    BY DocMembers
  <1>2. Theirs \in V
    BY DEF DocValue
  <1>3. p \in Object(V) /\ ToSet(p) = Rest(d, "version") \union {new}
    <2> HIDE DEF V
    <2>1. "version" \in Key
      BY DEF Key
    <2> QED
      BY <1>1, <1>2, <2>1, PutResult
  <1>4. new.key = "version" /\ new.value = Theirs
    BY DEF PairOf
  <1> HIDE DEF p, V, new
  <1>5. WellKeyed(agent, ToSet(p))
    BY <1>1, <1>3, <1>4 DEF WellKeyed, Rest
  <1>6. Settings(p) = Settings(d)
    BY <1>3, <1>4 DEF Settings, Rest
  <1>7. \A x : x.key = "hooks" => (x \in ToSet(p) <=> x \in ToSet(d))
    BY <1>3, <1>4 DEF Rest
  <1>8. Has(p, "hooks") <=> Has(d, "hooks")
    BY <1>7, HasInToSet
  <1>9. HooksIn(p) = HooksIn(d)
    <2>1. ASSUME Has(d, "hooks") PROVE Get(p, "hooks") = Get(d, "hooks")
      <3>1. PairOf("hooks", Get(d, "hooks")) \in ToSet(d)
        BY <1>1, <2>1, ObjectMembers
      <3>2. PairOf("hooks", Get(d, "hooks")).key = "hooks"
            /\ PairOf("hooks", Get(d, "hooks")).value = Get(d, "hooks")
        BY DEF PairOf
      <3> QED
        BY <1>3, <1>7, <3>1, <3>2, ObjectMembers
    <2> QED
      BY <1>8, <2>1 DEF HooksIn
  <1>10. p \in Docs(agent)
    BY <1>3, <1>5, DocMembers DEF V
  <1> QED
    BY <1>6, <1>8, <1>9, <1>10 DEF p

(* A removal of the hooks. *)
LEMMA HooksRemoved ==
  ASSUME NEW agent, NEW d \in Docs(agent), NEW p \in Object(DocValue(agent)),
         ToSet(p) = Rest(d, "hooks")
  PROVE  p \in Docs(agent) /\ ~Has(p, "hooks") /\ Rest(p, "hooks") = Rest(d, "hooks")
  <1>1. WellKeyed(agent, ToSet(p))
    BY DocMembers DEF WellKeyed, Rest
  <1>2. ~Has(p, "hooks")
    BY HasInToSet DEF Rest
  <1>3. Rest(p, "hooks") = Rest(d, "hooks")
    BY DEF Rest
  <1> QED
    BY <1>1, <1>2, <1>3, DocMembers

(* Documents that agree but for the hooks have the same settings. *)
LEMMA SettingsOfRest ==
  ASSUME NEW d, NEW p, Rest(p, "hooks") = Rest(d, "hooks")
  PROVE  Settings(p) = Settings(d)
  <1>1. \A m : Settings(m) = {x \in Rest(m, "hooks") : x.key # "version"}
    BY DEF Settings, Rest
  <1> QED
    BY <1>1

(* What a strip makes of the hooks. *)
StripHooks(agent, v) ==
  IF v = Other THEN Other
  ELSE IF agent = "kimi" THEN WithoutOurs(v) ELSE StripEvents(agent, v)

(* Stripped hooks are of the same kind. *)
LEMMA StripHooksType ==
  ASSUME NEW agent, NEW v \in HooksValue(agent)
  PROVE  StripHooks(agent, v) \in HooksValue(agent)
  BY WithoutOursType, EventsStripped DEF StripHooks, HooksValue

(* A strip leaves nothing of no hooks. *)
LEMMA NoEvents ==
  ASSUME NEW agent
  PROVE  StripHooks(agent, <<>>) = <<>>
  <1>1. CASE agent = "kimi"
    BY <1>1, WithoutOursEmpty, OtherIsNoList DEF StripHooks
  <1>2. CASE agent # "kimi"
    <2> DEFINE e == <<>>
               V == Entries(agent) \union {Other}
    <2>1. e \in EventTable(agent) /\ ToSet(e) = {}
      BY EmptyObject DEF EventTable
    <2>2. StripEvents(agent, e) \in Object(V) /\ ToSet(StripEvents(agent, e)) = {}
      <3> HIDE DEF e
      <3>1. StrippedSet(agent, e) = {}
        BY <2>1 DEF StrippedSet
      <3> QED
        BY <2>1, <3>1, EventsStripped DEF EventTable
    <2>3. StripEvents(agent, e) = <<>>
      <3> HIDE DEF e, V
      <3> QED
        BY <2>2, ObjectMembers, NoMembers
    <2> QED
      BY <1>2, <2>3, OtherIsNoList DEF StripHooks
  <1> QED
    BY <1>1, <1>2

(* Strip strips the hooks, takes them out when they are empty, and leaves  *)
(* the rest of the file.                                                   *)
LEMMA StripResult ==
  ASSUME NEW agent \in Mergeable, NEW d \in Docs(agent)
  PROVE  /\ Strip(agent, d) \in Docs(agent)
         /\ HooksIn(Strip(agent, d)) = StripHooks(agent, HooksIn(d))
         /\ Rest(Strip(agent, d), "hooks") = Rest(d, "hooks")
         /\ Has(Strip(agent, d), "hooks") => Has(d, "hooks")
  <1> DEFINE v == StripHooks(agent, HooksIn(d))
  <1>1. d # Other
    BY OtherAssumption
  <1>2. v \in HooksValue(agent)
    BY HooksInType, StripHooksType
  <1>3. CASE ~Has(d, "hooks") \/ Get(d, "hooks") = Other
    <2>1. Strip(agent, d) = d
      BY <1>3 DEF Strip
    <2>2. HooksIn(d) = v
      BY <1>3, NoEvents DEF HooksIn, StripHooks
    <2> QED
      BY <1>3, <2>1, <2>2
  <1>4. CASE Has(d, "hooks") /\ Get(d, "hooks") # Other
    <2>1. HooksIn(d) = Get(d, "hooks")
      BY <1>4 DEF HooksIn
    <2>2. CASE v # <<>>
      <3>1. Strip(agent, d) = Put(d, "hooks", v)
        BY <1>1, <1>4, <2>1, <2>2 DEF Strip, StripHooks
      <3> HIDE DEF v
      <3> QED
        BY <1>2, <1>4, <3>1, PutHooks DEF HooksIn, v
    <2>3. CASE v = <<>>
      <3>1. Strip(agent, d) \in {ShiftRemove(d, "hooks"), SwapRemove(d, "hooks")}
        BY <1>1, <1>4, <2>1, <2>3 DEF Strip, StripHooks
      <3>2. /\ Strip(agent, d) \in Object(DocValue(agent))
            /\ ToSet(Strip(agent, d)) = Rest(d, "hooks")
        BY <1>4, <3>1, DocMembers, ShiftRemoved, SwapRemoved
      <3> HIDE DEF v
      <3> QED
        BY <1>4, <2>3, <3>2, HooksRemoved DEF HooksIn, v
    <2> QED
      BY <2>2, <2>3
  <1> QED
    BY <1>3, <1>4

-----------------------------------------------------------------------------
(* AddOurs.                                                                *)

(* An agent's events are told apart, and each has a hook of ours. *)
LEMMA SubscribedOnce ==
  ASSUME NEW agent \in Mergeable
  PROVE  /\ Subscribed(agent) \in Seq(OurEvents)
         /\ \A i, j \in DOMAIN Subscribed(agent) :
              Subscribed(agent)[i] = Subscribed(agent)[j] => i = j
  <1> DEFINE t == Subscribed(agent)
  <1>1. \A i, j \in DOMAIN t : t[i] = t[j] => i = j
    <2>1. CASE agent = "claude_code"
      BY <2>1 DEF Subscribed
    <2>2. CASE agent = "codex"
      BY <2>2 DEF Subscribed
    <2>3. CASE agent = "gemini"
      BY <2>3 DEF Subscribed
    <2>4. CASE agent = "cursor"
      BY <2>4 DEF Subscribed
    <2>5. CASE agent = "kimi"
      BY <2>5 DEF Subscribed
    <2>6. CASE agent = "qwen"
      BY <2>6 DEF Subscribed
    <2> QED
      BY <2>1, <2>2, <2>3, <2>4, <2>5, <2>6 DEF Mergeable
  <1>2. \E n \in Nat : t = [i \in 1..n |-> t[i]]
    <2>1. CASE agent = "claude_code"
      <3>1. t = [i \in 1..6 |-> t[i]]
        BY <2>1 DEF Subscribed
      <3> QED BY <3>1
    <2>2. CASE agent = "codex"
      <3>1. t = [i \in 1..6 |-> t[i]]
        BY <2>2 DEF Subscribed
      <3> QED BY <3>1
    <2>3. CASE agent = "gemini"
      <3>1. t = [i \in 1..5 |-> t[i]]
        BY <2>3 DEF Subscribed
      <3> QED BY <3>1
    <2>4. CASE agent = "cursor"
      <3>1. t = [i \in 1..6 |-> t[i]]
        BY <2>4 DEF Subscribed
      <3> QED BY <3>1
    <2>5. CASE agent = "kimi"
      <3>1. t = [i \in 1..7 |-> t[i]]
        BY <2>5 DEF Subscribed
      <3> QED BY <3>1
    <2>6. CASE agent = "qwen"
      <3>1. t = [i \in 1..8 |-> t[i]]
        BY <2>6 DEF Subscribed
      <3> QED BY <3>1
    <2> QED
      BY <2>1, <2>2, <2>3, <2>4, <2>5, <2>6 DEF Mergeable
  <1>3. \A i \in DOMAIN t : t[i] \in OurEvents
    BY DEF OurEvents, ToSet
  <1> HIDE DEF t
  <1>4. PICK n \in Nat : t = [i \in 1..n |-> t[i]]
    BY <1>2
  <1>5. t \in [1..n -> OurEvents]
    BY <1>3, <1>4
  <1>6. t \in Seq(OurEvents)
    BY <1>5
  <1> QED
    BY <1>1, <1>6 DEF t

(* What is subscribed for an event is a hook of ours. *)
LEMMA OurHookType ==
  ASSUME NEW agent \in Mergeable, NEW exe \in Exes, NEW e \in ToSet(Subscribed(agent))
  PROVE  OurHook(agent, exe, e) \in OurHooks
  <1>1. e \in OurEvents
    BY DEF OurEvents
  <1>2. WaitsForADecision(agent, e) \in BOOLEAN
    BY DEF WaitsForADecision
  <1> QED
    BY <1>1, <1>2 DEF OurHook, OurHooks

(* What the list of event e becomes, and the table once the events in F    *)
(* are done.                                                               *)
Old(hooks, e) == IF Has(hooks, e) THEN Get(hooks, e) ELSE <<>>
NewEntries(agent, exe, hooks, e) ==
  LET entry == EntryOf(agent, OurHook(agent, exe, e)) IN
  IF Old(hooks, e) = Other THEN <<entry>> ELSE Append(Old(hooks, e), entry)
AddedSet(agent, exe, hooks, F) ==
  {x \in ToSet(hooks) : x.key \notin F}
    \union {PairOf(e, NewEntries(agent, exe, hooks, e)) : e \in F}

(* AddEntry, in these terms. *)
LEMMA AddEntryIs ==
  ASSUME NEW agent, NEW exe, NEW hooks, NEW e
  PROVE  AddEntry(agent, exe, hooks, e) = Put(hooks, e, NewEntries(agent, exe, hooks, e))
  BY DEF AddEntry, NewEntries, Old, EntryOf

(* The list an entry is added to is one, or a value of the wrong kind. *)
LEMMA OldType ==
  ASSUME NEW agent, NEW hooks \in EventTable(agent), NEW e
  PROVE  Old(hooks, e) \in Entries(agent) \union {Other}
  <1> DEFINE V == Entries(agent) \union {Other}
  <1>1. hooks \in Object(V)
    BY DEF EventTable
  <1>2. Has(hooks, e) => Get(hooks, e) \in V
    <2> HIDE DEF V
    <2> QED
      BY <1>1, ObjectMembers
  <1> QED
    BY <1>2, NoEntries DEF Old

(* The new list has the old one's hooks and ours. *)
LEMMA NewEntriesResult ==
  ASSUME NEW agent \in Mergeable, NEW exe \in Exes, NEW hooks \in EventTable(agent),
         NEW e \in ToSet(Subscribed(agent))
  PROVE  LET new == NewEntries(agent, exe, hooks, e)
             h   == OurHook(agent, exe, e)
             old == IF Old(hooks, e) = Other THEN <<>> ELSE Old(hooks, e)
         IN /\ old \in Entries(agent)
            /\ new \in Entries(agent) /\ new # Other
            /\ StripEntries(agent, new) = StripEntries(agent, old)
            /\ HooksOf(agent, new) = Append(HooksOf(agent, old), h)
  <1> DEFINE new == NewEntries(agent, exe, hooks, e)
             h   == OurHook(agent, exe, e)
             old == IF Old(hooks, e) = Other THEN <<>> ELSE Old(hooks, e)
             entry == EntryOf(agent, h)
  <1>1. h \in OurHooks
    BY OurHookType
  <1>2. old \in Entries(agent)
    BY OldType, NoEntries
  <1>3. Append(<<>>, entry) = <<entry>>
    OBVIOUS
  <1>4. new = Append(old, entry)
    BY <1>3 DEF NewEntries
  <1> HIDE DEF new, h, old
  <1>5. new \in Entries(agent)
    BY <1>1, <1>2, <1>4, EntryAppended
  <1>6. new # Other
    BY <1>5, OtherIsNoList DEF Entries
  <1>7. /\ StripEntries(agent, new) = StripEntries(agent, old)
        /\ HooksOf(agent, new) = Append(HooksOf(agent, old), h)
    BY <1>1, <1>2, <1>4, EntryAppended
  <1> QED
    BY <1>2, <1>5, <1>6, <1>7 DEF new, h, old

(* One more event done. *)
LEMMA EntryAdded ==
  ASSUME NEW agent \in Mergeable, NEW exe \in Exes, NEW base \in EventTable(agent),
         NEW F, NEW e \in ToSet(Subscribed(agent)), e \notin F,
         NEW hooks \in EventTable(agent), ToSet(hooks) = AddedSet(agent, exe, base, F)
  PROVE  /\ AddEntry(agent, exe, hooks, e) \in EventTable(agent)
         /\ ToSet(AddEntry(agent, exe, hooks, e)) = AddedSet(agent, exe, base, F \union {e})
  <1> DEFINE V == Entries(agent) \union {Other}
             new(k) == NewEntries(agent, exe, base, k)
             added == AddEntry(agent, exe, hooks, e)
  <1>1. hooks \in Object(V) /\ base \in Object(V)
    BY DEF EventTable
  <1>2. \A x : x.key = e => (x \in ToSet(hooks) <=> x \in ToSet(base))
    <2>1. \A k \in F : PairOf(k, new(k)).key # e
      BY DEF PairOf
    <2> QED
      BY <2>1 DEF AddedSet
  <1>3. Old(hooks, e) = Old(base, e)
    <2>1. Has(hooks, e) <=> Has(base, e)
      BY <1>2, HasInToSet
    <2>2. ASSUME Has(base, e) PROVE Get(hooks, e) = Get(base, e)
      <3> DEFINE x == PairOf(e, Get(base, e))
      <3>1. x \in ToSet(base)
        <4> HIDE DEF V
        <4> QED
          BY <1>1, <2>2, ObjectMembers
      <3>2. x.key = e /\ x.value = Get(base, e)
        BY DEF PairOf
      <3> HIDE DEF x, V
      <3>3. x \in ToSet(hooks)
        BY <1>2, <3>1, <3>2
      <3> QED
        BY <1>1, <3>2, <3>3, ObjectMembers
    <2> QED
      BY <2>1, <2>2 DEF Old
  <1>4. added = Put(hooks, e, new(e))
    BY <1>3, AddEntryIs DEF NewEntries
  <1>5. new(e) \in V /\ e \in Key
    <2>1. e \in Key
      BY DEF Key, OurEvents
    <2> QED
      BY <2>1, NewEntriesResult
  <1>6. added \in Object(V) /\ ToSet(added) = Rest(hooks, e) \union {PairOf(e, new(e))}
    <2> HIDE DEF V, added, new
    <2> QED
      BY <1>1, <1>4, <1>5, PutResult
  <1>7. Rest(hooks, e) \union {PairOf(e, new(e))} = AddedSet(agent, exe, base, F \union {e})
    <2>1. \A k \in F : PairOf(k, new(k)).key = k
      BY DEF PairOf
    <2> HIDE DEF new
    <2>2. Rest(hooks, e) = {x \in ToSet(base) : x.key \notin F \union {e}}
                             \union {PairOf(k, new(k)) : k \in F}
      BY <2>1 DEF Rest, AddedSet, new
    <2> QED
      BY <2>2 DEF AddedSet, new
  <1> QED
    BY <1>6, <1>7 DEF EventTable

(* The events are added one by one. *)
IsAdding(agent, exe, hooks, t, f) ==
  f = [n \in 0..Len(t) |-> IF n = 0 THEN hooks ELSE AddEntry(agent, exe, f[n - 1], t[n])]
Adding(agent, exe, hooks, t) == CHOOSE f : IsAdding(agent, exe, hooks, t, f)
AddEvents(agent, exe, hooks) ==
  Adding(agent, exe, hooks, Subscribed(agent))[Len(Subscribed(agent))]

(* An event table with one more entry is one. *)
LEMMA AddEntryType ==
  ASSUME NEW agent \in Mergeable, NEW exe \in Exes, NEW hooks \in EventTable(agent),
         NEW e \in ToSet(Subscribed(agent))
  PROVE  AddEntry(agent, exe, hooks, e) \in EventTable(agent)
  <1> DEFINE V == Entries(agent) \union {Other}
  <1>1. hooks \in Object(V) /\ e \in Key /\ NewEntries(agent, exe, hooks, e) \in V
    <2>1. e \in Key
      BY DEF Key, OurEvents
    <2> QED
      BY <2>1, NewEntriesResult DEF EventTable
  <1>2. Put(hooks, e, NewEntries(agent, exe, hooks, e)) \in Object(V)
    <2> HIDE DEF V
    <2> QED
      BY <1>1, PutResult
  <1> QED
    BY <1>2, AddEntryIs DEF EventTable

(* The steps of the recursion over the subscribed events. *)
LEMMA AddingSteps ==
  ASSUME NEW agent \in Mergeable, NEW exe \in Exes, NEW hooks \in EventTable(agent)
  PROVE  LET t == Subscribed(agent)
             f == Adding(agent, exe, hooks, t)
         IN /\ f[0] = hooks
            /\ \A n \in 1..Len(t) : f[n] = AddEntry(agent, exe, f[n - 1], t[n])
            /\ \A n \in 0..Len(t) : f[n] \in EventTable(agent)
  <1> DEFINE t == Subscribed(agent)
             D == EventTable(agent)
             g == Adding(agent, exe, hooks, t)
             step == [n \in 1..Len(t) |-> [m \in D |-> AddEntry(agent, exe, m, t[n])]]
  <1>1. PICK N \in Nat : N = Len(t) /\ DOMAIN t = 1..N
    BY SubscribedOnce
  <1>2. step \in [1..N -> [D -> D]]
    <2>1. \A n \in 1..N : t[n] \in ToSet(t)
      <3> HIDE DEF t
      <3> QED
        BY <1>1, InToSet
    <2>2. \A n \in 1..N, m \in D : AddEntry(agent, exe, m, t[n]) \in D
      BY <2>1, AddEntryType
    <2> HIDE DEF D, t
    <2> QED
      BY <1>1, <2>2
  <1> HIDE DEF t
  <1>3. PICK f \in [0..N -> D] : Run(f, hooks, step, N)
    <2> HIDE DEF step, D
    <2>1. hooks \in D
      BY DEF D
    <2> QED
      BY <1>1, <1>2, <2>1, RecExists
  <1>4. ASSUME NEW n \in 0..N
        PROVE  f[n] = IF n = 0 THEN hooks ELSE AddEntry(agent, exe, f[n - 1], t[n])
    <2>1. CASE n = 0
      BY <1>3, <2>1 DEF Run
    <2>2. CASE n # 0
      <3>1. n \in 1..N /\ f[n - 1] \in D
        <4> HIDE DEF D
        <4> QED
          BY <1>1, <2>2
      <3>2. f[n] = step[n][f[n - 1]]
        BY <1>3, <3>1 DEF Run
      <3> HIDE DEF D
      <3> QED
        BY <1>1, <2>2, <3>1, <3>2
    <2> QED
      BY <2>1, <2>2
  <1>5. f = [n \in 0..Len(t) |-> IF n = 0 THEN hooks ELSE AddEntry(agent, exe, f[n - 1], t[n])]
    BY <1>1, <1>4
  <1>6. IsAdding(agent, exe, hooks, t, g)
    BY <1>5 DEF Adding, IsAdding
  <1>7. SameSteps(g, f, N)
    BY <1>1, <1>4, <1>6 DEF IsAdding, SameSteps
  <1>8. \A n \in 0..N : g[n] = f[n]
    BY <1>1, <1>7, RecUnique
  <1>9. ASSUME NEW n \in 1..N
        PROVE  g[n] = AddEntry(agent, exe, g[n - 1], t[n])
    <2>1. n \in 0..N /\ n - 1 \in 0..N /\ n # 0
      BY <1>1
    <2> QED
      BY <1>4, <1>8, <2>1
  <1>10. g[0] = hooks
    BY <1>1, <1>4, <1>8
  <1>11. \A n \in 0..N : g[n] \in D
    <2> HIDE DEF g, D
    <2> QED
      BY <1>8
  <1> HIDE DEF g
  <1> QED
    BY <1>1, <1>9, <1>10, <1>11 DEF g, t

(* Every event of the agent's ends with our entry; the others stay.  *)
LEMMA EventsAdded ==
  ASSUME NEW agent \in Mergeable, NEW exe \in Exes, NEW hooks \in EventTable(agent)
  PROVE  /\ AddEvents(agent, exe, hooks) \in EventTable(agent)
         /\ ToSet(AddEvents(agent, exe, hooks))
              = AddedSet(agent, exe, hooks, ToSet(Subscribed(agent)))
  <1> DEFINE t == Subscribed(agent)
             f == Adding(agent, exe, hooks, t)
             Good(n) == ToSet(f[n]) = AddedSet(agent, exe, hooks, Taken(t, n))
             S == {n \in Nat : n <= Len(t) => Good(n)}
  <1>1. PICK N \in Nat : N = Len(t) /\ DOMAIN t = 1..N
    BY SubscribedOnce
  <1>2. /\ f[0] = hooks
        /\ \A n \in 1..N : f[n] = AddEntry(agent, exe, f[n - 1], t[n])
        /\ \A n \in 0..N : f[n] \in EventTable(agent)
    BY <1>1, AddingSteps
  <1>3. \A i, j \in 1..N : t[i] = t[j] => i = j
    BY <1>1, SubscribedOnce
  <1>4. \A i \in 1..N : t[i] \in ToSet(Subscribed(agent))
    <2> HIDE DEF t
    <2> QED
      BY <1>1, InToSet DEF t
  <1> HIDE DEF f, t
  <1>5. 0 \in S
    <2>1. Taken(t, 0) = {}
      BY DEF Taken
    <2>2. AddedSet(agent, exe, hooks, {}) = ToSet(hooks)
      BY DEF AddedSet
    <2> QED
      BY <1>2, <2>1, <2>2
  <1>6. ASSUME NEW n \in Nat, n \in S PROVE n + 1 \in S
    <2>1. SUFFICES ASSUME n + 1 <= N PROVE Good(n + 1)
      BY <1>1
    <2> DEFINE x == t[n + 1]
    <2>2. n + 1 \in 1..N /\ (n + 1) - 1 = n /\ n \in 0..N /\ Good(n)
      BY <1>1, <1>6, <2>1
    <2>3. x \notin Taken(t, n)
      <3>1. \A i \in 1..n : i \in 1..N /\ i # n + 1
        BY <2>1
      <3> QED
        BY <1>3, <2>2, <3>1 DEF Taken
    <2>4. f[n + 1] = AddEntry(agent, exe, f[n], x) /\ f[n] \in EventTable(agent)
      BY <1>2, <2>2
    <2>5. ToSet(f[n + 1]) = AddedSet(agent, exe, hooks, Taken(t, n) \union {x})
      <3>1. x \in ToSet(Subscribed(agent))
        BY <1>4, <2>2
      <3> HIDE DEF x
      <3> QED
        BY <2>2, <2>3, <2>4, <3>1, EntryAdded
    <2>6. Taken(t, n + 1) = Taken(t, n) \union {x}
      <3>1. \A i \in 1..(n + 1) : i \in 1..n \/ i = n + 1
        OBVIOUS
      <3>2. \A i \in 1..n : i \in 1..(n + 1)
        OBVIOUS
      <3>3. n + 1 \in 1..(n + 1)
        OBVIOUS
      <3> QED
        BY <3>1, <3>2, <3>3 DEF Taken
    <2> QED
      BY <2>5, <2>6
  <1>7. N \in S
    <2> HIDE DEF S
    <2> QED
      BY <1>1, <1>5, <1>6, NatInd
  <1>8. Taken(t, N) = ToSet(t)
    BY <1>1 DEF Taken, ToSet
  <1> QED
    BY <1>1, <1>2, <1>7, <1>8 DEF AddEvents, f, t

(* What an install makes of the hooks, once ours are out. *)
OurRules(agent, exe) ==
  [i \in DOMAIN Subscribed(agent) |-> OurHook(agent, exe, Subscribed(agent)[i])]
AddHooks(agent, exe, v) ==
  IF v = Other THEN Other
  ELSE IF agent = "kimi" THEN v \o OurRules(agent, exe) ELSE AddEvents(agent, exe, v)

(* Kimi's rules are a list of hooks of ours. *)
LEMMA OurRulesType ==
  ASSUME NEW agent \in Mergeable, NEW exe \in Exes
  PROVE  OurRules(agent, exe) \in Seq(OurHooks) /\ OurRules(agent, exe) \in Seq(Hook)
  <1> DEFINE t == Subscribed(agent)
             r == OurRules(agent, exe)
  <1>1. PICK N \in Nat : N = Len(t) /\ DOMAIN t = 1..N
    BY SubscribedOnce
  <1>2. \A i \in 1..N : OurHook(agent, exe, t[i]) \in OurHooks
    <2>1. \A i \in 1..N : t[i] \in ToSet(t)
      <3> HIDE DEF t
      <3> QED
        BY <1>1, InToSet
    <2> QED
      BY <2>1, OurHookType
  <1>3. r \in [1..N -> OurHooks]
    BY <1>1, <1>2 DEF OurRules
  <1>4. r \in [1..N -> Hook]
    BY <1>3 DEF Hook
  <1> HIDE DEF r
  <1> QED
    BY <1>3, <1>4 DEF r

(* Hooks with ours among them are of the same kind. *)
LEMMA AddHooksType ==
  ASSUME NEW agent \in Mergeable, NEW exe \in Exes, NEW v \in HooksValue(agent)
  PROVE  AddHooks(agent, exe, v) \in HooksValue(agent)
  <1>1. ASSUME agent = "kimi", v # Other
        PROVE  v \o OurRules(agent, exe) \in Seq(Hook)
    <2>1. v \in Seq(Hook)
      BY <1>1 DEF HooksValue
    <2> QED
      BY <2>1, OurRulesType
  <1>2. ASSUME agent # "kimi", v # Other
        PROVE  AddEvents(agent, exe, v) \in EventTable(agent)
    BY <1>2, EventsAdded DEF HooksValue
  <1> QED
    BY <1>1, <1>2 DEF AddHooks, HooksValue

(* AddOurs, in these terms. *)
LEMMA AddOursIs ==
  ASSUME NEW agent, NEW exe, NEW bare
  PROVE  LET root == Versioned(agent, bare)
             doc  == OrElse(root, "hooks", <<>>)
             v    == Get(doc, "hooks")
         IN AddOurs(agent, exe, bare) =
              IF v = Other THEN doc ELSE Put(doc, "hooks", AddHooks(agent, exe, v))
  BY DEF AddOurs, AddHooks, OurRules, AddEvents, Adding, IsAdding

(* AddOurs leaves a document with hooks, and every setting that was there. *)
LEMMA AddOursResult ==
  ASSUME NEW agent \in Mergeable, NEW exe \in Exes, NEW bare \in Docs(agent)
  PROVE  /\ AddOurs(agent, exe, bare) \in Docs(agent)
         /\ Has(AddOurs(agent, exe, bare), "hooks")
         /\ HooksIn(AddOurs(agent, exe, bare)) = AddHooks(agent, exe, HooksIn(bare))
         /\ Settings(AddOurs(agent, exe, bare)) = Settings(bare)
  <1> DEFINE root == Versioned(agent, bare)
             doc  == OrElse(root, "hooks", <<>>)
             v    == Get(doc, "hooks")
             new  == AddOurs(agent, exe, bare)
  <1>1. /\ root \in Docs(agent) /\ HooksIn(root) = HooksIn(bare)
        /\ Settings(root) = Settings(bare)
    BY PutVersion DEF OrElse, Versioned
  <1> HIDE DEF root
  <1>2. /\ doc \in Docs(agent) /\ Has(doc, "hooks") /\ v = HooksIn(bare)
        /\ Settings(doc) = Settings(bare)
    <2>1. CASE Has(root, "hooks")
      BY <1>1, <2>1 DEF OrElse, HooksIn
    <2>2. CASE ~Has(root, "hooks")
      <3> DEFINE e == <<>>
      <3>1. e \in HooksValue(agent)
        BY EmptyObject DEF HooksValue, EventTable
      <3>2. doc = Put(root, "hooks", e) /\ HooksIn(bare) = e
        BY <1>1, <2>2 DEF OrElse, HooksIn
      <3> HIDE DEF e, doc
      <3> QED
        BY <1>1, <3>1, <3>2, PutHooks, SettingsOfRest
    <2> QED
      BY <2>1, <2>2
  <1>3. new = IF v = Other THEN doc ELSE Put(doc, "hooks", AddHooks(agent, exe, v))
    BY AddOursIs DEF root
  <1>4. v \in HooksValue(agent)
    BY <1>2, HooksInType
  <1>5. AddHooks(agent, exe, v) \in HooksValue(agent)
    BY <1>4, AddHooksType
  <1> HIDE DEF doc, v, new
  <1>6. CASE v = Other
    <2>1. new = doc /\ AddHooks(agent, exe, v) = v
      BY <1>3, <1>6 DEF AddHooks
    <2>2. HooksIn(doc) = HooksIn(bare)
      BY <1>2 DEF HooksIn, v
    <2> QED
      BY <1>2, <2>1, <2>2 DEF new
  <1>7. CASE v # Other
    <2>1. new = Put(doc, "hooks", AddHooks(agent, exe, v))
      BY <1>3, <1>7
    <2> QED
      <3> DEFINE p == Put(doc, "hooks", AddHooks(agent, exe, v))
      <3>1. /\ p \in Docs(agent) /\ Has(p, "hooks")
            /\ Get(p, "hooks") = AddHooks(agent, exe, v)
            /\ Rest(p, "hooks") = Rest(doc, "hooks")
        BY <1>2, <1>5, PutHooks
      <3>2. Settings(p) = Settings(doc)
        BY <3>1, SettingsOfRest
      <3> HIDE DEF p
      <3> QED
        BY <1>2, <2>1, <3>1, <3>2 DEF HooksIn, new, p
  <1> QED
    BY <1>6, <1>7 DEF new

-----------------------------------------------------------------------------
(* The hooks that are not ours, list by list.                              *)

ListAt(k, list) == [key |-> k, list |-> list]
Cleaned(l) == ListAt(l.key, WithoutOurs(l.list))
EventList(agent, x) == ListAt(x.key, HooksOf(agent, x.value))
ListsOf(agent, v) ==
  IF v = Other THEN {}
  ELSE IF agent = "kimi" THEN {ListAt("", v)}
  ELSE {EventList(agent, x) : x \in {y \in ToSet(v) : y.value # Other}}
ForeignLists(lists) == {l \in {Cleaned(k) : k \in lists} : l.list # <<>>}

(* The same of an event table with the entries X. *)
ForeignList(agent, x) == Cleaned(EventList(agent, x))
ForeignEvents(agent, X) ==
  {l \in {ForeignList(agent, x) : x \in {y \in X : y.value # Other}} : l.list # <<>>}

(* Fields of a list and of what is left of it. *)
LEMMA CleanedIs ==
  ASSUME NEW k, NEW l
  PROVE  /\ ListAt(k, l).key = k /\ ListAt(k, l).list = l
         /\ Cleaned(ListAt(k, l)) = ListAt(k, WithoutOurs(l))
  BY DEF ListAt, Cleaned

(* HookLists, in these terms. *)
LEMMA HookListsIs ==
  ASSUME NEW agent \in Mergeable, NEW d \in Docs(agent)
  PROVE  HookLists(agent, d) = IF Has(d, "hooks") THEN ListsOf(agent, HooksIn(d)) ELSE {}
  <1>1. d # Other
    BY OtherAssumption
  <1> QED
    BY <1>1 DEF HookLists, ListsOf, HooksIn, ListAt, EventList

(* The hooks that are not ours in an event table. *)
LEMMA ForeignListsOfEvents ==
  ASSUME NEW agent, agent # "kimi", NEW v, v # Other
  PROVE  ForeignLists(ListsOf(agent, v)) = ForeignEvents(agent, ToSet(v))
  BY DEF ListsOf, ForeignLists, ForeignEvents, ForeignList

(* The hooks that are not ours in kimi's rules. *)
LEMMA ForeignListsOfRules ==
  ASSUME NEW v, v # Other
  PROVE  ForeignLists(ListsOf("kimi", v))
           = IF WithoutOurs(v) = <<>> THEN {} ELSE {ListAt("", WithoutOurs(v))}
  <1>1. ListsOf("kimi", v) = {ListAt("", v)}
    BY DEF ListsOf
  <1> DEFINE k == ListAt("", v)
             c == ListAt("", WithoutOurs(v))
  <1>2. Cleaned(k) = c /\ c.list = WithoutOurs(v)
    BY CleanedIs
  <1> HIDE DEF k, c
  <1>3. ListsOf("kimi", v) = {k}
    BY <1>1 DEF k
  <1>4. ForeignLists({k}) = IF c.list = <<>> THEN {} ELSE {c}
    BY <1>2 DEF ForeignLists
  <1> QED
    BY <1>2, <1>3, <1>4 DEF c

(* There are none where there are no hooks. *)
LEMMA NoForeignLists ==
  ASSUME NEW agent
  PROVE  ForeignLists(ListsOf(agent, <<>>)) = {}
  <1> DEFINE e == <<>>
  <1>1. e # Other
    BY OtherIsNoList
  <1>2. CASE agent = "kimi"
    <2>1. WithoutOurs(e) = <<>>
      BY WithoutOursEmpty
    <2> HIDE DEF e
    <2> QED
      BY <1>1, <1>2, <2>1, ForeignListsOfRules DEF e
  <1>3. CASE agent # "kimi"
    <2>1. ToSet(e) = {}
      BY EmptyObject
    <2> HIDE DEF e
    <2>2. ForeignLists(ListsOf(agent, e)) = ForeignEvents(agent, {})
      BY <1>1, <1>3, <2>1, ForeignListsOfEvents
    <2>3. ForeignEvents(agent, {}) = {}
      BY DEF ForeignEvents
    <2> QED
      BY <2>2, <2>3 DEF e
  <1> QED
    BY <1>2, <1>3

(* The hooks that are not ours in a document. *)
LEMMA ForeignListsIn ==
  ASSUME NEW agent \in Mergeable, NEW d \in Docs(agent)
  PROVE  ForeignLists(HookLists(agent, d)) = ForeignLists(ListsOf(agent, HooksIn(d)))
  <1>1. CASE Has(d, "hooks")
    BY <1>1, HookListsIs
  <1>2. CASE ~Has(d, "hooks")
    <2>1. HookLists(agent, d) = {} /\ HooksIn(d) = <<>>
      BY <1>2, HookListsIs DEF HooksIn
    <2>2. ForeignLists({}) = {}
      BY DEF ForeignLists
    <2> QED
      BY <2>1, <2>2, NoForeignLists
  <1> QED
    BY <1>1, <1>2

(* What stripping one event does to its hooks. *)
LEMMA EventStripped ==
  ASSUME NEW agent, NEW x \in Pair(Entries(agent) \union {Other})
  PROVE  LET y == StripEvent(agent, x) IN
         /\ x.value = Other <=> y.value = Other
         /\ x.value # Other => /\ ForeignList(agent, y) = ForeignList(agent, x)
                               /\ y.value = <<>> => ForeignList(agent, x).list = <<>>
                               /\ HooksOf(agent, y.value) \in Seq(Foreigns)
  <1> DEFINE y == StripEvent(agent, x)
  <1>1. y.key = x.key
        /\ y.value = IF x.value = Other THEN Other ELSE StripEntries(agent, x.value)
    BY DEF StripEvent, PairOf
  <1> HIDE DEF y
  <1>2. CASE x.value = Other
    BY <1>1, <1>2 DEF y
  <1>3. CASE x.value # Other
    <2>1. x.value \in Entries(agent)
      BY <1>3 DEF Pair
    <2> DEFINE v == x.value
               w == StripEntries(agent, v)
    <2>2. /\ w \in Entries(agent) /\ HooksOf(agent, v) \in Seq(Hook)
          /\ HooksOf(agent, w) = WithoutOurs(HooksOf(agent, v))
      BY <2>1, EntriesStripped
    <2>3. w # Other
      BY <2>2, OtherIsNoList DEF Entries
    <2>4. WithoutOurs(HooksOf(agent, w)) = WithoutOurs(HooksOf(agent, v))
      BY <2>2, WithoutOursIdempotent
    <2>5. w = <<>> => WithoutOurs(HooksOf(agent, v)) = <<>>
      BY <2>2, NoEntries
    <2>6. HooksOf(agent, w) \in Seq(Foreigns)
      BY <2>2, WithoutOursType
    <2>7. y.value = w
      BY <1>1, <1>3
    <2> HIDE DEF w
    <2> QED
      BY <1>1, <1>3, <2>3, <2>4, <2>5, <2>6, <2>7 DEF ForeignList, EventList, Cleaned, ListAt, y
  <1> QED
    BY <1>2, <1>3

(* Strip leaves every hook that is not ours. *)
LEMMA StripHooksKeepsForeign ==
  ASSUME NEW agent \in Mergeable, NEW v \in HooksValue(agent)
  PROVE  ForeignLists(ListsOf(agent, StripHooks(agent, v))) = ForeignLists(ListsOf(agent, v))
  <1>1. CASE v = Other
    BY <1>1 DEF StripHooks
  <1>2. CASE v # Other /\ agent = "kimi"
    <2> DEFINE w == WithoutOurs(v)
    <2>1. v \in Seq(Hook)
      BY <1>2 DEF HooksValue
    <2>2. w # Other /\ WithoutOurs(w) = w
      BY <2>1, WithoutOursType, WithoutOursIdempotent, OtherIsNoList
    <2>3. StripHooks(agent, v) = w
      BY <1>2 DEF StripHooks
    <2> HIDE DEF w
    <2> QED
      BY <1>2, <2>2, <2>3, ForeignListsOfRules DEF w
  <1>3. CASE v # Other /\ agent # "kimi"
    <2> DEFINE V == Entries(agent) \union {Other}
               w == StripEvents(agent, v)
               X == ToSet(v)
    <2>1. v \in EventTable(agent)
      BY <1>3 DEF HooksValue
    <2>2. w \in EventTable(agent) /\ ToSet(w) = StrippedSet(agent, v)
      BY <2>1, EventsStripped
    <2>3. w # Other
      BY <2>2, OtherAssumption
    <2>4. X \subseteq Pair(V)
      <3>1. v \in Object(V)
        BY <2>1 DEF EventTable
      <3> HIDE DEF V
      <3> QED
        BY <3>1, ObjectMembers
    <2>5. StripHooks(agent, v) = w
      BY <1>3 DEF StripHooks
    <2>6. ForeignEvents(agent, StrippedSet(agent, v)) = ForeignEvents(agent, X)
      <3>1. \A x \in X :
              /\ x.value = Other <=> StripEvent(agent, x).value = Other
              /\ x.value # Other =>
                   /\ ForeignList(agent, StripEvent(agent, x)) = ForeignList(agent, x)
                   /\ StripEvent(agent, x).value = <<>> => ForeignList(agent, x).list = <<>>
        BY <2>4, EventStripped
      <3> HIDE DEF X
      <3>2. StrippedSet(agent, v) = {y \in {StripEvent(agent, x) : x \in X} : y.value # <<>>}
        BY DEF StrippedSet, X
      <3>3. ASSUME NEW l PROVE l \in ForeignEvents(agent, StrippedSet(agent, v))
                                 <=> l \in ForeignEvents(agent, X)
        <4>1. l \in ForeignEvents(agent, StrippedSet(agent, v))
                <=> /\ l.list # <<>>
                    /\ \E x \in X : LET y == StripEvent(agent, x) IN
                         y.value # <<>> /\ y.value # Other /\ l = ForeignList(agent, y)
          BY <3>2 DEF ForeignEvents
        <4>2. l \in ForeignEvents(agent, X)
                <=> l.list # <<>> /\ \E x \in X : x.value # Other /\ l = ForeignList(agent, x)
          BY DEF ForeignEvents
        <4> QED
          BY <3>1, <4>1, <4>2
      <3> QED
        BY <3>3
    <2> HIDE DEF w
    <2> QED
      BY <1>3, <2>2, <2>3, <2>5, <2>6, ForeignListsOfEvents
  <1> QED
    BY <1>1, <1>2, <1>3

(* What adding our entry to one event does to its hooks. *)
LEMMA EventAdded ==
  ASSUME NEW agent \in Mergeable, NEW exe \in Exes, NEW hooks \in EventTable(agent),
         NEW e \in ToSet(Subscribed(agent))
  PROVE  LET y == PairOf(e, NewEntries(agent, exe, hooks, e)) IN
         /\ y.key = e /\ y.value # Other
         /\ ForeignList(agent, y)
              = ListAt(e, IF Old(hooks, e) = Other THEN <<>>
                          ELSE WithoutOurs(HooksOf(agent, Old(hooks, e))))
  <1> DEFINE new == NewEntries(agent, exe, hooks, e)
             h   == OurHook(agent, exe, e)
             old == IF Old(hooks, e) = Other THEN <<>> ELSE Old(hooks, e)
             y   == PairOf(e, new)
  <1>1. /\ old \in Entries(agent) /\ new # Other
        /\ HooksOf(agent, new) = Append(HooksOf(agent, old), h)
    BY NewEntriesResult
  <1>2. h \in OurHooks
    BY OurHookType
  <1>3. y.key = e /\ y.value = new
    BY DEF PairOf
  <1> HIDE DEF h, new, y
  <1>4. HooksOf(agent, old) \in Seq(Hook)
    BY <1>1, EntriesStripped
  <1>5. WithoutOurs(HooksOf(agent, new)) = WithoutOurs(HooksOf(agent, old))
    BY <1>1, <1>2, <1>4, WithoutOursAppend
  <1>6. WithoutOurs(HooksOf(agent, old))
          = IF Old(hooks, e) = Other THEN <<>> ELSE WithoutOurs(HooksOf(agent, Old(hooks, e)))
    BY NoEntries, WithoutOursEmpty
  <1> HIDE DEF old
  <1>7. ForeignList(agent, y) = ListAt(e, WithoutOurs(HooksOf(agent, new)))
    BY <1>3, CleanedIs DEF ForeignList, EventList
  <1> QED
    BY <1>1, <1>3, <1>5, <1>6, <1>7 DEF y, new

(* Nothing is left of a list that is all ours. *)
LEMMA WithoutOursOfOurs ==
  ASSUME NEW r \in Seq(OurHooks)
  PROVE  WithoutOurs(r) = <<>>
  <1>1. WithoutOurs(r) \in Seq(Foreigns) /\ ToSet(WithoutOurs(r)) = ToSet(r) \intersect Foreigns
    BY SublistKeeps DEF WithoutOurs, Foreigns
  <1>2. ToSet(r) \subseteq OurHooks
    BY DEF ToSet
  <1>3. ToSet(WithoutOurs(r)) = {}
    BY <1>1, <1>2, OursAreOurs DEF Foreigns
  <1> QED
    BY <1>1, <1>3, NoMembers

(* Adding ours leaves every hook that is not ours. *)
LEMMA AddHooksKeepsForeign ==
  ASSUME NEW agent \in Mergeable, NEW exe \in Exes, NEW v \in HooksValue(agent)
  PROVE  ForeignLists(ListsOf(agent, AddHooks(agent, exe, v)))
           = ForeignLists(ListsOf(agent, v))
  <1>1. CASE v = Other
    BY <1>1 DEF AddHooks
  <1>2. CASE v # Other /\ agent = "kimi"
    <2> DEFINE r == OurRules(agent, exe)
               w == v \o r
    <2>1. v \in Seq(Hook) /\ r \in Seq(Hook) /\ r \in Seq(OurHooks)
      BY <1>2, OurRulesType DEF HooksValue
    <2>2. WithoutOurs(r) = <<>>
      BY <2>1, WithoutOursOfOurs
    <2>3. w \in Seq(Hook) /\ w # Other
      <3>1. w \in Seq(Hook)
        <4> HIDE DEF r
        <4> QED
          BY <2>1
      <3> QED
        BY <3>1, OtherIsNoList
    <2>4. WithoutOurs(w) = WithoutOurs(v) \o <<>>
      BY <2>1, <2>2, WithoutOursConcat
    <2>5. WithoutOurs(v) \in Seq(Hook)
      BY <2>1, WithoutOursType
    <2>6. WithoutOurs(w) = WithoutOurs(v)
      <3> HIDE DEF w
      <3> QED
        BY <2>4, <2>5
    <2>7. AddHooks(agent, exe, v) = w
      BY <1>2 DEF AddHooks
    <2> HIDE DEF w
    <2> QED
      BY <1>2, <2>3, <2>6, <2>7, ForeignListsOfRules
  <1>3. CASE v # Other /\ agent # "kimi"
    <2> DEFINE V == Entries(agent) \union {Other}
               w == AddEvents(agent, exe, v)
               X == ToSet(v)
               F == ToSet(Subscribed(agent))
               new(e) == PairOf(e, NewEntries(agent, exe, v, e))
    <2>1. v \in EventTable(agent)
      BY <1>3 DEF HooksValue
    <2>2. w \in EventTable(agent) /\ ToSet(w) = AddedSet(agent, exe, v, F)
      BY <2>1, EventsAdded
    <2>3. w # Other
      BY <2>2, OtherAssumption
    <2>4. AddHooks(agent, exe, v) = w
      BY <1>3 DEF AddHooks
    <2>5. \A e \in F : /\ new(e).key = e /\ new(e).value # Other
                       /\ ForeignList(agent, new(e))
                            = ListAt(e, IF Old(v, e) = Other THEN <<>>
                                        ELSE WithoutOurs(HooksOf(agent, Old(v, e))))
      BY <2>1, EventAdded
    <2>6. \A x \in X : Old(v, x.key) = x.value
      <3>1. v \in Object(V)
        BY <2>1 DEF EventTable
      <3> HIDE DEF V
      <3> QED
        BY <3>1, ObjectMembers DEF Old
    <2>7. \A e : (\E x \in X : x.key = e) \/ Old(v, e) = <<>>
      BY HasInToSet DEF Old
    <2>8. \A x : ForeignList(agent, x) = ListAt(x.key, WithoutOurs(HooksOf(agent, x.value)))
      BY CleanedIs DEF ForeignList, EventList
    <2>9. WithoutOurs(HooksOf(agent, <<>>)) = <<>>
      BY NoEntries, WithoutOursEmpty
    <2> HIDE DEF new, X, F
    <2>10. ASSUME NEW l
           PROVE  l \in ForeignEvents(agent, AddedSet(agent, exe, v, F))
                    <=> l \in ForeignEvents(agent, X)
      <3>1. l \in ForeignEvents(agent, AddedSet(agent, exe, v, F))
              <=> /\ l.list # <<>>
                  /\ \/ \E x \in X : x.key \notin F /\ x.value # Other /\ l = ForeignList(agent, x)
                     \/ \E e \in F : l = ForeignList(agent, new(e))
        BY <2>5 DEF ForeignEvents, AddedSet, X, new
      <3>2. l \in ForeignEvents(agent, X)
              <=> l.list # <<>> /\ \E x \in X : x.value # Other /\ l = ForeignList(agent, x)
        BY DEF ForeignEvents
      <3>3. ASSUME NEW e \in F, l = ForeignList(agent, new(e)), l.list # <<>>
            PROVE  \E x \in X : x.value # Other /\ l = ForeignList(agent, x)
        <4>1. Old(v, e) # Other /\ l = ListAt(e, WithoutOurs(HooksOf(agent, Old(v, e))))
          BY <2>5, <3>3, CleanedIs
        <4>2. Old(v, e) # <<>>
          BY <2>9, <3>3, <4>1, CleanedIs
        <4>3. PICK x \in X : x.key = e
          BY <2>7, <4>2
        <4> QED
          BY <2>6, <2>8, <4>1, <4>3
      <3>4. ASSUME NEW x \in X, x.value # Other, x.key \in F
            PROVE  ForeignList(agent, x) = ForeignList(agent, new(x.key))
        <4>1. Old(v, x.key) = x.value
          BY <2>6
        <4> QED
          BY <2>5, <2>8, <3>4, <4>1
      <3> QED
        BY <3>1, <3>2, <3>3, <3>4
    <2> HIDE DEF w
    <2>11. ForeignEvents(agent, AddedSet(agent, exe, v, F)) = ForeignEvents(agent, X)
      BY <2>10
    <2>12. ForeignLists(ListsOf(agent, w)) = ForeignEvents(agent, ToSet(w))
      BY <1>3, <2>3, ForeignListsOfEvents
    <2>13. ForeignLists(ListsOf(agent, v)) = ForeignEvents(agent, X)
      BY <1>3, ForeignListsOfEvents DEF X
    <2> QED
      BY <2>2, <2>4, <2>11, <2>12, <2>13
  <1> QED
    BY <1>1, <1>2, <1>3

-----------------------------------------------------------------------------
(* Our own hooks.                                                          *)

(* No list has a hook of ours. *)
Bare(lists) == \A l \in lists : l.list \in Seq(Foreigns)

(* No list has a hook of ours after a strip. *)
LEMMA StripHooksIsBare ==
  ASSUME NEW agent \in Mergeable, NEW v \in HooksValue(agent)
  PROVE  Bare(ListsOf(agent, StripHooks(agent, v)))
  <1>1. CASE v = Other
    BY <1>1 DEF StripHooks, ListsOf, Bare
  <1>2. CASE v # Other /\ agent = "kimi"
    <2> DEFINE w == WithoutOurs(v)
               k == ListAt("", w)
    <2>1. w \in Seq(Foreigns)
      BY <1>2, WithoutOursType DEF HooksValue
    <2>2. StripHooks(agent, v) = w
      BY <1>2 DEF StripHooks
    <2>3. k.list = w
      BY CleanedIs
    <2>4. ListsOf(agent, w) \subseteq {k}
      BY <1>2 DEF ListsOf
    <2> HIDE DEF w, k
    <2> QED
      BY <2>1, <2>2, <2>3, <2>4 DEF Bare
  <1>3. CASE v # Other /\ agent # "kimi"
    <2> DEFINE V == Entries(agent) \union {Other}
               w == StripEvents(agent, v)
               X == ToSet(v)
    <2>1. v \in EventTable(agent)
      BY <1>3 DEF HooksValue
    <2>2. ToSet(w) = StrippedSet(agent, v)
      BY <2>1, EventsStripped
    <2>3. X \subseteq Pair(V)
      <3>1. v \in Object(V)
        BY <2>1 DEF EventTable
      <3> HIDE DEF V
      <3> QED
        BY <3>1, ObjectMembers
    <2>4. StripHooks(agent, v) = w
      BY <1>3 DEF StripHooks
    <2>5. \A y \in StrippedSet(agent, v) :
            y.value # Other => HooksOf(agent, y.value) \in Seq(Foreigns)
      BY <2>3, EventStripped DEF StrippedSet
    <2>6. \A y : EventList(agent, y).list = HooksOf(agent, y.value)
      BY CleanedIs DEF EventList
    <2> HIDE DEF w
    <2> QED
      BY <1>3, <2>2, <2>4, <2>5, <2>6 DEF Bare, ListsOf
  <1> QED
    BY <1>1, <1>2, <1>3

(* Uninstall's question to a file: none there when its lists are bare. *)
LEMMA BareHasNone ==
  ASSUME NEW agent \in Mergeable, NEW d \in Docs(agent), Bare(ListsOf(agent, HooksIn(d)))
  PROVE  ~HasSailorHook(agent, d)
  <1>1. Bare(HookLists(agent, d))
    BY HookListsIs DEF Bare
  <1>2. \A s \in Seq(Foreigns) : \A i \in DOMAIN s : s[i] \in Foreigns
    OBVIOUS
  <1> QED
    BY <1>1, <1>2 DEF Bare, HasSailorHook, IsSailorHook, Foreigns

(* Our hooks as they should stand in the list of key. *)
Exactly(agent, exe, key) ==
  IF agent = "kimi" THEN OurRules(agent, exe)
  ELSE IF key \in ToSet(Subscribed(agent)) THEN <<OurHook(agent, exe, key)>> ELSE <<>>

(* No hook of ours is among those that are not. *)
LEMMA OursInForeigns ==
  ASSUME NEW s \in Seq(Foreigns)
  PROVE  Sublist(s, OurHooks) = <<>>
  <1>1. Sublist(s, OurHooks) \in Seq(OurHooks)
        /\ ToSet(Sublist(s, OurHooks)) = ToSet(s) \intersect OurHooks
    BY SublistKeeps
  <1>2. ToSet(s) \subseteq Foreigns
    BY DEF ToSet
  <1> QED
    BY <1>1, <1>2, OursAreOurs, NoMembers DEF Foreigns

(* Added to hooks with none of ours, ours are there once and in their      *)
(* places.                                                                 *)
LEMMA AddHooksIsComplete ==
  ASSUME NEW agent \in Mergeable, NEW exe \in Exes, NEW v \in HooksValue(agent),
         v # Other, Bare(ListsOf(agent, v))
  PROVE  LET lists == ListsOf(agent, AddHooks(agent, exe, v)) IN
         /\ agent # "kimi" => ToSet(Subscribed(agent)) \subseteq {l.key : l \in lists}
         /\ \A l \in lists : Sublist(l.list, OurHooks) = Exactly(agent, exe, l.key)
  <1>1. CASE agent = "kimi"
    <2> DEFINE r == OurRules(agent, exe)
               w == v \o r
               k == ListAt("", w)
    <2>1. v \in Seq(Hook) /\ r \in Seq(Hook) /\ r \in Seq(OurHooks)
      BY <1>1, OurRulesType DEF HooksValue
    <2>2. v \in Seq(Foreigns)
      <3> DEFINE j == ListAt("", v)
      <3>1. j.list = v
        BY CleanedIs
      <3>2. j \in ListsOf(agent, v)
        BY <1>1 DEF ListsOf
      <3> HIDE DEF j
      <3> QED
        BY <3>1, <3>2 DEF Bare
    <2>3. Sublist(w, OurHooks) = Sublist(v, OurHooks) \o Sublist(r, OurHooks)
      BY <2>1, SublistConcat
    <2>4. Sublist(v, OurHooks) = <<>> /\ Sublist(r, OurHooks) = r
      BY <2>1, <2>2, OursInForeigns, SublistOfAll
    <2>5. Sublist(w, OurHooks) = r
      <3> HIDE DEF r, w
      <3> QED
        BY <2>1, <2>3, <2>4
    <2>6. k.list = w
      BY CleanedIs
    <2>7. AddHooks(agent, exe, v) = w /\ ListsOf(agent, w) \subseteq {k}
      BY <1>1 DEF AddHooks, ListsOf
    <2> HIDE DEF w, k
    <2> QED
      BY <1>1, <2>5, <2>6, <2>7 DEF Exactly
  <1>2. CASE agent # "kimi"
    <2> DEFINE V == Entries(agent) \union {Other}
               w == AddEvents(agent, exe, v)
               X == ToSet(v)
               F == ToSet(Subscribed(agent))
               new(e) == PairOf(e, NewEntries(agent, exe, v, e))
    <2>1. v \in EventTable(agent)
      BY <1>2 DEF HooksValue
    <2>2. w \in EventTable(agent) /\ ToSet(w) = AddedSet(agent, exe, v, F)
      BY <2>1, EventsAdded
    <2>3. w # Other /\ AddHooks(agent, exe, v) = w
      BY <1>2, <2>2, OtherAssumption DEF AddHooks
    <2>4. \A x : EventList(agent, x).key = x.key
                 /\ EventList(agent, x).list = HooksOf(agent, x.value)
      BY CleanedIs DEF EventList
    <2>5. \A x \in X : x.value # Other => HooksOf(agent, x.value) \in Seq(Foreigns)
      <3>1. \A x \in X : x.value # Other => EventList(agent, x) \in ListsOf(agent, v)
        BY <1>2 DEF ListsOf
      <3> QED
        BY <2>4, <3>1 DEF Bare
    <2>6. ASSUME NEW e \in F
          PROVE  /\ new(e).key = e /\ new(e).value # Other
                 /\ Sublist(HooksOf(agent, new(e).value), OurHooks) = <<OurHook(agent, exe, e)>>
      <3> DEFINE n == NewEntries(agent, exe, v, e)
                 h == OurHook(agent, exe, e)
                 old == IF Old(v, e) = Other THEN <<>> ELSE Old(v, e)
      <3>1. n # Other /\ HooksOf(agent, n) = Append(HooksOf(agent, old), h)
        BY <2>1, NewEntriesResult
      <3>2. h \in OurHooks
        BY OurHookType
      <3>3. new(e).key = e /\ new(e).value = n
        BY DEF PairOf
      <3>4. HooksOf(agent, old) \in Seq(Foreigns)
        <4>1. CASE old = <<>>
          <5> HIDE DEF old
          <5>1. HooksOf(agent, old) = <<>>
            BY <4>1, NoEntries
          <5>2. <<>> \in Seq(Foreigns)
            OBVIOUS
          <5> QED
            BY <5>1, <5>2
        <4>2. CASE old # <<>>
          <5>1. Old(v, e) # Other /\ old = Old(v, e) /\ Has(v, e) /\ old = Get(v, e)
            BY <4>2 DEF Old
          <5>2. PairOf(e, old) \in X
            <6>1. v \in Object(V)
              BY <2>1 DEF EventTable
            <6> HIDE DEF V, old
            <6> QED
              BY <5>1, <6>1, ObjectMembers
          <5>3. PairOf(e, old).value = old
            BY DEF PairOf
          <5> HIDE DEF old, X
          <5> QED
            BY <2>5, <5>1, <5>2, <5>3
        <4> QED
          BY <4>1, <4>2
      <3> HIDE DEF old, h, n, new
      <3>5. HooksOf(agent, old) \in Seq(Hook) /\ h \in Hook
        BY <3>2, <3>4, ForeignsAreHooks DEF Hook
      <3>6. Sublist(Append(HooksOf(agent, old), h), OurHooks)
              = Append(Sublist(HooksOf(agent, old), OurHooks), h)
        BY <3>2, <3>5, SublistAppend
      <3>7. Append(Sublist(HooksOf(agent, old), OurHooks), h) = <<h>>
        <4>1. Sublist(HooksOf(agent, old), OurHooks) = <<>>
          BY <3>4, OursInForeigns
        <4>2. Append(<<>>, h) = <<h>>
          OBVIOUS
        <4> QED
          BY <4>1, <4>2
      <3> QED
        BY <3>1, <3>3, <3>6, <3>7 DEF h
    <2> HIDE DEF new, X, F
    <2>7. ListsOf(agent, w) = {EventList(agent, x) : x \in {y \in AddedSet(agent, exe, v, F) : y.value # Other}}
      BY <1>2, <2>2, <2>3 DEF ListsOf
    <2>8. ASSUME NEW e \in F PROVE \E l \in ListsOf(agent, w) : l.key = e
      <3>1. new(e) \in AddedSet(agent, exe, v, F)
        BY DEF AddedSet, new
      <3>2. EventList(agent, new(e)) \in ListsOf(agent, w)
        BY <2>6, <2>7, <3>1
      <3> QED
        BY <2>4, <2>6, <3>2
    <2>9. ASSUME NEW l \in ListsOf(agent, w)
          PROVE  Sublist(l.list, OurHooks) = Exactly(agent, exe, l.key)
      <3>1. PICK y \in AddedSet(agent, exe, v, F) : y.value # Other /\ l = EventList(agent, y)
        BY <2>7
      <3>2. l.key = y.key /\ l.list = HooksOf(agent, y.value)
        BY <2>4, <3>1
      <3>3. CASE \E e \in F : y = new(e)
        <4>1. PICK e \in F : y = new(e)
          BY <3>3
        <4> QED
          BY <1>2, <2>6, <3>2, <4>1 DEF Exactly, F
      <3>4. CASE y \in X /\ y.key \notin F
        <4>1. Sublist(l.list, OurHooks) = <<>>
          BY <2>5, <3>1, <3>2, <3>4, OursInForeigns
        <4> QED
          BY <1>2, <3>2, <3>4, <4>1 DEF Exactly, F
      <3>5. (y \in X /\ y.key \notin F) \/ \E e \in F : y = new(e)
        BY <3>1 DEF AddedSet, X, new
      <3> QED
        BY <3>3, <3>4, <3>5
    <2> HIDE DEF w
    <2> QED
      BY <1>2, <2>3, <2>8, <2>9 DEF F
  <1> QED
    BY <1>1, <1>2

-----------------------------------------------------------------------------
(* Strip and Install, on a whole file.                                     *)

TheirsKept(agent, d, new) ==
  /\ Settings(new) = Settings(d)
  /\ ForeignLists(HookLists(agent, new)) = ForeignLists(HookLists(agent, d))

(* "Never rewrite what we didn't write" (install.rs:16-19): a strip leaves *)
(* every setting and every hook that is not ours, in its order.            *)
THEOREM StripKeepsTheirs ==
  ASSUME NEW agent \in Mergeable, NEW d \in Docs(agent)
  PROVE  Strip(agent, d) \in Docs(agent) /\ TheirsKept(agent, d, Strip(agent, d))
  <1> DEFINE new == Strip(agent, d)
  <1>1. /\ new \in Docs(agent)
        /\ HooksIn(new) = StripHooks(agent, HooksIn(d))
        /\ Rest(new, "hooks") = Rest(d, "hooks")
    BY StripResult
  <1> HIDE DEF new
  <1>2. Settings(new) = Settings(d)
    BY <1>1, SettingsOfRest
  <1>3. HooksIn(d) \in HooksValue(agent)
    BY HooksInType
  <1>4. ForeignLists(ListsOf(agent, HooksIn(new))) = ForeignLists(ListsOf(agent, HooksIn(d)))
    BY <1>1, <1>3, StripHooksKeepsForeign
  <1>5. ForeignLists(HookLists(agent, new)) = ForeignLists(HookLists(agent, d))
    BY <1>1, <1>4, ForeignListsIn
  <1> QED
    BY <1>1, <1>2, <1>5 DEF TheirsKept, new

(* So does adding our hooks to a file that has none (install_nested_hooks, *)
(* install_cursor_hooks, kimi's install_hooks).                            *)
THEOREM AddOursKeepsTheirs ==
  ASSUME NEW agent \in Mergeable, NEW exe \in Exes, NEW d \in Docs(agent)
  PROVE  AddOurs(agent, exe, d) \in Docs(agent) /\ TheirsKept(agent, d, AddOurs(agent, exe, d))
  <1> DEFINE new == AddOurs(agent, exe, d)
  <1>1. /\ new \in Docs(agent)
        /\ HooksIn(new) = AddHooks(agent, exe, HooksIn(d))
        /\ Settings(new) = Settings(d)
    BY AddOursResult
  <1> HIDE DEF new
  <1>2. HooksIn(d) \in HooksValue(agent)
    BY HooksInType
  <1>3. ForeignLists(ListsOf(agent, HooksIn(new))) = ForeignLists(ListsOf(agent, HooksIn(d)))
    BY <1>1, <1>2, AddHooksKeepsForeign
  <1>4. ForeignLists(HookLists(agent, new)) = ForeignLists(HookLists(agent, d))
    BY <1>1, <1>3, ForeignListsIn
  <1> QED
    BY <1>1, <1>4 DEF TheirsKept, new

(* So does an install, whatever hooks of ours the file had before. *)
THEOREM InstallKeepsTheirs ==
  ASSUME NEW agent \in Mergeable, NEW exe \in Exes, NEW d \in Docs(agent)
  PROVE  Install(agent, exe, d) \in Docs(agent) /\ TheirsKept(agent, d, Install(agent, exe, d))
  <1> DEFINE bare == Strip(agent, d)
             new == AddOurs(agent, exe, bare)
  <1>1. Install(agent, exe, d) = new
    BY OtherAssumption DEF Install
  <1>2. bare \in Docs(agent) /\ TheirsKept(agent, d, bare)
    BY StripKeepsTheirs
  <1> HIDE DEF bare
  <1>3. new \in Docs(agent) /\ TheirsKept(agent, bare, new)
    BY <1>2, AddOursKeepsTheirs
  <1> QED
    BY <1>1, <1>2, <1>3 DEF TheirsKept

(* A strip leaves no hook of ours, so uninstall finds nothing the next     *)
(* time (has_sailor_hook).                                                 *)
THEOREM StripTakesOurs ==
  ASSUME NEW agent \in Mergeable, NEW d \in Docs(agent)
  PROVE  ~HasSailorHook(agent, Strip(agent, d))
  BY StripResult, HooksInType, StripHooksIsBare, BareHasNone

(* Every event of the agent's has our hook for it once, and nothing else   *)
(* has one.                                                                *)
OursOnce(agent, exe, doc) ==
  LET lists == HookLists(agent, doc) IN
  /\ agent # "kimi" => ToSet(Subscribed(agent)) \subseteq {l.key : l \in lists}
  /\ \A l \in lists : Sublist(l.list, OurHooks) = Exactly(agent, exe, l.key)

(* An install leaves every hook of ours once and for the binary that runs, *)
(* whatever was there before, unless "hooks" holds a value that is no      *)
(* object or list.                                                         *)
THEOREM InstallIsExact ==
  ASSUME NEW agent \in Mergeable, NEW exe \in Exes, NEW d \in Docs(agent)
  PROVE  \/ Get(Install(agent, exe, d), "hooks") = Other
         \/ OursOnce(agent, exe, Install(agent, exe, d))
  <1> DEFINE bare == Strip(agent, d)
             v   == HooksIn(bare)
             new == AddOurs(agent, exe, bare)
  <1>1. Install(agent, exe, d) = new
    BY OtherAssumption DEF Install
  <1>2. bare \in Docs(agent) /\ v \in HooksValue(agent) /\ Bare(ListsOf(agent, v))
    BY StripResult, HooksInType, StripHooksIsBare
  <1>3. new \in Docs(agent) /\ Has(new, "hooks") /\ HooksIn(new) = AddHooks(agent, exe, v)
    BY <1>2, AddOursResult
  <1> HIDE DEF new, v
  <1>4. CASE v = Other
    BY <1>1, <1>3, <1>4 DEF HooksIn, AddHooks
  <1>5. CASE v # Other
    <2>1. HookLists(agent, new) = ListsOf(agent, AddHooks(agent, exe, v))
      BY <1>3, HookListsIs
    <2> QED
      BY <1>1, <1>2, <1>5, <2>1, AddHooksIsComplete DEF OursOnce
  <1> QED
    BY <1>4, <1>5

-----------------------------------------------------------------------------
(* Installing twice.                                                       *)

(* Entries that a strip leaves as they are. *)
Tidied(agent, X) == \A x \in X : StripEvent(agent, x) = x /\ x.value # <<>>

(* A keyed value is its key and its value. *)
LEMMA PairIs ==
  ASSUME NEW V, NEW x \in Pair(V)
  PROVE  x = PairOf(x.key, x.value)
  BY DEF Pair, PairOf

(* Stripping an event a second time changes nothing. *)
LEMMA EventStrippedTwice ==
  ASSUME NEW agent, NEW x \in Pair(Entries(agent) \union {Other})
  PROVE  StripEvent(agent, StripEvent(agent, x)) = StripEvent(agent, x)
  <1> DEFINE y == StripEvent(agent, x)
             w == StripEntries(agent, x.value)
  <1>1. CASE x.value = Other
    BY <1>1 DEF StripEvent, PairOf
  <1>2. CASE x.value # Other
    <2>1. x.value \in Entries(agent)
      BY <1>2 DEF Pair
    <2>2. w \in Entries(agent) /\ StripEntries(agent, w) = w
      BY <2>1, EntriesStripped
    <2>3. w # Other
      BY <2>2, OtherIsNoList DEF Entries
    <2>4. y = PairOf(x.key, w)
      BY <1>2 DEF StripEvent
    <2> HIDE DEF y, w
    <2>5. y.key = x.key /\ y.value = w
      BY <2>4 DEF PairOf
    <2>6. StripEvent(agent, y) = PairOf(x.key, w)
      BY <2>2, <2>3, <2>5 DEF StripEvent
    <2> QED
      BY <2>4, <2>6 DEF y
  <1> QED
    BY <1>1, <1>2

(* An event table, by the set of its entries. *)
LEMMA TableMembers ==
  ASSUME NEW agent, NEW hooks \in EventTable(agent)
  PROVE  /\ ToSet(hooks) \subseteq Pair(Entries(agent) \union {Other})
         /\ OneKey(ToSet(hooks))
         /\ \A x \in ToSet(hooks) : Has(hooks, x.key) /\ Get(hooks, x.key) = x.value
  <1> DEFINE V == Entries(agent) \union {Other}
  <1>1. hooks \in Object(V)
    BY DEF EventTable
  <1> HIDE DEF V
  <1>2. /\ ToSet(hooks) \subseteq Pair(V) /\ OneKey(ToSet(hooks))
        /\ \A x \in ToSet(hooks) : Has(hooks, x.key) /\ Get(hooks, x.key) = x.value
    BY <1>1, ObjectMembers
  <1> QED
    BY <1>2 DEF V

(* What a strip leaves of a table, another one leaves as it is. *)
LEMMA StripEventsTidies ==
  ASSUME NEW agent, NEW hooks \in EventTable(agent)
  PROVE  Tidied(agent, ToSet(StripEvents(agent, hooks)))
  <1>1. ToSet(StripEvents(agent, hooks)) = StrippedSet(agent, hooks)
    BY EventsStripped
  <1>2. \A x \in ToSet(hooks) : x \in Pair(Entries(agent) \union {Other})
    BY TableMembers
  <1> QED
    BY <1>1, <1>2, EventStrippedTwice DEF Tidied, StrippedSet

(* The list of event e that is kept, and what becomes of it. *)
LEMMA EventAddedAndStripped ==
  ASSUME NEW agent \in Mergeable, NEW exe \in Exes, NEW hooks \in EventTable(agent),
         Tidied(agent, ToSet(hooks)), NEW e \in ToSet(Subscribed(agent))
  PROVE  LET old == IF Old(hooks, e) = Other THEN <<>> ELSE Old(hooks, e) IN
         /\ NewEntries(agent, exe, hooks, e)
              = Append(old, EntryOf(agent, OurHook(agent, exe, e)))
         /\ StripEvent(agent, PairOf(e, NewEntries(agent, exe, hooks, e))) = PairOf(e, old)
         /\ old # Other
  <1> DEFINE new == NewEntries(agent, exe, hooks, e)
             old == IF Old(hooks, e) = Other THEN <<>> ELSE Old(hooks, e)
             entry == EntryOf(agent, OurHook(agent, exe, e))
             y == PairOf(e, new)
  <1>1. /\ old \in Entries(agent) /\ new # Other
        /\ StripEntries(agent, new) = StripEntries(agent, old)
    BY NewEntriesResult
  <1>2. Append(<<>>, entry) = <<entry>>
    OBVIOUS
  <1>3. new = Append(old, entry)
    BY <1>2 DEF NewEntries
  <1>4. StripEntries(agent, old) = old
    <2>1. CASE old = <<>>
      <3>1. StripEntries(agent, <<>>) = <<>>
        BY NoEntries
      <3> HIDE DEF old
      <3> QED
        BY <2>1, <3>1
    <2>2. CASE old # <<>>
      <3>1. Old(hooks, e) # Other /\ old = Old(hooks, e) /\ Has(hooks, e)
            /\ old = Get(hooks, e)
        BY <2>2 DEF Old
      <3>2. PICK x \in ToSet(hooks) : x.key = e
        BY <3>1, HasInToSet
      <3>3. x.value = old /\ StripEvent(agent, x) = x
        <4> HIDE DEF old
        <4> QED
          BY <3>1, <3>2, TableMembers DEF Tidied
      <3>4. StripEvent(agent, x).value = StripEntries(agent, x.value)
        BY <3>1, <3>3 DEF StripEvent, PairOf
      <3> HIDE DEF old
      <3> QED
        BY <3>3, <3>4
    <2> QED
      BY <2>1, <2>2
  <1>5. y.key = e /\ y.value = new
    BY DEF PairOf
  <1>6. StripEvent(agent, y) = PairOf(e, StripEntries(agent, new))
    <2> HIDE DEF y, new
    <2> QED
      BY <1>1, <1>5 DEF StripEvent
  <1>7. old # Other
    BY OtherIsNoList
  <1> HIDE DEF old, entry, new
  <1> QED
    BY <1>1, <1>3, <1>4, <1>6, <1>7 DEF old, entry, new

(* Strip and add again what was added: the same entries. *)
LEMMA AddEventsTwice ==
  ASSUME NEW agent \in Mergeable, NEW exe \in Exes, NEW hooks \in EventTable(agent),
         Tidied(agent, ToSet(hooks))
  PROVE  LET once == AddEvents(agent, exe, hooks) IN
         ToSet(AddEvents(agent, exe, StripEvents(agent, once))) = ToSet(once)
  <1> DEFINE once == AddEvents(agent, exe, hooks)
             bare == StripEvents(agent, once)
             twice == AddEvents(agent, exe, bare)
             F == ToSet(Subscribed(agent))
             X == ToSet(hooks)
             old(e) == IF Old(hooks, e) = Other THEN <<>> ELSE Old(hooks, e)
             new(e) == NewEntries(agent, exe, hooks, e)
  <1>1. once \in EventTable(agent) /\ ToSet(once) = AddedSet(agent, exe, hooks, F)
    BY EventsAdded
  <1> HIDE DEF once
  <1>2. bare \in EventTable(agent) /\ ToSet(bare) = StrippedSet(agent, once)
    BY <1>1, EventsStripped
  <1> HIDE DEF bare
  <1>3. ToSet(twice) = AddedSet(agent, exe, bare, F)
    BY <1>2, EventsAdded
  <1>4. ASSUME NEW e \in F
        PROVE  /\ StripEvent(agent, PairOf(e, new(e))) = PairOf(e, old(e)) /\ old(e) # Other
               /\ new(e) = Append(old(e), EntryOf(agent, OurHook(agent, exe, e)))
    BY EventAddedAndStripped
  <1>5. \A k, w : PairOf(k, w).key = k /\ PairOf(k, w).value = w
    BY DEF PairOf
  <1> HIDE DEF old, new, F, X
  <1>6. ToSet(bare) = {x \in X : x.key \notin F}
                        \union {p \in {PairOf(e, old(e)) : e \in F} : p.value # <<>>}
    <2>1. \A x \in X : StripEvent(agent, x) = x /\ x.value # <<>>
      BY DEF Tidied, X
    <2>2. ToSet(once) = {x \in X : x.key \notin F} \union {PairOf(e, new(e)) : e \in F}
      BY <1>1 DEF AddedSet, X, new
    <2>3. StrippedSet(agent, once)
            = {y \in {StripEvent(agent, x) : x \in ToSet(once)} : y.value # <<>>}
      BY DEF StrippedSet
    <2>4. {StripEvent(agent, x) : x \in ToSet(once)}
            = {x \in X : x.key \notin F} \union {PairOf(e, old(e)) : e \in F}
      BY <1>4, <2>1, <2>2
    <2> QED
      BY <1>2, <2>1, <2>3, <2>4
  <1>7. ASSUME NEW e \in F PROVE Old(bare, e) = old(e)
    <2>1. CASE old(e) = <<>>
      <3>1. \A x \in ToSet(bare) : x.key # e
        BY <1>5, <1>6, <2>1
      <3>2. ~Has(bare, e)
        BY <3>1, HasInToSet
      <3> QED
        BY <2>1, <3>2 DEF Old
    <2>2. CASE old(e) # <<>>
      <3> DEFINE x == PairOf(e, old(e))
      <3>1. x.key = e /\ x.value = old(e)
        BY <1>5
      <3>2. x \in ToSet(bare)
        BY <1>6, <2>2, <3>1
      <3> HIDE DEF x
      <3>3. Has(bare, e) /\ Get(bare, e) = old(e)
        BY <1>2, <3>1, <3>2, TableMembers
      <3> QED
        BY <3>3 DEF Old
    <2> QED
      BY <2>1, <2>2
  <1>8. ASSUME NEW e \in F PROVE NewEntries(agent, exe, bare, e) = new(e)
    <2>1. Old(bare, e) = old(e) /\ old(e) # Other
      BY <1>4, <1>7
    <2> QED
      BY <1>4, <2>1 DEF NewEntries
  <1>9. \A x : x.key \notin F => (x \in ToSet(bare) <=> x \in X)
    BY <1>5, <1>6
  <1>10. ToSet(twice) = {x \in X : x.key \notin F} \union {PairOf(e, new(e)) : e \in F}
    <2>1. {x \in ToSet(bare) : x.key \notin F} = {x \in X : x.key \notin F}
      BY <1>9
    <2>2. {PairOf(e, NewEntries(agent, exe, bare, e)) : e \in F} = {PairOf(e, new(e)) : e \in F}
      BY <1>8
    <2> QED
      BY <1>3, <2>1, <2>2 DEF AddedSet
  <1> QED
    BY <1>1, <1>10 DEF AddedSet, X, new, once, bare

(* Two values of "hooks" that differ at most in the order of the events.   *)
SameHooks(agent, v, w) ==
  IF agent # "kimi" /\ v # Other THEN w # Other /\ ToSet(v) = ToSet(w) ELSE v = w

(* The same of the hooks of a file, in all three layouts. *)
LEMMA AddHooksTwice ==
  ASSUME NEW agent \in Mergeable, NEW exe \in Exes, NEW v \in HooksValue(agent)
  PROVE  LET once == AddHooks(agent, exe, StripHooks(agent, v)) IN
         SameHooks(agent, once, AddHooks(agent, exe, StripHooks(agent, once)))
  <1> DEFINE w == StripHooks(agent, v)
             once == AddHooks(agent, exe, w)
             twice == AddHooks(agent, exe, StripHooks(agent, once))
  <1>1. CASE v = Other
    BY <1>1 DEF StripHooks, AddHooks, SameHooks
  <1>2. CASE v # Other /\ agent = "kimi"
    <2> DEFINE u == WithoutOurs(v)
               r == OurRules(agent, exe)
    <2>1. v \in Seq(Hook) /\ r \in Seq(Hook) /\ r \in Seq(OurHooks)
      BY <1>2, OurRulesType DEF HooksValue
    <2>2. u \in Seq(Hook) /\ u # Other /\ WithoutOurs(u) = u
      BY <2>1, WithoutOursType, WithoutOursIdempotent, OtherIsNoList
    <2>3. w = u
      BY <1>2 DEF StripHooks
    <2> HIDE DEF u, r, w
    <2>4. once = u \o r
      BY <1>2, <2>2, <2>3 DEF AddHooks, r
    <2>5. u \o r \in Seq(Hook)
      BY <2>1, <2>2
    <2>6. WithoutOurs(r) = <<>>
      BY <2>1, WithoutOursOfOurs
    <2>7. WithoutOurs(u \o r) = u
      <3>1. WithoutOurs(u \o r) = u \o <<>>
        BY <2>1, <2>2, <2>6, WithoutOursConcat
      <3>2. u \o <<>> = u
        BY <2>2
      <3> QED
        BY <3>1, <3>2
    <2>8. StripHooks(agent, once) = u
      BY <1>2, <2>4, <2>5, <2>7, OtherIsNoList DEF StripHooks
    <2> QED
      BY <1>2, <2>3, <2>8 DEF SameHooks, w
  <1>3. CASE v # Other /\ agent # "kimi"
    <2>1. v \in EventTable(agent)
      BY <1>3 DEF HooksValue
    <2>2. w = StripEvents(agent, v)
      BY <1>3 DEF StripHooks
    <2>3. w \in EventTable(agent) /\ Tidied(agent, ToSet(w))
      BY <2>1, <2>2, EventsStripped, StripEventsTidies
    <2> HIDE DEF w
    <2>4. w # Other /\ once = AddEvents(agent, exe, w)
      BY <1>3, <2>3, OtherAssumption DEF AddHooks
    <2> HIDE DEF once
    <2>5. once \in EventTable(agent) /\ once # Other
      BY <2>3, <2>4, EventsAdded, OtherAssumption
    <2>6. StripHooks(agent, once) = StripEvents(agent, once)
      BY <1>3, <2>5 DEF StripHooks
    <2>7. StripEvents(agent, once) \in EventTable(agent) /\ StripEvents(agent, once) # Other
      BY <2>5, EventsStripped, OtherAssumption
    <2>8. twice = AddEvents(agent, exe, StripEvents(agent, once))
      BY <1>3, <2>6, <2>7 DEF AddHooks
    <2>9. twice \in EventTable(agent) /\ twice # Other
      BY <2>7, <2>8, EventsAdded, OtherAssumption
    <2>10. ToSet(twice) = ToSet(once)
      BY <2>3, <2>4, <2>8, AddEventsTwice
    <2> HIDE DEF twice
    <2> QED
      BY <1>3, <2>5, <2>9, <2>10 DEF SameHooks, twice, once, w
  <1> QED
    BY <1>1, <1>2, <1>3

(* All of an installed file but its hooks; Cursor's has its version.       *)
LEMMA AddOursRest ==
  ASSUME NEW agent \in Mergeable, NEW exe \in Exes, NEW bare \in Docs(agent)
  PROVE  /\ agent = "cursor" => Has(AddOurs(agent, exe, bare), "version")
         /\ (agent = "cursor" => Has(bare, "version"))
              => Rest(AddOurs(agent, exe, bare), "hooks") = Rest(bare, "hooks")
  <1> DEFINE root == Versioned(agent, bare)
             doc  == OrElse(root, "hooks", <<>>)
             v    == Get(doc, "hooks")
             new  == AddOurs(agent, exe, bare)
  <1>1. root \in Docs(agent) /\ (agent = "cursor" => Has(root, "version"))
    <2>1. bare \in Object(DocValue(agent)) /\ Theirs \in DocValue(agent) /\ "version" \in Key
      BY DocMembers DEF DocValue, Key
    <2>2. ToSet(Put(bare, "version", Theirs))
            = Rest(bare, "version") \union {PairOf("version", Theirs)}
      BY <2>1, PutResult
    <2>3. PairOf("version", Theirs).key = "version"
      BY DEF PairOf
    <2>4. Has(Put(bare, "version", Theirs), "version")
      BY <2>2, <2>3, HasInToSet
    <2> QED
      BY <2>4, PutVersion DEF OrElse, Versioned
  <1>2. (agent = "cursor" => Has(bare, "version")) => root = bare
    BY DEF OrElse, Versioned
  <1> HIDE DEF root
  <1>3. doc \in Docs(agent) /\ Rest(doc, "hooks") = Rest(root, "hooks") /\ Has(doc, "hooks")
    <2> DEFINE e == <<>>
    <2>1. e \in HooksValue(agent)
      BY EmptyObject DEF HooksValue, EventTable
    <2>2. doc = IF Has(root, "hooks") THEN root ELSE Put(root, "hooks", e)
      BY DEF OrElse
    <2> HIDE DEF e, doc
    <2> QED
      BY <1>1, <2>1, <2>2, PutHooks
  <1>4. new = IF v = Other THEN doc ELSE Put(doc, "hooks", AddHooks(agent, exe, v))
    BY AddOursIs DEF root
  <1>5. AddHooks(agent, exe, v) \in HooksValue(agent)
    <2>1. v \in HooksValue(agent)
      <3> HIDE DEF doc
      <3> QED
        BY <1>3, HooksInType DEF HooksIn
    <2> QED
      BY <2>1, AddHooksType
  <1> HIDE DEF doc, v, new
  <1>6. Rest(new, "hooks") = Rest(root, "hooks")
    BY <1>3, <1>4, <1>5, PutHooks
  <1>7. \A m : Has(m, "version") <=> \E x \in Rest(m, "hooks") : x.key = "version"
    BY HasInToSet DEF Rest
  <1> QED
    BY <1>1, <1>2, <1>6, <1>7 DEF new

(* Installing twice is installing once (install.rs:18-19): the second      *)
(* install changes at most the order of the events.                        *)
THEOREM InstallTwice ==
  ASSUME NEW agent \in Mergeable, NEW exe \in Exes, NEW d \in Docs(agent)
  PROVE  LET once  == Install(agent, exe, d)
             twice == Install(agent, exe, once)
         IN /\ once \in Docs(agent) /\ twice \in Docs(agent)
            /\ Has(once, "hooks") /\ Has(twice, "hooks")
            /\ Rest(twice, "hooks") = Rest(once, "hooks")
            /\ SameHooks(agent, HooksIn(once), HooksIn(twice))
  <1> DEFINE bare == Strip(agent, d)
             once == AddOurs(agent, exe, bare)
             again == Strip(agent, once)
             twice == AddOurs(agent, exe, again)
  <1>1. bare \in Docs(agent) /\ HooksIn(bare) = StripHooks(agent, HooksIn(d))
    BY StripResult
  <1> HIDE DEF bare
  <1>2. /\ once \in Docs(agent) /\ Has(once, "hooks")
        /\ HooksIn(once) = AddHooks(agent, exe, HooksIn(bare))
        /\ agent = "cursor" => Has(once, "version")
    BY <1>1, AddOursResult, AddOursRest
  <1> HIDE DEF once
  <1>3. /\ again \in Docs(agent) /\ HooksIn(again) = StripHooks(agent, HooksIn(once))
        /\ Rest(again, "hooks") = Rest(once, "hooks")
    BY <1>2, StripResult
  <1> HIDE DEF again
  <1>4. agent = "cursor" => Has(again, "version")
    <2>1. \A m : Has(m, "version") <=> \E x \in Rest(m, "hooks") : x.key = "version"
      BY HasInToSet DEF Rest
    <2> QED
      BY <1>2, <1>3, <2>1
  <1>5. /\ twice \in Docs(agent) /\ Has(twice, "hooks")
        /\ HooksIn(twice) = AddHooks(agent, exe, HooksIn(again))
        /\ Rest(twice, "hooks") = Rest(again, "hooks")
    BY <1>3, <1>4, AddOursResult, AddOursRest
  <1>6. SameHooks(agent, HooksIn(once), HooksIn(twice))
    <2>1. HooksIn(d) \in HooksValue(agent)
      BY HooksInType
    <2> QED
      BY <1>1, <1>2, <1>3, <1>5, <2>1, AddHooksTwice
  <1>7. Install(agent, exe, d) = once /\ Install(agent, exe, once) = twice
    BY <1>2, OtherAssumption DEF Install, once, bare, again
  <1> QED
    BY <1>2, <1>3, <1>5, <1>6, <1>7

-----------------------------------------------------------------------------
(* Taking an install back.                                                 *)

(* m has the keys of base in their places, and after them others.          *)
Extends(m, base) ==
  /\ Len(base) <= Len(m)
  /\ \A i \in DOMAIN base : m[i].key = base[i].key
  /\ \A i \in DOMAIN m : i > Len(base) => ~Has(base, m[i].key)

(* A new value leaves the keys in their places, or adds one at the end. *)
LEMMA PutExtends ==
  ASSUME NEW V, NEW base \in Object(V), NEW m \in Object(V), Extends(m, base),
         NEW k, NEW v
  PROVE  Extends(Put(m, k, v), base)
  <1> DEFINE new == [key |-> k, value |-> v]
             p == Put(m, k, v)
  <1> SUFFICES Extends(p, base)
    OBVIOUS
  <1>1. PICK N \in Nat : N = Len(m) /\ DOMAIN m = 1..N
    BY ObjectMembers
  <1>2. PICK K \in Nat : K = Len(base) /\ DOMAIN base = 1..K
    BY ObjectMembers
  <1>3. K <= N
    BY <1>1, <1>2 DEF Extends
  <1>4. m \in Seq(Pair(V))
    BY ObjectMembers
  <1>5. CASE Has(m, k)
    <2>1. p = [i \in 1..N |-> IF m[i].key = k THEN new ELSE m[i]]
      BY <1>1, <1>5 DEF Put
    <2>2. Len(p) = N /\ DOMAIN p = 1..N
      BY <2>1
    <2>3. \A i \in 1..N : p[i].key = m[i].key
      BY <2>1
    <2> HIDE DEF p
    <2> QED
      BY <1>1, <1>2, <1>3, <2>2, <2>3 DEF Extends
  <1>6. CASE ~Has(m, k)
    <2>1. p = Append(m, new)
      BY <1>6 DEF Put
    <2>2. Len(p) = N + 1 /\ DOMAIN p = 1..(N + 1)
      BY <1>1, <1>4, <2>1
    <2>3. \A i \in 1..N : p[i] = m[i]
      BY <1>1, <1>4, <2>1
    <2>4. p[N + 1] = new
      BY <1>1, <1>4, <2>1
    <2>5. ~Has(base, k)
      <3>1. SUFFICES ASSUME NEW i \in 1..K, base[i].key = k PROVE FALSE
        BY <1>2 DEF Has
      <3>2. i \in 1..N /\ m[i].key = k
        BY <1>2, <1>3, <3>1 DEF Extends
      <3> QED
        BY <1>1, <1>6, <3>2 DEF Has
    <2>6. p[N + 1].key = k
      BY <2>4
    <2> HIDE DEF p, new
    <2>7. \A i \in 1..K : p[i].key = base[i].key
      BY <1>2, <1>3, <2>3 DEF Extends
    <2>8. ASSUME NEW i \in 1..(N + 1), i > K PROVE ~Has(base, p[i].key)
      BY <1>1, <1>2, <2>3, <2>5, <2>6, <2>8 DEF Extends
    <2> QED
      BY <1>2, <1>3, <2>2, <2>7, <2>8 DEF Extends
  <1> QED
    BY <1>5, <1>6

(* The events an install adds come after those that were there. *)
LEMMA AddEventsExtends ==
  ASSUME NEW agent \in Mergeable, NEW exe \in Exes, NEW hooks \in EventTable(agent)
  PROVE  Extends(AddEvents(agent, exe, hooks), hooks)
  <1> DEFINE t == Subscribed(agent)
             f == Adding(agent, exe, hooks, t)
             S == {n \in Nat : n <= Len(t) => Extends(f[n], hooks)}
             V == Entries(agent) \union {Other}
  <1>1. PICK N \in Nat : N = Len(t) /\ DOMAIN t = 1..N
    BY SubscribedOnce
  <1>2. /\ f[0] = hooks
        /\ \A n \in 1..N : f[n] = AddEntry(agent, exe, f[n - 1], t[n])
        /\ \A n \in 0..N : f[n] \in EventTable(agent)
    BY <1>1, AddingSteps
  <1>3. EventTable(agent) = Object(V)
    BY DEF EventTable
  <1> HIDE DEF f, t, V
  <1>4. 0 \in S
    <2>1. hooks \in Seq(Pair(V))
      BY <1>3, ObjectMembers
    <2>2. Extends(hooks, hooks)
      BY <2>1 DEF Extends
    <2> QED
      BY <1>2, <2>2
  <1>5. ASSUME NEW n \in Nat, n \in S PROVE n + 1 \in S
    <2>1. SUFFICES ASSUME n + 1 <= N PROVE Extends(f[n + 1], hooks)
      BY <1>1
    <2>2. n + 1 \in 1..N /\ (n + 1) - 1 = n /\ n \in 0..N /\ Extends(f[n], hooks)
      BY <1>1, <1>5, <2>1
    <2>3. f[n + 1] = Put(f[n], t[n + 1], NewEntries(agent, exe, f[n], t[n + 1]))
      BY <1>2, <2>2, AddEntryIs
    <2>4. f[n] \in Object(V)
      BY <1>2, <1>3, <2>2
    <2> QED
      BY <1>3, <2>2, <2>3, <2>4, PutExtends
  <1>6. N \in S
    <2> HIDE DEF S
    <2> QED
      BY <1>1, <1>4, <1>5, NatInd
  <1> QED
    BY <1>1, <1>6 DEF AddEvents, f, t

(* What was added and is empty again goes from the end. *)
LEMMA EmptiedTail ==
  ASSUME NEW V, NEW base \in Object(V), NEW s \in Object(V), Len(base) <= Len(s),
         \A i \in DOMAIN base : s[i] = base[i] /\ base[i].value # <<>>,
         \A i \in DOMAIN s : i > Len(base) => s[i].value = <<>>
  PROVE  LeftOver(s, Emptied(s))[Len(Emptied(s))] = base
  <1> DEFINE e == Emptied(s)
             f == LeftOver(s, e)
             Prefix(m) == Len(base) <= Len(m) /\ \A i \in DOMAIN base : m[i] = base[i]
             S == {n \in Nat : n <= Len(e) => Prefix(f[n])}
             E == {x \in ToSet(s) : x.value = <<>>}
  <1>1. base \in Seq(Pair(V)) /\ s \in Seq(Pair(V)) /\ OneOfEach(s)
    BY ObjectMembers
  <1>2. e \in Object(V)
    BY SublistOfObject DEF Emptied
  <1>3. ToSet(e) = E
    BY <1>1, SublistKeeps DEF Emptied
  <1>4. e \in Seq(Pair(V)) /\ OneOfEach(e)
    BY <1>2, ObjectMembers
  <1>5. PICK N \in Nat : N = Len(e) /\ DOMAIN e = 1..N
    BY <1>4
  <1>6. PICK K \in Nat : K = Len(base) /\ DOMAIN base = 1..K
    BY <1>1
  <1>7. PICK L \in Nat : L = Len(s) /\ DOMAIN s = 1..L
    BY <1>1
  <1>8. /\ f[0] = s
        /\ \A n \in 1..N : f[n] = SwapRemove(f[n - 1], e[n].key)
    BY <1>1, <1>4, <1>5, LeftSteps
  <1>9. \A n \in 0..N : f[n] \in Object(V) /\ ToSet(f[n]) = ToSet(s) \ Taken(e, n)
    BY <1>2, <1>3, <1>5, LeftWithout
  <1> HIDE DEF f, e
  <1>10. 0 \in S
    BY <1>8
  <1>11. ASSUME NEW n \in Nat, n \in S PROVE n + 1 \in S
    <2>1. SUFFICES ASSUME n + 1 <= N PROVE Prefix(f[n + 1])
      BY <1>5
    <2>2. n + 1 \in 1..N /\ (n + 1) - 1 = n /\ n \in 0..N /\ Prefix(f[n])
      BY <1>5, <1>11, <2>1
    <2> DEFINE x == e[n + 1]
               m == f[n]
    <2>3. x \in E
      <3>1. x \in ToSet(e)
        BY <1>5, <2>2, InToSet
      <3> QED
        BY <1>3, <3>1
    <2>4. \A i \in 1..K : base[i].key # x.key
      <3>1. PICK j \in 1..L : s[j] = x
        BY <1>7, <2>3 DEF ToSet
      <3>2. j > K
        BY <1>6, <1>7, <2>3, <3>1
      <3>3. \A i \in 1..K : i \in 1..L /\ i # j
        BY <1>6, <1>7, <3>2
      <3>4. \A i \in 1..K : s[i].key # s[j].key
        BY <1>1, <1>7, <3>1, <3>3 DEF OneOfEach
      <3> QED
        BY <1>6, <3>1, <3>4
    <2>5. m \in Object(V) /\ x \in ToSet(m)
      <3>1. x \notin Taken(e, n)
        <4>1. \A i \in 1..n : i \in 1..N /\ i # n + 1
          BY <2>1
        <4>2. \A i \in 1..n : e[i].key # x.key
          BY <1>4, <1>5, <2>2, <4>1 DEF OneOfEach
        <4> QED
          BY <4>2 DEF Taken
      <3> QED
        BY <1>9, <2>2, <2>3, <3>1
    <2>6. m \in Seq(Pair(V))
      BY <2>5, ObjectMembers
    <2>7. PICK M \in Nat : M = Len(m) /\ DOMAIN m = 1..M
      BY <2>6
    <2>8. PICK j \in 1..M : m[j] = x
      BY <2>5, <2>7 DEF ToSet
    <2>9. j > K
      <3>1. \A i \in 1..K : m[i].key # x.key
        BY <1>6, <2>2, <2>4
      <3> QED
        BY <2>8, <3>1
    <2>10. f[n + 1] = SwapRemove(m, x.key)
      BY <1>8, <2>2
    <2> HIDE DEF x, m
    <2>11. /\ SwapRemove(m, x.key) \in Seq(Pair(V))
           /\ Len(SwapRemove(m, x.key)) = M - 1
           /\ \A i \in 1..(M - 1) :
                SwapRemove(m, x.key)[i] = IF m[i].key = x.key THEN m[M] ELSE m[i]
      BY <2>6, <2>7, <2>8, SwapRemoveType
    <2>12. \A i \in 1..K : i \in 1..(M - 1) /\ m[i] = base[i]
      BY <1>6, <2>2, <2>7, <2>9 DEF m
    <2>13. \A i \in 1..K : SwapRemove(m, x.key)[i] = base[i]
      BY <2>4, <2>11, <2>12
    <2> QED
      BY <1>6, <2>9, <2>10, <2>11, <2>13
  <1>12. N \in S
    <2> HIDE DEF S
    <2> QED
      BY <1>10, <1>11, NatInd
  <1> DEFINE r == f[N]
  <1>13. r \in Object(V) /\ ToSet(r) = ToSet(s) \ E /\ Prefix(r)
    <2>1. Taken(e, N) = ToSet(e)
      BY <1>5 DEF Taken, ToSet
    <2> QED
      BY <1>3, <1>5, <1>9, <1>12, <2>1
  <1>14. r \in Seq(Pair(V)) /\ OneOfEach(r)
    BY <1>13, ObjectMembers
  <1>15. PICK R \in Nat : R = Len(r) /\ DOMAIN r = 1..R
    BY <1>14
  <1> HIDE DEF r
  <1>16. R = K
    <2>1. SUFFICES ASSUME R # K PROVE FALSE
      OBVIOUS
    <2>2. K + 1 \in 1..R
      BY <1>6, <1>13, <1>15, <2>1
    <2>3. r[K + 1] \in ToSet(s) \ E
      <3>1. r[K + 1] \in ToSet(r)
        BY <1>15, <2>2, InToSet
      <3> QED
        BY <1>13, <3>1
    <2>4. PICK j \in 1..L : s[j] = r[K + 1]
      BY <1>7, <2>3 DEF ToSet
    <2>5. j \in 1..K
      BY <1>6, <1>7, <2>3, <2>4
    <2>6. r[j] = r[K + 1] /\ j \in 1..R /\ j # K + 1
      BY <1>6, <1>13, <2>2, <2>4, <2>5
    <2> QED
      BY <1>14, <1>15, <2>2, <2>6 DEF OneOfEach
  <1>17. r = base
    BY <1>1, <1>6, <1>13, <1>14, <1>15, <1>16
  <1> QED
    BY <1>5, <1>17 DEF r, f, e

(* Strip takes back what install added to the events, if none of them was  *)
(* replaced and strip leaves them as they are.                             *)
LEMMA StripAddedEvents ==
  ASSUME NEW agent \in Mergeable, NEW exe \in Exes, NEW hooks \in EventTable(agent),
         Tidied(agent, ToSet(hooks)),
         \A e \in ToSet(Subscribed(agent)) : Old(hooks, e) # Other
  PROVE  StripEvents(agent, AddEvents(agent, exe, hooks)) = hooks
  <1> DEFINE all == AddEvents(agent, exe, hooks)
             V == Entries(agent) \union {Other}
             s == AllStripped(agent, all)
             F == ToSet(Subscribed(agent))
  <1>1. /\ all \in Object(V)
        /\ ToSet(all) = AddedSet(agent, exe, hooks, F)
        /\ Extends(all, hooks)
    BY EventsAdded, AddEventsExtends DEF EventTable
  <1>2. hooks \in Object(V) /\ hooks \in Seq(Pair(V)) /\ all \in Seq(Pair(V))
    BY <1>1, ObjectMembers DEF EventTable
  <1> HIDE DEF all, V, F
  <1>3. PICK K \in Nat : K = Len(hooks) /\ DOMAIN hooks = 1..K
    BY <1>2
  <1>4. PICK L \in Nat : L = Len(all) /\ DOMAIN all = 1..L
    BY <1>2
  <1>5. K <= L
    BY <1>1, <1>3, <1>4 DEF Extends
  <1>6. s = [i \in 1..L |-> StripEvent(agent, all[i])]
    <2>1. \A i \in 1..L : all[i] \in Pair(V)
      BY <1>2, <1>4
    <2>2. \A i \in 1..L : s[i] = StripEvent(agent, all[i])
      BY <1>4, <2>1 DEF AllStripped, StripEvent, PairOf, Pair
    <2> QED
      BY <1>4, <2>2 DEF AllStripped
  <1> HIDE DEF s
  <1>7. \A e \in F : StripEvent(agent, PairOf(e, NewEntries(agent, exe, hooks, e)))
                       = PairOf(e, Old(hooks, e))
    BY EventAddedAndStripped DEF F
  <1>8. \A i \in 1..L : \/ all[i] \in ToSet(hooks) /\ all[i].key \notin F
                        \/ \E e \in F : all[i] = PairOf(e, NewEntries(agent, exe, hooks, e))
    <2>1. \A i \in 1..L : all[i] \in AddedSet(agent, exe, hooks, F)
      BY <1>1, <1>4, InToSet
    <2> QED
      BY <2>1 DEF AddedSet
  <1>9. ASSUME NEW i \in 1..K PROVE s[i] = hooks[i] /\ hooks[i].value # <<>>
    <2>1. hooks[i] \in ToSet(hooks) /\ hooks[i] \in Pair(V)
      BY <1>2, <1>3, InToSet
    <2>2. hooks[i].value # <<>>
      BY <2>1 DEF Tidied
    <2>3. /\ i \in 1..L /\ all[i].key = hooks[i].key
          /\ Has(hooks, hooks[i].key) /\ Get(hooks, hooks[i].key) = hooks[i].value
      BY <1>1, <1>2, <1>3, <1>5, <2>1, ObjectMembers DEF Extends
    <2>4. s[i] = StripEvent(agent, all[i])
      BY <1>6, <2>3
    <2>5. CASE all[i] \in ToSet(hooks)
      <3>1. all[i] = hooks[i]
        <4>1. OneKey(ToSet(hooks))
          BY <1>2, ObjectMembers
        <4> QED
          BY <2>1, <2>3, <2>5, <4>1 DEF OneKey
      <3> QED
        BY <2>1, <2>2, <2>4, <3>1 DEF Tidied
    <2>6. ASSUME NEW e \in F, all[i] = PairOf(e, NewEntries(agent, exe, hooks, e))
          PROVE  s[i] = hooks[i]
      <3>1. e = hooks[i].key
        BY <2>3, <2>6 DEF PairOf
      <3>2. Old(hooks, e) = hooks[i].value
        BY <2>3, <3>1 DEF Old
      <3>3. s[i] = PairOf(e, Old(hooks, e))
        BY <1>7, <2>4, <2>6
      <3>4. hooks[i] = PairOf(hooks[i].key, hooks[i].value)
        BY <2>1, PairIs
      <3> QED
        BY <3>1, <3>2, <3>3, <3>4
    <2> QED
      BY <1>8, <2>2, <2>3, <2>5, <2>6
  <1>10. ASSUME NEW i \in 1..L, i > K PROVE s[i].value = <<>>
    <2>1. ~Has(hooks, all[i].key)
      BY <1>1, <1>3, <1>4, <1>10 DEF Extends
    <2>2. all[i] \notin ToSet(hooks)
      BY <2>1, HasInToSet
    <2>3. PICK e \in F : all[i] = PairOf(e, NewEntries(agent, exe, hooks, e))
      BY <1>8, <2>2
    <2>4. Old(hooks, e) = <<>>
      BY <2>1, <2>3 DEF Old, PairOf
    <2>5. s[i] = PairOf(e, <<>>)
      BY <1>6, <1>7, <2>3, <2>4
    <2> QED
      BY <2>5 DEF PairOf
  <1>11. s \in Object(V)
    <2>1. \A i \in 1..L : all[i] \in Pair(V) /\ all[i].key \in Key
      <3>1. \A i \in 1..L : all[i] \in Pair(V)
        BY <1>2, <1>4
      <3> QED
        BY <3>1 DEF Pair
    <2>2. \A i \in 1..L : StripEvent(agent, all[i]) \in Pair(V)
      <3>1. \A i \in 1..L : all[i].value \in V
        BY <2>1 DEF Pair
      <3>2. \A x \in V : (IF x = Other THEN Other ELSE StripEntries(agent, x)) \in V
        BY EntriesStripped DEF V
      <3> QED
        BY <2>1, <3>1, <3>2 DEF StripEvent, PairOf, Pair
    <2>3. s \in Seq(Pair(V)) /\ Len(s) = L /\ DOMAIN s = 1..L
      BY <1>6, <2>2
    <2>4. \A i \in 1..L : s[i].key = all[i].key
      BY <1>6 DEF StripEvent, PairOf
    <2>5. OneOfEach(all)
      BY <1>1, ObjectMembers
    <2>6. OneOfEach(s)
      BY <1>4, <2>3, <2>4, <2>5 DEF OneOfEach
    <2> QED
      BY <2>3, <2>6 DEF Object
  <1>12. Len(s) = L /\ DOMAIN s = 1..L
    BY <1>6
  <1>13. LeftOver(s, Emptied(s))[Len(Emptied(s))] = hooks
    BY <1>2, <1>3, <1>5, <1>9, <1>10, <1>11, <1>12, EmptiedTail
  <1> QED
    BY <1>13, StripEventsIs DEF s, all

(* Strip takes back what install added to the hooks. *)
LEMMA StripAddedHooks ==
  ASSUME NEW agent \in Mergeable, NEW exe \in Exes, NEW v \in HooksValue(agent),
         v # Other, StripHooks(agent, v) = v,
         agent # "kimi" => \A e \in ToSet(Subscribed(agent)) : Old(v, e) # Other
  PROVE  /\ AddHooks(agent, exe, v) # Other
         /\ AddHooks(agent, exe, v) \in HooksValue(agent)
         /\ StripHooks(agent, AddHooks(agent, exe, v)) = v
  <1>1. AddHooks(agent, exe, v) \in HooksValue(agent)
    BY AddHooksType
  <1>2. CASE agent = "kimi"
    <2> DEFINE r == OurRules(agent, exe)
    <2>1. v \in Seq(Hook) /\ r \in Seq(Hook) /\ r \in Seq(OurHooks)
      BY <1>2, OurRulesType DEF HooksValue
    <2>2. AddHooks(agent, exe, v) = v \o r
      BY <1>2 DEF AddHooks
    <2> HIDE DEF r
    <2>3. v \o r \in Seq(Hook) /\ v \o r # Other
      <3>1. v \o r \in Seq(Hook)
        BY <2>1
      <3> QED
        BY <3>1, OtherIsNoList
    <2>4. WithoutOurs(v) = v
      BY <1>2 DEF StripHooks
    <2>5. WithoutOurs(v \o r) = WithoutOurs(v) \o WithoutOurs(r)
      BY <2>1, WithoutOursConcat
    <2>6. WithoutOurs(r) = <<>>
      BY <2>1, WithoutOursOfOurs
    <2>7. v \o <<>> = v
      BY <2>1
    <2> QED
      BY <1>1, <1>2, <2>2, <2>3, <2>4, <2>5, <2>6, <2>7 DEF StripHooks
  <1>3. CASE agent # "kimi"
    <2>1. v \in EventTable(agent) /\ StripEvents(agent, v) = v
      BY <1>3 DEF HooksValue, StripHooks
    <2>2. Tidied(agent, ToSet(v))
      BY <2>1, StripEventsTidies
    <2>3. AddHooks(agent, exe, v) = AddEvents(agent, exe, v)
      BY <1>3 DEF AddHooks
    <2>4. AddEvents(agent, exe, v) # Other
      BY <2>1, EventsAdded, OtherAssumption
    <2>5. StripEvents(agent, AddEvents(agent, exe, v)) = v
      BY <1>3, <2>1, <2>2, StripAddedEvents
    <2> QED
      BY <1>1, <1>3, <2>3, <2>4, <2>5 DEF StripHooks
  <1> QED
    BY <1>2, <1>3

(* A setting put back to what it was. *)
LEMMA PutTwice ==
  ASSUME NEW V, NEW m \in Object(V), NEW k, NEW v, Has(m, k)
  PROVE  Put(Put(m, k, v), k, Get(m, k)) = m
  <1> DEFINE p == Put(m, k, v)
  <1>1. m \in Seq(Pair(V)) /\ ToSet(m) \subseteq Pair(V)
    BY ObjectMembers
  <1>2. PICK N \in Nat : N = Len(m) /\ DOMAIN m = 1..N
    BY <1>1
  <1>3. p = [i \in 1..N |-> IF m[i].key = k THEN PairOf(k, v) ELSE m[i]]
    BY <1>2 DEF Put, PairOf
  <1>4. DOMAIN p = 1..N /\ \A i \in 1..N : p[i].key = m[i].key
    BY <1>3 DEF PairOf
  <1>5. Has(p, k)
    BY <1>2, <1>4 DEF Has
  <1> DEFINE q == Put(p, k, Get(m, k))
  <1>6. q = [i \in 1..N |-> IF p[i].key = k THEN PairOf(k, Get(m, k)) ELSE p[i]]
    BY <1>4, <1>5 DEF Put, PairOf
  <1>7. ASSUME NEW i \in 1..N, m[i].key = k PROVE m[i] = PairOf(k, Get(m, k))
    <2>1. m[i] \in ToSet(m) /\ m[i] \in Pair(V)
      BY <1>1, <1>2, InToSet
    <2>2. Get(m, k) = m[i].value
      BY <1>7, <2>1, ObjectMembers
    <2> QED
      BY <1>7, <2>1, <2>2, PairIs
  <1>8. \A i \in 1..N : q[i] = m[i]
    BY <1>3, <1>4, <1>6, <1>7
  <1> HIDE DEF p
  <1>9. q = [i \in 1..N |-> m[i]]
    BY <1>6, <1>8
  <1> QED
    BY <1>1, <1>2, <1>9 DEF p

(* The last setting taken out again. *)
LEMMA LastRemoved ==
  ASSUME NEW V, NEW m \in Object(V), NEW k, NEW v, ~Has(m, k)
  PROVE  LET p == Put(m, k, v) IN
         /\ Has(p, k) /\ Get(p, k) = v
         /\ \A w : Put(p, k, w) = Put(m, k, w)
         /\ SwapRemove(p, k) = m /\ ShiftRemove(p, k) = m
  <1> DEFINE p == Put(m, k, v)
             x == PairOf(k, v)
  <1>1. m \in Seq(Pair(V))
    BY ObjectMembers
  <1>2. PICK N \in Nat : N = Len(m) /\ DOMAIN m = 1..N
    BY <1>1
  <1>3. p = Append(m, x)
    BY DEF Put, PairOf
  <1>4. \A i \in 1..N : m[i].key # k
    BY <1>2 DEF Has
  <1>5. /\ DOMAIN p = 1..(N + 1) /\ Len(p) = N + 1
        /\ p[N + 1] = x /\ \A i \in 1..N : p[i] = m[i]
    BY <1>1, <1>2, <1>3
  <1>6. x.key = k /\ x.value = v
    BY DEF PairOf
  <1> HIDE DEF p, x
  <1>7. \A i \in 1..(N + 1) : p[i].key = k <=> i = N + 1
    BY <1>4, <1>5, <1>6
  <1>8. Has(p, k)
    BY <1>5, <1>7 DEF Has
  <1>9. Get(p, k) = v
    <2>1. (CHOOSE i \in DOMAIN p : p[i].key = k) = N + 1
      BY <1>5, <1>7
    <2> QED
      BY <1>5, <1>6, <2>1 DEF Get
  <1>10. ASSUME NEW w PROVE Put(p, k, w) = Put(m, k, w)
    <2>1. Put(p, k, w) = [i \in 1..(N + 1) |-> IF p[i].key = k THEN PairOf(k, w) ELSE p[i]]
      BY <1>5, <1>8 DEF Put, PairOf
    <2>2. Put(m, k, w) = Append(m, PairOf(k, w))
      BY DEF Put, PairOf
    <2>3. \A i \in 1..(N + 1) : Append(m, PairOf(k, w))[i]
                                  = IF p[i].key = k THEN PairOf(k, w) ELSE p[i]
      BY <1>1, <1>2, <1>5, <1>7
    <2>4. Append(m, PairOf(k, w))
            = [i \in 1..(N + 1) |-> IF p[i].key = k THEN PairOf(k, w) ELSE p[i]]
      <3> DEFINE y == PairOf(k, w)
                 r == Append(m, y)
      <3> HIDE DEF y
      <3>1. m \in Seq(Pair(V) \union {y})
        BY <1>1, <1>2
      <3>2. r \in Seq(Pair(V) \union {y}) /\ Len(r) = N + 1
        BY <1>2, <3>1
      <3> HIDE DEF r
      <3>3. r = [i \in 1..(N + 1) |-> r[i]]
        BY <3>2
      <3> QED
        BY <2>3, <3>3 DEF r, y
    <2> QED
      BY <2>1, <2>2, <2>4
  <1>11. SwapRemove(p, k) = m
    <2> DEFINE q == [i \in 1..(N + 1) |-> IF p[i].key = k THEN p[N + 1] ELSE p[i]]
    <2>1. SwapRemove(p, k) = SubSeq(q, 1, N)
      BY <1>5 DEF SwapRemove
    <2>2. q = [i \in 1..(N + 1) |-> p[i]]
      BY <1>5, <1>7
    <2>3. q = p
      <3>1. m \in Seq(Pair(V) \union {x})
        BY <1>1, <1>2
      <3>2. p \in Seq(Pair(V) \union {x})
        BY <1>3, <3>1
      <3> QED
        BY <1>5, <2>2, <3>2
    <2>4. SubSeq(p, 1, N) = m
      BY <1>1, <1>2, <1>3
    <2> QED
      BY <2>1, <2>3, <2>4
  <1>12. ShiftRemove(p, k) = m
    <2> DEFINE S == {y \in ToSet(p) : y.key # k}
    <2>1. ShiftRemove(p, k) = Sublist(Append(m, x), S)
      BY <1>3 DEF ShiftRemove
    <2>2. x \notin S
      BY <1>6
    <2>3. ToSet(p) = ToSet(m) \union {x}
      BY <1>1, <1>3, AppendToSet
    <2>4. \A i \in 1..N : m[i] \in S
      BY <1>2, <1>4, <2>3, InToSet
    <2>5. m \in Seq(S)
      BY <1>1, <1>2, <2>4
    <2> HIDE DEF S
    <2>6. m \in Seq(S \union {x}) /\ x \in S \union {x}
      BY <2>5
    <2>7. Sublist(Append(m, x), S) = Sublist(m, S)
      BY <2>2, <2>6, SublistAppend
    <2>8. Sublist(m, S) = m
      BY <2>5, SublistOfAll
    <2> QED
      BY <2>1, <2>7, <2>8
  <1> QED
    BY <1>8, <1>9, <1>10, <1>11, <1>12 DEF p

(* A file that strip leaves as it is, has Cursor's version and nothing of  *)
(* its own in place of a list we add to.                                   *)
Untouched(agent, doc) ==
  /\ Strip(agent, doc) = doc
  /\ agent = "cursor" => Has(doc, "version")
  /\ agent # "kimi" /\ Has(doc, "hooks") /\ Get(doc, "hooks") # Other =>
       \A e \in ToSet(Subscribed(agent)) :
         Has(Get(doc, "hooks"), e) => Get(Get(doc, "hooks"), e) # Other

(* Uninstall is the inverse of install, key for key in its order, for a    *)
(* file that has none of our hooks and nothing that strip prunes or        *)
(* install replaces (strip_* and install_* in install.rs).                 *)
THEOREM StripInstalled ==
  ASSUME NEW agent \in Mergeable, NEW exe \in Exes, NEW d \in Docs(agent),
         Untouched(agent, d)
  PROVE  Strip(agent, Install(agent, exe, d)) = d
  <1> DEFINE A == Install(agent, exe, d)
  <1>1. d # Other /\ Strip(agent, d) = d
    BY OtherAssumption DEF Untouched
  <1>2. d \in Object(DocValue(agent))
    BY DocMembers
  <1>3. A = AddOurs(agent, exe, d)
    BY <1>1 DEF Install
  <1>4. A # Other
    BY <1>3, AddOursResult, OtherAssumption
  <1>5. Versioned(agent, d) = d
    BY DEF Untouched, OrElse, Versioned
  <1> HIDE DEF A
  <1>6. CASE Has(d, "hooks") /\ Get(d, "hooks") = Other
    <2>1. OrElse(d, "hooks", <<>>) = d
      BY <1>6 DEF OrElse
    <2>2. A = d
      BY <1>3, <1>5, <1>6, <2>1, AddOursIs
    <2> QED
      BY <1>1, <2>2 DEF A
  <1>7. CASE Has(d, "hooks") /\ Get(d, "hooks") # Other
    <2> DEFINE v == Get(d, "hooks")
               w == AddHooks(agent, exe, v)
    <2>1. OrElse(d, "hooks", <<>>) = d
      BY <1>7 DEF OrElse
    <2>2. A = Put(d, "hooks", w)
      BY <1>3, <1>5, <1>7, <2>1, AddOursIs
    <2>3. v \in HooksValue(agent) /\ HooksIn(d) = v
      BY <1>7, HooksInType DEF HooksIn
    <2> HIDE DEF v, w
    <2>4. StripHooks(agent, v) = v /\ v # <<>>
      <3>1. HooksIn(Strip(agent, d)) = StripHooks(agent, v)
        BY <2>3, StripResult
      <3>2. StripHooks(agent, v) = v
        BY <1>1, <2>3, <3>1
      <3>3. ASSUME v = <<>> PROVE FALSE
        <4>1. Strip(agent, d) \in {ShiftRemove(d, "hooks"), SwapRemove(d, "hooks")}
          BY <1>1, <1>7, <3>2, <3>3 DEF Strip, StripHooks, v
        <4>2. /\ Strip(agent, d) \in Object(DocValue(agent))
              /\ ToSet(Strip(agent, d)) = Rest(d, "hooks")
          BY <1>2, <1>7, <4>1, ShiftRemoved, SwapRemoved
        <4>3. \A x \in ToSet(d) : x.key # "hooks"
          BY <1>1, <4>2 DEF Rest
        <4> QED
          BY <1>7, <4>3, HasInToSet
      <3> QED
        BY <3>2, <3>3
    <2>5. agent # "kimi" => \A e \in ToSet(Subscribed(agent)) : Old(v, e) # Other
      BY <1>7, OtherIsNoList DEF Untouched, Old, v
    <2>6. v # Other
      BY <1>7 DEF v
    <2>7. w # Other /\ w \in HooksValue(agent) /\ StripHooks(agent, w) = v
      BY <2>3, <2>4, <2>5, <2>6, StripAddedHooks DEF w
    <2>8. Has(A, "hooks") /\ Get(A, "hooks") = w
      BY <2>2, <2>7, PutHooks
    <2>9. Strip(agent, A) = Put(A, "hooks", v)
      BY <1>4, <2>4, <2>7, <2>8 DEF Strip, StripHooks
    <2>10. Put(Put(d, "hooks", w), "hooks", v) = d
      BY <1>2, <1>7, PutTwice DEF v
    <2> QED
      BY <2>2, <2>9, <2>10 DEF A
  <1>8. CASE ~Has(d, "hooks")
    <2> DEFINE w == AddHooks(agent, exe, <<>>)
    <2>1. OrElse(d, "hooks", <<>>) = Put(d, "hooks", <<>>)
      BY <1>8 DEF OrElse
    <2>2. Get(Put(d, "hooks", <<>>), "hooks") = <<>>
      BY <1>2, <1>8, LastRemoved
    <2>3. Put(Put(d, "hooks", <<>>), "hooks", w) = Put(d, "hooks", w)
      BY <1>2, <1>8, LastRemoved
    <2>4. A = Put(d, "hooks", w)
      BY <1>3, <1>5, <2>1, <2>2, <2>3, AddOursIs, OtherIsNoList
    <2>5. <<>> \in HooksValue(agent) /\ <<>> # Other /\ StripHooks(agent, <<>>) = <<>>
      BY NoEvents, EmptyObject, OtherIsNoList DEF HooksValue, EventTable
    <2>6. \A e : Old(<<>>, e) # Other
      BY EmptyObject, OtherIsNoList DEF Old
    <2>7. w # Other /\ StripHooks(agent, w) = <<>>
      BY <2>5, <2>6, StripAddedHooks
    <2> HIDE DEF w
    <2>8. Has(A, "hooks") /\ Get(A, "hooks") = w
      BY <1>2, <1>8, <2>4, LastRemoved
    <2>9. Strip(agent, A) \in {ShiftRemove(A, "hooks"), SwapRemove(A, "hooks")}
      BY <1>4, <2>7, <2>8 DEF Strip, StripHooks
    <2>10. ShiftRemove(A, "hooks") = d /\ SwapRemove(A, "hooks") = d
      BY <1>2, <1>8, <2>4, LastRemoved
    <2> QED
      BY <2>9, <2>10 DEF A
  <1> QED
    BY <1>6, <1>7, <1>8

-----------------------------------------------------------------------------
(* Stripping twice.                                                        *)

(* A strip leaves a table as it is when it leaves every entry.             *)
LEMMA TidiedEvents ==
  ASSUME NEW agent, NEW t \in EventTable(agent), Tidied(agent, ToSet(t))
  PROVE  StripEvents(agent, t) = t
  <1> DEFINE V == Entries(agent) \union {Other}
             s == AllStripped(agent, t)
             e == Emptied(s)
             none == <<>>
  <1>1. t \in Object(V) /\ t \in Seq(Pair(V)) /\ ToSet(t) \subseteq Pair(V)
    BY ObjectMembers DEF EventTable
  <1>2. PICK N \in Nat : N = Len(t) /\ DOMAIN t = 1..N
    BY <1>1
  <1>3. \A i \in 1..N : t[i] \in ToSet(t) /\ t[i] \in Pair(V)
    BY <1>1, <1>2, InToSet
  <1>4. ASSUME NEW i \in 1..N PROVE s[i] = t[i]
    <2>1. s[i] = StripEvent(agent, t[i])
      BY <1>2, <1>3 DEF AllStripped, StripEvent, PairOf, Pair
    <2> QED
      BY <1>3, <2>1 DEF Tidied
  <1>5. s = t
    <2>1. s = [i \in 1..N |-> s[i]] /\ t = [i \in 1..N |-> t[i]]
      BY <1>1, <1>2 DEF AllStripped
    <2> HIDE DEF s
    <2> QED
      BY <1>4, <2>1
  <1> HIDE DEF V, s
  <1>6. e = none
    <2>1. e \in Seq(Pair(V)) /\ ToSet(e) = ToSet(s) \intersect {x \in ToSet(s) : x.value = <<>>}
      BY <1>1, <1>5, SublistType, SublistKeeps DEF Emptied
    <2>2. ToSet(e) = {}
      BY <1>5, <2>1 DEF Tidied
    <2> HIDE DEF e
    <2> QED
      BY <2>1, <2>2, NoMembers
  <1> HIDE DEF e
  <1>7. none \in Seq(Pair(V)) /\ Len(none) = 0
    OBVIOUS
  <1> HIDE DEF none
  <1>8. LeftOver(s, none)[0] = s
    BY <1>1, <1>5, <1>7, LeftSteps
  <1>9. StripEvents(agent, t) = LeftOver(s, e)[Len(e)]
    BY StripEventsIs DEF s, e
  <1> QED
    BY <1>5, <1>6, <1>7, <1>8, <1>9

(* What a strip leaves of the hooks, another one leaves as it is. *)
LEMMA StripHooksTwice ==
  ASSUME NEW agent, NEW v \in HooksValue(agent)
  PROVE  StripHooks(agent, StripHooks(agent, v)) = StripHooks(agent, v)
  <1> DEFINE w == StripHooks(agent, v)
  <1>1. CASE v = Other
    BY <1>1 DEF StripHooks
  <1>2. CASE v # Other /\ agent = "kimi"
    <2>1. v \in Seq(Hook)
      BY <1>2 DEF HooksValue
    <2>2. w = WithoutOurs(v)
      BY <1>2 DEF StripHooks
    <2>3. w \in Seq(Hook) /\ WithoutOurs(w) = w
      BY <2>1, <2>2, WithoutOursType, WithoutOursIdempotent
    <2>4. w # Other
      BY <2>3, OtherIsNoList
    <2> HIDE DEF w
    <2>5. StripHooks(agent, w) = w
      BY <1>2, <2>3, <2>4 DEF StripHooks
    <2> QED
      BY <2>5 DEF w
  <1>3. CASE v # Other /\ agent # "kimi"
    <2>1. v \in EventTable(agent)
      BY <1>3 DEF HooksValue
    <2>2. w = StripEvents(agent, v)
      BY <1>3 DEF StripHooks
    <2>3. w \in EventTable(agent) /\ Tidied(agent, ToSet(w))
      BY <2>1, <2>2, EventsStripped, StripEventsTidies
    <2> HIDE DEF w
    <2>4. StripEvents(agent, w) = w
      BY <2>3, TidiedEvents
    <2>5. StripHooks(agent, w) = w
      BY <1>3, <2>4 DEF StripHooks
    <2> QED
      BY <2>5 DEF w
  <1> QED
    BY <1>1, <1>2, <1>3

(* A setting put where it is already. *)
LEMMA PutSame ==
  ASSUME NEW V, NEW m \in Object(V), NEW k, Has(m, k)
  PROVE  Put(m, k, Get(m, k)) = m
  <1> DEFINE p == Put(m, k, Get(m, k))
  <1>1. m \in Seq(Pair(V)) /\ ToSet(m) \subseteq Pair(V)
    BY ObjectMembers
  <1>2. PICK N \in Nat : N = Len(m) /\ DOMAIN m = 1..N
    BY <1>1
  <1>3. p = [i \in 1..N |-> IF m[i].key = k THEN PairOf(k, Get(m, k)) ELSE m[i]]
    BY <1>2 DEF Put, PairOf
  <1>4. ASSUME NEW i \in 1..N, m[i].key = k PROVE m[i] = PairOf(k, Get(m, k))
    <2>1. m[i] \in ToSet(m) /\ m[i] \in Pair(V)
      BY <1>1, <1>2, InToSet
    <2>2. Get(m, k) = m[i].value
      BY <1>4, <2>1, ObjectMembers
    <2> QED
      BY <1>4, <2>1, <2>2, PairIs
  <1>5. p = [i \in 1..N |-> m[i]]
    BY <1>3, <1>4
  <1> QED
    BY <1>1, <1>2, <1>5

(* Hooks that a strip leaves as they are, in a file or taken out of it.    *)
Clean(agent, d) ==
  /\ StripHooks(agent, HooksIn(d)) = HooksIn(d)
  /\ Has(d, "hooks") => HooksIn(d) # <<>>

(* A file with such hooks is left as it is. *)
LEMMA StripOfClean ==
  ASSUME NEW agent \in Mergeable, NEW d \in Docs(agent), Clean(agent, d)
  PROVE  Strip(agent, d) = d
  <1>1. CASE ~Has(d, "hooks") \/ Get(d, "hooks") = Other
    BY <1>1 DEF Strip
  <1>2. CASE Has(d, "hooks") /\ Get(d, "hooks") # Other
    <2>1. /\ HooksIn(d) = Get(d, "hooks") /\ Get(d, "hooks") # <<>>
          /\ StripHooks(agent, Get(d, "hooks")) = Get(d, "hooks")
      BY <1>2 DEF HooksIn, Clean
    <2>2. d # Other /\ d \in Object(DocValue(agent))
      BY OtherAssumption, DocMembers
    <2>3. Strip(agent, d) = Put(d, "hooks", Get(d, "hooks"))
      BY <1>2, <2>1, <2>2 DEF Strip, StripHooks
    <2> QED
      BY <1>2, <2>2, <2>3, PutSame
  <1> QED
    BY <1>1, <1>2

(* What a strip leaves has such hooks. *)
LEMMA StripIsClean ==
  ASSUME NEW agent \in Mergeable, NEW d \in Docs(agent)
  PROVE  Clean(agent, Strip(agent, d))
  <1> DEFINE s == Strip(agent, d)
             v == StripHooks(agent, HooksIn(d))
  <1>1. HooksIn(s) = v /\ (Has(s, "hooks") => Has(d, "hooks"))
    BY StripResult
  <1>2. StripHooks(agent, v) = v
    BY HooksInType, StripHooksTwice
  <1>3. ASSUME Has(s, "hooks"), v = <<>> PROVE FALSE
    <2>1. Has(d, "hooks") /\ HooksIn(d) = Get(d, "hooks")
      BY <1>1, <1>3 DEF HooksIn
    <2>2. Get(d, "hooks") # Other /\ d # Other
      BY <1>3, <2>1, OtherIsNoList, OtherAssumption DEF StripHooks
    <2>3. s \in {ShiftRemove(d, "hooks"), SwapRemove(d, "hooks")}
      BY <1>3, <2>1, <2>2 DEF Strip, StripHooks
    <2>4. s \in Object(DocValue(agent)) /\ ToSet(s) = Rest(d, "hooks")
      BY <2>1, <2>3, DocMembers, ShiftRemoved, SwapRemoved
    <2> HIDE DEF s
    <2>5. ~Has(s, "hooks")
      BY <2>4, HasInToSet DEF Rest
    <2> QED
      BY <1>3, <2>5
  <1> HIDE DEF s, v
  <1>4. Clean(agent, s)
    BY <1>1, <1>2, <1>3 DEF Clean
  <1> QED
    BY <1>4 DEF s

(* Uninstalling twice is uninstalling once, key for key in its order.      *)
THEOREM StripTwice ==
  ASSUME NEW agent \in Mergeable, NEW d \in Docs(agent)
  PROVE  Strip(agent, Strip(agent, d)) = Strip(agent, d)
  BY StripIsClean, StripOfClean, StripResult

-----------------------------------------------------------------------------
(* Installing and uninstalling, in any order.                              *)

(* A value that is no list, in a stripped table, was there before. *)
LEMMA StrippedOther ==
  ASSUME NEW agent, NEW hooks \in EventTable(agent), NEW e,
         Has(StripEvents(agent, hooks), e), Get(StripEvents(agent, hooks), e) = Other
  PROVE  Has(hooks, e) /\ Get(hooks, e) = Other
  <1> DEFINE t == StripEvents(agent, hooks)
             V == Entries(agent) \union {Other}
  <1>1. t \in Object(V) /\ ToSet(t) = StrippedSet(agent, hooks)
    BY EventsStripped DEF EventTable
  <1> HIDE DEF V
  <1>2. PairOf(e, Other) \in ToSet(t)
    BY <1>1, ObjectMembers
  <1> HIDE DEF t
  <1>3. PICK x \in ToSet(hooks) : PairOf(e, Other) = StripEvent(agent, x)
    BY <1>1, <1>2 DEF StrippedSet
  <1>4. x \in Pair(Entries(agent) \union {Other})
        /\ Has(hooks, x.key) /\ Get(hooks, x.key) = x.value
    BY TableMembers
  <1>5. x.key = e
    BY <1>3 DEF StripEvent, PairOf
  <1>6. x.value = Other
    <2>1. SUFFICES ASSUME x.value # Other PROVE FALSE
      OBVIOUS
    <2>2. x.value \in Entries(agent)
      BY <1>4, <2>1 DEF Pair
    <2>3. StripEntries(agent, x.value) \in Entries(agent)
      BY <2>2, EntriesStripped
    <2>4. StripEntries(agent, x.value) = Other
      BY <1>3, <2>1 DEF StripEvent, PairOf
    <2> QED
      BY <2>3, <2>4, OtherIsNoList DEF Entries
  <1> QED
    BY <1>4, <1>5, <1>6

(* Install replaces nothing: no event of ours has a value that is no list. *)
NoneReplaced(agent, v) ==
  agent # "kimi" /\ v # Other =>
    \A e \in ToSet(Subscribed(agent)) : Has(v, e) => Get(v, e) # Other

(* Nor does it after a strip. *)
LEMMA NoneReplacedStripped ==
  ASSUME NEW agent, NEW v \in HooksValue(agent), NoneReplaced(agent, v)
  PROVE  NoneReplaced(agent, StripHooks(agent, v))
  <1> SUFFICES ASSUME agent # "kimi", StripHooks(agent, v) # Other,
                      NEW e \in ToSet(Subscribed(agent)),
                      Has(StripHooks(agent, v), e), Get(StripHooks(agent, v), e) = Other
               PROVE  FALSE
    BY DEF NoneReplaced
  <1>1. v # Other /\ v \in EventTable(agent) /\ StripHooks(agent, v) = StripEvents(agent, v)
    BY DEF StripHooks, HooksValue
  <1>2. Has(v, e) /\ Get(v, e) = Other
    BY <1>1, StrippedOther
  <1> QED
    BY <1>1, <1>2 DEF NoneReplaced

(* Cursor's file has its version, and the hooks it had. *)
LEMMA VersionedResult ==
  ASSUME NEW agent, NEW d \in Docs(agent)
  PROVE  /\ Versioned(agent, d) \in Docs(agent)
         /\ HooksIn(Versioned(agent, d)) = HooksIn(d)
         /\ Has(Versioned(agent, d), "hooks") <=> Has(d, "hooks")
         /\ agent = "cursor" => Has(Versioned(agent, d), "version")
         /\ Versioned(agent, Versioned(agent, d)) = Versioned(agent, d)
  <1>1. Has(Put(d, "version", Theirs), "version")
    <2>1. d \in Object(DocValue(agent)) /\ Theirs \in DocValue(agent) /\ "version" \in Key
      BY DocMembers DEF DocValue, Key
    <2>2. ToSet(Put(d, "version", Theirs)) = Rest(d, "version") \union {PairOf("version", Theirs)}
      BY <2>1, PutResult
    <2>3. PairOf("version", Theirs).key = "version"
      BY DEF PairOf
    <2> QED
      BY <2>2, <2>3, HasInToSet
  <1>2. agent = "cursor" => Has(Versioned(agent, d), "version")
    BY <1>1 DEF Versioned, OrElse
  <1>3. Versioned(agent, Versioned(agent, d)) = Versioned(agent, d)
    BY <1>2 DEF Versioned, OrElse
  <1> QED
    BY <1>2, <1>3, PutVersion DEF Versioned, OrElse

(* What install starts from and uninstall gives back: the file stripped,   *)
(* with Cursor's version.                                                  *)
LEMMA VersionedIsUntouched ==
  ASSUME NEW agent \in Mergeable, NEW d \in Docs(agent), NoneReplaced(agent, HooksIn(d))
  PROVE  LET base == Versioned(agent, Strip(agent, d)) IN
         base \in Docs(agent) /\ Untouched(agent, base)
  <1> DEFINE s == Strip(agent, d)
             base == Versioned(agent, s)
  <1>1. s \in Docs(agent) /\ HooksIn(s) = StripHooks(agent, HooksIn(d)) /\ Clean(agent, s)
    BY StripResult, StripIsClean
  <1>2. NoneReplaced(agent, HooksIn(s))
    BY <1>1, HooksInType, NoneReplacedStripped
  <1> HIDE DEF s
  <1>3. /\ base \in Docs(agent) /\ HooksIn(base) = HooksIn(s)
        /\ Has(base, "hooks") <=> Has(s, "hooks")
        /\ agent = "cursor" => Has(base, "version")
    BY <1>1, VersionedResult
  <1> HIDE DEF base
  <1>4. Clean(agent, base)
    BY <1>1, <1>3 DEF Clean
  <1>5. Strip(agent, base) = base
    BY <1>3, <1>4, StripOfClean
  <1>6. ASSUME agent # "kimi", Has(base, "hooks"), Get(base, "hooks") # Other,
               NEW e \in ToSet(Subscribed(agent)), Has(Get(base, "hooks"), e)
        PROVE  Get(Get(base, "hooks"), e) # Other
    <2>1. HooksIn(base) = Get(base, "hooks")
      BY <1>6 DEF HooksIn
    <2> QED
      BY <1>2, <1>3, <1>6, <2>1 DEF NoneReplaced
  <1>7. Untouched(agent, base)
    BY <1>3, <1>5, <1>6 DEF Untouched
  <1> QED
    BY <1>3, <1>7 DEF base, s

(* Install starts from there. *)
LEMMA InstallFromVersioned ==
  ASSUME NEW agent \in Mergeable, NEW exe \in Exes, NEW d \in Docs(agent),
         NoneReplaced(agent, HooksIn(d))
  PROVE  LET base == Versioned(agent, Strip(agent, d)) IN
         Install(agent, exe, d) = Install(agent, exe, base)
  <1> DEFINE s == Strip(agent, d)
             base == Versioned(agent, s)
  <1>1. base \in Docs(agent) /\ Strip(agent, base) = base
    BY VersionedIsUntouched DEF Untouched
  <1>2. s \in Docs(agent)
    BY StripResult
  <1>3. d # Other /\ base # Other
    BY <1>1, OtherAssumption
  <1>4. Install(agent, exe, d) = AddOurs(agent, exe, s)
    BY <1>3 DEF Install
  <1>5. Install(agent, exe, base) = AddOurs(agent, exe, base)
    BY <1>1, <1>3 DEF Install
  <1>6. Versioned(agent, base) = Versioned(agent, s)
    BY <1>2, VersionedResult
  <1> HIDE DEF s, base
  <1>7. AddOurs(agent, exe, base) = AddOurs(agent, exe, s)
    BY <1>6, AddOursIs
  <1> QED
    BY <1>4, <1>5, <1>7 DEF s, base

(* Uninstall after install leaves what uninstall alone leaves, key for key *)
(* in its order, if install replaces nothing; Cursor's version stays.      *)
THEOREM UninstallAfterInstall ==
  ASSUME NEW agent \in Mergeable, NEW exe \in Exes, NEW d \in Docs(agent),
         NoneReplaced(agent, HooksIn(d))
  PROVE  Strip(agent, Install(agent, exe, d)) = Versioned(agent, Strip(agent, d))
  BY VersionedIsUntouched, InstallFromVersioned, StripInstalled

(* An install over another one's, by the same binary or a later one, is    *)
(* that install alone, to the order of the keys, if nothing is replaced.   *)
THEOREM InstallOverAnother ==
  ASSUME NEW agent \in Mergeable, NEW old \in Exes, NEW exe \in Exes, NEW d \in Docs(agent),
         NoneReplaced(agent, HooksIn(d))
  PROVE  Install(agent, exe, Install(agent, old, d)) = Install(agent, exe, d)
  <1> DEFINE once == Install(agent, old, d)
             base == Versioned(agent, Strip(agent, d))
  <1>1. once # Other
    BY InstallTwice, OtherAssumption
  <1>2. base \in Docs(agent) /\ Strip(agent, base) = base /\ base # Other
    BY VersionedIsUntouched, OtherAssumption DEF Untouched
  <1>3. Strip(agent, once) = base /\ Install(agent, exe, d) = Install(agent, exe, base)
    BY UninstallAfterInstall, InstallFromVersioned
  <1> HIDE DEF once, base
  <1>4. Install(agent, exe, once) = AddOurs(agent, exe, base)
    BY <1>1, <1>3 DEF Install
  <1>5. Install(agent, exe, base) = AddOurs(agent, exe, base)
    BY <1>2 DEF Install
  <1> QED
    BY <1>3, <1>4, <1>5 DEF once

(* Once installed, there is nothing left to replace. *)
LEMMA InstallReplacesAll ==
  ASSUME NEW agent \in Mergeable, NEW exe \in Exes, NEW d \in Docs(agent)
  PROVE  LET once == Install(agent, exe, d) IN
         once \in Docs(agent) /\ NoneReplaced(agent, HooksIn(once))
  <1> DEFINE s == Strip(agent, d)
             once == AddOurs(agent, exe, s)
             v == HooksIn(s)
             w == AddHooks(agent, exe, v)
  <1>1. s \in Docs(agent) /\ d # Other
    BY StripResult, OtherAssumption
  <1>2. Install(agent, exe, d) = once
    BY <1>1 DEF Install
  <1> HIDE DEF s
  <1>3. once \in Docs(agent) /\ HooksIn(once) = w /\ v \in HooksValue(agent)
    BY <1>1, AddOursResult, HooksInType
  <1> HIDE DEF once, v
  <1>4. ASSUME agent # "kimi", w # Other, NEW e \in ToSet(Subscribed(agent)), Has(w, e)
        PROVE  Get(w, e) # Other
    <2>1. v # Other /\ v \in EventTable(agent) /\ w = AddEvents(agent, exe, v)
      BY <1>3, <1>4 DEF AddHooks, HooksValue
    <2> HIDE DEF w
    <2> DEFINE F == ToSet(Subscribed(agent))
               V == Entries(agent) \union {Other}
    <2>2. w \in Object(V) /\ ToSet(w) = AddedSet(agent, exe, v, F)
      BY <2>1, EventsAdded DEF EventTable
    <2>3. PairOf(e, NewEntries(agent, exe, v, e)) \in ToSet(w)
      BY <1>4, <2>2 DEF AddedSet
    <2> HIDE DEF V
    <2>4. Get(w, e) = NewEntries(agent, exe, v, e)
      BY <2>2, <2>3, ObjectMembers DEF PairOf
    <2>5. NewEntries(agent, exe, v, e) # Other
      BY <1>4, <2>1, NewEntriesResult, OtherIsNoList DEF Entries
    <2> QED
      BY <2>4, <2>5
  <1>5. NoneReplaced(agent, w)
    BY <1>4 DEF NoneReplaced
  <1> QED
    BY <1>2, <1>3, <1>5

(* A third install changes nothing at all. *)
THEOREM InstallThrice ==
  ASSUME NEW agent \in Mergeable, NEW exe \in Exes, NEW d \in Docs(agent)
  PROVE  LET twice == Install(agent, exe, Install(agent, exe, d)) IN
         Install(agent, exe, twice) = twice
  BY InstallReplacesAll, InstallOverAnother
=============================================================================
