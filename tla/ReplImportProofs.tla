-------------------------- MODULE ReplImportProofs --------------------------
(***************************************************************************)
(* What is proved of the package loader and of `import` at the prompt      *)
(* (Loader, ReplImport), for any packages, files and imports, any edits of *)
(* the files between two turns, and any outcome of checking, lowering and  *)
(* initializing a package.                                                 *)
(***************************************************************************)
EXTENDS ReplImport, LeastElements, SequenceTheorems

(***************************************************************************)
(* The inductive invariants.                                               *)
(***************************************************************************)

Stacks == Seq([pkg : Paths, next : Nat \ {0}])
Pkgs(stack) == {stack[i].pkg : i \in DOMAIN stack}

\* The packages named by an error, and those loaded with all they import.
Blamed   == {errors[i][2] : i \in DOMAIN errors}
Finished == Loaded \ Pkgs(loading)

\* Where the loader is, whatever it has loaded.
PcInv ==
  /\ pc # "load" => loading = <<>>
  /\ pc # "sort" => visiting = <<>> /\ visited = {} /\ sorted = <<>>
  /\ pc = "sort" => errors = <<>>
PhaseInv == phase \notin {"startup", "load"} => pc = "idle"

\* The frames of a recursion: their packages are distinct, and each reaches those
\* further in; the imports a frame has looked at are settled, but for the one whose
\* frame is the next.
Distinct(stack) == \A i, j \in DOMAIN stack : stack[i].pkg = stack[j].pkg => i = j
Chain(im, stack) ==
  \A i, j \in DOMAIN stack : i < j => Reachable(im, stack[i].pkg, stack[j].pkg)
LookedAt(im, stack, settled) ==
  \A i \in DOMAIN stack : \A k \in DOMAIN im[stack[i].pkg] :
    k < stack[i].next =>
      \/ im[stack[i].pkg][k] \in settled
      \/ i + 1 \in DOMAIN stack /\ im[stack[i].pkg][k] = stack[i + 1].pkg
StackSound(im, stack, settled) ==
  Distinct(stack) /\ Chain(im, stack) /\ LookedAt(im, stack, settled)

LoadingInv == IsInjective(packages) /\ StackSound(imports, loading, Blamed \cup Finished)

\* The packages loaded with all they import have ranks, and import packages of a
\* lower rank or named by an error: an import cycle goes through one of those.
Ranked(im, D, B, f) ==
  \A p \in D : \A q \in ToSet(im[p]) : q \in B \/ (q \in D /\ f[q] < f[p])
RankInv == \E N \in Nat : \E f \in [Paths -> 0 .. N] : Ranked(imports, Finished, Blamed, f)

CycleErrors ==
  \A i \in DOMAIN errors : errors[i][1] = "cycle" => Reaches(errors[i][2], errors[i][2])

\* What was asked for is loaded, or still to be, or there is an error.
WantedInv ==
  errors = <<>> =>
    ToSet(asked) \cup ToSet(implicit) \subseteq Loaded \cup (IF pc = "load" THEN ToSet(todo) ELSE {})

\* The packages that may come before an implicit dependency.
Implied(p) == \E e \in ToSet(implicit) : p = e \/ Reaches(e, p)

\* s is in order as far as it goes.
InOrder(s) ==
  /\ IsInjective(s)
  /\ \A i \in DOMAIN s : \A q \in ToSet(imports[s[i]]) : \E j \in DOMAIN s : j < i /\ s[j] = q
  /\ \A i \in DOMAIN s : Implied(s[i]) \/
       \A d \in ToSet(implicit) : \E j \in DOMAIN s : j < i /\ s[j] = d

\* What computeOrder visits.
Roots == implicit \o packages

\* Those still to be visited are the last, td; the others are visited.
RootsLeft(roots, td, V) ==
  /\ Len(td) <= Len(roots)
  /\ \A i \in 1 .. Len(td) : td[i] = roots[Len(roots) - Len(td) + i]
  /\ \A i \in 1 .. Len(roots) - Len(td) : roots[i] \in V

\* Every package visited is sorted or has a frame; what is sorted is in order; a
\* package that no implicit dependency needs has a frame only once they are sorted.
SortInv ==
  pc = "sort" =>
    /\ visited = ToSet(sorted) \cup Pkgs(visiting) /\ visited \subseteq Loaded
    /\ InOrder(sorted)
    /\ Pkgs(visiting) \cap ToSet(sorted) = {}
    /\ \A p \in Pkgs(visiting) : Implied(p) \/ ToSet(implicit) \subseteq ToSet(sorted)
    /\ StackSound(imports, visiting, ToSet(sorted))
    /\ RootsLeft(Roots, todo, visited)

OrderInv ==
  /\ ToSet(order) \subseteq Loaded
  /\ pc = "idle" /\ errors = <<>> => ToSet(order) = Loaded /\ InOrder(order)

\* Injected packages import injected packages.
InjectedInv ==
  /\ \A p \in Injected : disk[p] # Fail => ToSet(disk[p]) \subseteq Injected
  /\ \A p \in Loaded \cap Injected : ToSet(imports[p]) \subseteq Injected

\* The packages of this turn still to be initialized.
Pending ==
  IF phase \in {"check", "lower"} THEN ToSet(clean)
  ELSE IF phase = "init" THEN {clean[i] : i \in {j \in DOMAIN clean : j >= at}} ELSE {}

Starting  == phase \in {"startup", "start", "refused"}
InSession == phase \in {"prompt", "load", "check", "lower", "init", "bind"}

\* Before the first prompt.
StartInv ==
  Starting =>
    /\ processed = {} /\ failed = {} /\ chkName = irName
    /\ chkName = [a \in Names |-> NoPath]
    /\ phase = "startup" => ran = <<>>
    /\ phase = "start" =>
         /\ errors = <<>> /\ at # 0
         /\ ToSet(ran) = {order[i] : i \in {j \in DOMAIN order : j < at}} \ Injected

\* How far the packages ordered are processed.
ProcessedInv ==
  InSession =>
    /\ \/ ToSet(order) \subseteq processed
       \/ phase \in {"load", "check"} /\ pc = "idle" /\ errors = <<>>
    /\ phase = "check" => \A i \in DOMAIN order : i < at => order[i] \in processed

\* A package processed is injected, failed, initialized, or awaits it.
SettledInv ==
  InSession =>
    /\ processed \subseteq Loaded /\ failed \subseteq processed
    /\ ToSet(ran) \subseteq processed \ (Injected \cup failed)
    /\ processed \subseteq Injected \cup failed \cup ToSet(ran) \cup Pending
    /\ Pending \subseteq processed \ (Injected \cup ToSet(ran))

\* The packages to initialize are in order.
CleanInv ==
  phase \in {"check", "lower", "init"} =>
    /\ at # 0 /\ IsInjective(clean) /\ ToSet(clean) \subseteq processed
    /\ \A i \in DOMAIN clean : \A q \in ToSet(imports[clean[i]]) :
         q \in processed /\
         (q \in Injected \cup failed \cup ToSet(ran) \/ \E j \in DOMAIN clean : j < i /\ clean[j] = q)

\* The packages whose code exists, closed under imports.
Good == {p \in processed \ failed : p \in Injected \/ p \in ToSet(ran)}
GoodInv == InSession => \A p \in Good : ToSet(imports[p]) \subseteq Good

BoundInv == InSession => \A a \in Names : chkName[a] # NoPath => chkName[a] \in Good

AgreeInv == errors = <<>> => chkName = irName
AskedInv ==
  phase = "prompt" /\ errors = <<>> =>
    \A i \in DOMAIN asked : asked[i] \notin failed =>
      \E j \in DOMAIN asked :
        AliasOf[asked[j]] = AliasOf[asked[i]] /\ chkName[AliasOf[asked[i]]] = asked[j]

(***************************************************************************)
(* Sequences and stacks.                                                   *)
(***************************************************************************)

\* A sequence with one more element, position by position.
LEMMA Appended ==
  ASSUME NEW S, NEW s \in Seq(S), NEW e \in S
  PROVE  /\ Append(s, e) \in Seq(S) /\ Len(Append(s, e)) = Len(s) + 1
         /\ DOMAIN s = 1 .. Len(s) /\ DOMAIN Append(s, e) = 1 .. Len(s) + 1 /\ Len(s) \in Nat
         /\ Append(s, e)[Len(s) + 1] = e
         /\ \A i \in 1 .. Len(s) : Append(s, e)[i] = s[i] /\ s[i] \in S
         /\ ToSet(Append(s, e)) = ToSet(s) \cup {e}
  <1> DEFINE t == Append(s, e)
             n == Len(s)
  <1>1. /\ t \in Seq(S) /\ Len(t) = n + 1
        /\ DOMAIN s = 1 .. n /\ DOMAIN t = 1 .. n + 1 /\ n \in Nat
        /\ t[n + 1] = e
    OBVIOUS
  <1>2. \A i \in 1 .. n : t[i] = s[i] /\ s[i] \in S
    OBVIOUS
  <1> HIDE DEF t, n
  <1>3. ToSet(t) = ToSet(s) \cup {e}
    <2>1. 1 .. n + 1 = (1 .. n) \cup {n + 1}
      BY <1>1
    <2> QED BY <1>1, <1>2, <2>1 DEF ToSet
  <1> QED BY <1>1, <1>2, <1>3 DEF t, n

\* Appending an element that is not there keeps the elements distinct.
LEMMA AppendedDistinct ==
  ASSUME NEW S, NEW s \in Seq(S), NEW e \in S, IsInjective(s), e \notin ToSet(s)
  PROVE  IsInjective(Append(s, e))
  <1> DEFINE t == Append(s, e)
             n == Len(s)
  <1>1. /\ DOMAIN s = 1 .. n /\ DOMAIN t = 1 .. n + 1 /\ n \in Nat
        /\ t[n + 1] = e /\ \A i \in 1 .. n : t[i] = s[i]
    BY Appended
  <1> HIDE DEF t, n
  <1>2. ASSUME NEW i \in 1 .. n + 1, NEW j \in 1 .. n + 1, t[i] = t[j] PROVE i = j
    <2>1. \A m \in 1 .. n : t[m] # e
      BY <1>1 DEF ToSet
    <2>2. \A m \in 1 .. n + 1 : m = n + 1 \/ m \in 1 .. n
      BY <1>1
    <2>3. CASE i = n + 1 \/ j = n + 1
      BY <1>1, <1>2, <2>1, <2>2, <2>3
    <2>4. CASE i \in 1 .. n /\ j \in 1 .. n
      BY <1>1, <1>2, <2>4 DEF IsInjective
    <2> QED BY <2>2, <2>3, <2>4
  <1>3. IsInjective(t)
    BY <1>1, <1>2 DEF IsInjective
  <1> QED BY <1>3 DEF t

\* Head and Tail take a sequence apart.
LEMMA TakenApart ==
  ASSUME NEW S, NEW s \in Seq(S), s # <<>>
  PROVE  /\ Head(s) \in S /\ Tail(s) \in Seq(S) /\ Len(s) \in Nat /\ Len(s) # 0
         /\ Len(Tail(s)) = Len(s) - 1 /\ DOMAIN s = 1 .. Len(s) /\ Head(s) = s[1]
         /\ \A i \in 1 .. Len(s) - 1 : Tail(s)[i] = s[i + 1]
         /\ ToSet(s) = {Head(s)} \cup ToSet(Tail(s))
  <1>1. Head(s) = s[1] /\ s[1] \in S /\ Tail(s) \in Seq(S) /\ Len(s) \in Nat /\ Len(s) # 0
    OBVIOUS
  <1>2. Len(Tail(s)) = Len(s) - 1 /\ \A i \in 1 .. Len(s) - 1 : Tail(s)[i] = s[i + 1]
    OBVIOUS
  <1> DEFINE t == Tail(s)
             n == Len(s)
             h == Head(s)
  <1>3. DOMAIN s = 1 .. n /\ DOMAIN t = 1 .. n - 1
    BY <1>1, <1>2
  <1> HIDE DEF t, n, h
  <1>4. /\ DOMAIN s = 1 .. n /\ DOMAIN t = 1 .. n - 1 /\ n \in Nat /\ n # 0 /\ h = s[1]
        /\ \A i \in 1 .. n - 1 : t[i] = s[i + 1]
    BY <1>1, <1>2, <1>3 DEF t, n, h
  <1>5. ToSet(s) = {h} \cup ToSet(t)
    <2>1. ASSUME NEW i \in 1 .. n PROVE s[i] \in {h} \cup ToSet(t)
      <3>1. CASE i = 1
        BY <3>1, <1>4
      <3>2. CASE i # 1
        <4>1. i - 1 \in 1 .. n - 1 /\ (i - 1) + 1 = i
          BY <3>2, <1>4
        <4>2. t[i - 1] = s[i]
          BY <4>1, <1>4
        <4> QED BY <4>1, <4>2, <1>4 DEF ToSet
      <3> QED BY <3>1, <3>2
    <2>2. ASSUME NEW i \in 1 .. n - 1 PROVE t[i] \in ToSet(s)
      <3>1. i + 1 \in 1 .. n
        BY <1>4
      <3> QED BY <3>1, <1>4 DEF ToSet
    <2>3. h \in ToSet(s)
      <3>1. 1 \in 1 .. n
        BY <1>4
      <3> QED BY <3>1, <1>4 DEF ToSet
    <2> QED BY <2>1, <2>2, <2>3, <1>4 DEF ToSet
  <1> QED BY <1>1, <1>2, <1>3, <1>5 DEF t, n, h

\* Front leaves out the last element.
LEMMA Fronted ==
  ASSUME NEW S, NEW s \in Seq(S), s # <<>>
  PROVE  /\ Front(s) \in Seq(S) /\ Len(s) \in Nat /\ Len(s) # 0 /\ Len(s) \in DOMAIN s
         /\ DOMAIN s = 1 .. Len(s) /\ DOMAIN Front(s) = 1 .. Len(s) - 1
         /\ Last(s) = s[Len(s)] /\ Last(s) \in S
         /\ \A i \in 1 .. Len(s) - 1 : Front(s)[i] = s[i]
         /\ ToSet(s) = ToSet(Front(s)) \cup {Last(s)}
  <1> DEFINE t == Front(s)
             n == Len(s)
             e == Last(s)
  <1>1. n \in Nat /\ n # 0 /\ n \in 1 .. n /\ DOMAIN s = 1 .. n
    OBVIOUS
  <1>2. e = s[n] /\ e \in S
    BY <1>1 DEF Last
  <1>3. t \in Seq(S) /\ DOMAIN t = 1 .. n - 1 /\ \A i \in 1 .. n - 1 : t[i] = s[i]
    BY <1>1 DEF Front
  <1> HIDE DEF t, n, e
  <1>4. ToSet(s) = ToSet(t) \cup {e}
    <2>1. 1 .. n = (1 .. n - 1) \cup {n}
      BY <1>1
    <2> QED BY <1>1, <1>2, <1>3, <2>1 DEF ToSet
  <1> QED BY <1>1, <1>2, <1>3, <1>4 DEF t, n, e

\* What Looked changes of a stack: the innermost frame looks at its next import.
LEMMA LookedStack ==
  ASSUME NEW stack \in Stacks, stack # <<>>
  PROVE  /\ Looked(stack) \in Stacks /\ Len(Looked(stack)) = Len(stack) /\ Looked(stack) # <<>>
         /\ DOMAIN stack = 1 .. Len(stack) /\ DOMAIN Looked(stack) = 1 .. Len(stack)
         /\ Len(stack) \in Nat /\ Len(stack) \in 1 .. Len(stack)
         /\ \A i \in 1 .. Len(stack) :
              /\ Looked(stack)[i].pkg = stack[i].pkg /\ stack[i].next \in Nat
              /\ Looked(stack)[i].next = IF i = Len(stack) THEN stack[i].next + 1 ELSE stack[i].next
         /\ Pkgs(Looked(stack)) = Pkgs(stack)
  <1> DEFINE n == Len(stack)
             t == Looked(stack)
             F == [pkg : Paths, next : Nat \ {0}]
  <1>1. n \in Nat /\ n \in 1 .. n /\ DOMAIN stack = 1 .. n /\ stack \in [1 .. n -> F]
    <2>1. stack \in Seq(F)
      BY DEF Stacks
    <2> HIDE DEF F
    <2> QED BY <2>1
  <1>2. t = [i \in 1 .. n |-> IF i = n THEN [stack[n] EXCEPT !.next = stack[n].next + 1] ELSE stack[i]]
    BY <1>1 DEF Looked
  <1> HIDE DEF t, n
  <1>3. ASSUME NEW i \in 1 .. n
        PROVE  /\ t[i] \in F /\ t[i].pkg = stack[i].pkg /\ stack[i].next \in Nat
               /\ t[i].next = IF i = n THEN stack[i].next + 1 ELSE stack[i].next
    <2>1. stack[i] \in F
      BY <1>1
    <2>2. CASE i = n
      BY <1>2, <2>1, <2>2
    <2>3. CASE i # n
      BY <1>2, <2>1, <2>3
    <2> QED BY <2>2, <2>3
  <1>4. t \in [1 .. n -> F]
    BY <1>2, <1>3
  <1>5. t \in Seq(F) /\ Len(t) = n /\ DOMAIN t = 1 .. n /\ t # <<>>
    <2> HIDE DEF F
    <2> QED BY <1>1, <1>4
  <1>6. Pkgs(t) = Pkgs(stack)
    BY <1>1, <1>3, <1>5 DEF Pkgs
  <1> QED BY <1>1, <1>3, <1>5, <1>6 DEF t, n, F, Stacks

\* A stack with a frame more.
LEMMA PushedStack ==
  ASSUME NEW stack \in Stacks, NEW p \in Paths
  PROVE  /\ Append(stack, Frame(p)) \in Stacks
         /\ Len(Append(stack, Frame(p))) = Len(stack) + 1
         /\ DOMAIN stack = 1 .. Len(stack) /\ DOMAIN Append(stack, Frame(p)) = 1 .. Len(stack) + 1
         /\ Len(stack) \in Nat
         /\ Append(stack, Frame(p))[Len(stack) + 1] = Frame(p)
         /\ Frame(p).pkg = p /\ Frame(p).next = 1
         /\ \A i \in 1 .. Len(stack) : Append(stack, Frame(p))[i] = stack[i]
         /\ Pkgs(Append(stack, Frame(p))) = Pkgs(stack) \cup {p}
  <1> DEFINE F == [pkg : Paths, next : Nat \ {0}]
             t == Append(stack, Frame(p))
             n == Len(stack)
  <1>1. Frame(p) \in F /\ Frame(p).pkg = p /\ Frame(p).next = 1
    BY DEF Frame
  <1>2. /\ t \in Seq(F) /\ Len(t) = n + 1
        /\ DOMAIN stack = 1 .. n /\ DOMAIN t = 1 .. n + 1 /\ n \in Nat
        /\ t[n + 1] = Frame(p) /\ \A i \in 1 .. n : t[i] = stack[i]
    <2>1. stack \in Seq(F)
      BY DEF Stacks
    <2> HIDE DEF F
    <2> QED BY <1>1, <2>1, Appended
  <1> HIDE DEF t, n
  <1>3. Pkgs(t) = Pkgs(stack) \cup {p}
    <2>1. 1 .. n + 1 = (1 .. n) \cup {n + 1}
      BY <1>2
    <2> QED BY <1>1, <1>2, <2>1 DEF Pkgs
  <1> QED BY <1>1, <1>2, <1>3 DEF t, n, F, Stacks

(***************************************************************************)
(* What reaching by imports is.                                            *)
(***************************************************************************)

\* A package reaches what it imports.
LEMMA ReachesImports ==
  ASSUME NEW im, NEW p \in DOMAIN im, NEW q \in ToSet(im[p])
  PROVE  Reachable(im, p, q)
  BY DEF Reachable

\* And what those reach.
LEMMA ReachesThrough ==
  ASSUME NEW im, NEW p, NEW q, NEW r, Reachable(im, p, q), Reachable(im, q, r)
  PROVE  Reachable(im, p, r)
  <1> SUFFICES ASSUME NEW S \in SUBSET Paths,
                      \A t \in (S \cup {p}) \cap DOMAIN im : ToSet(im[t]) \subseteq S
               PROVE  r \in S
    BY DEF Reachable
  <1>1. q \in S
    BY DEF Reachable
  <1>2. \A t \in (S \cup {q}) \cap DOMAIN im : ToSet(im[t]) \subseteq S
    BY <1>1
  <1> QED BY <1>2 DEF Reachable

\* What is reached is in any set that has the imports of p and is closed.
LEMMA ReachesWithin ==
  ASSUME NEW im, NEW p, NEW q, Reachable(im, p, q), NEW S \in SUBSET Paths,
         \A t \in (S \cup {p}) \cap DOMAIN im : ToSet(im[t]) \subseteq S
  PROVE  q \in S
  BY DEF Reachable

\* The loader only adds packages, so that what is reached stays reached.
Grows(im, im2) == DOMAIN im \subseteq DOMAIN im2 /\ \A t \in DOMAIN im : im2[t] = im[t]

\* What is reached stays reached when packages are added.
LEMMA ReachesStill ==
  ASSUME NEW im, NEW im2, Grows(im, im2), NEW p, NEW q, Reachable(im, p, q)
  PROVE  Reachable(im2, p, q)
  <1> SUFFICES ASSUME NEW S \in SUBSET Paths,
                      \A t \in (S \cup {p}) \cap DOMAIN im2 : ToSet(im2[t]) \subseteq S
               PROVE  q \in S
    BY DEF Reachable
  <1>1. \A t \in (S \cup {p}) \cap DOMAIN im : ToSet(im[t]) \subseteq S
    BY DEF Grows
  <1> QED BY <1>1 DEF Reachable

\* The imports of packages loaded are packages.
Sound(im) == \A t \in DOMAIN im : im[t] \in Seq(Paths)

\* The first import on the way.
LEMMA ReachesFirst ==
  ASSUME NEW im, Sound(im), NEW p, NEW q, Reachable(im, p, q)
  PROVE  p \in DOMAIN im /\ \E r \in ToSet(im[p]) : r = q \/ Reachable(im, r, q)
  <1>0. \A t \in DOMAIN im : ToSet(im[t]) \subseteq Paths
    BY DEF Sound, ToSet
  <1>1. p \in DOMAIN im
    <2> SUFFICES ASSUME p \notin DOMAIN im PROVE FALSE
      OBVIOUS
    <2>1. \A t \in ({} \cup {p}) \cap DOMAIN im : ToSet(im[t]) \subseteq {}
      OBVIOUS
    <2>2. q \in {}
      BY <2>1, {} \in SUBSET Paths DEF Reachable
    <2> QED BY <2>2
  <1> DEFINE S == {t \in Paths : \E r \in ToSet(im[p]) : r = t \/ Reachable(im, r, t)}
  <1>2. ASSUME NEW t \in (S \cup {p}) \cap DOMAIN im, NEW u \in ToSet(im[t]) PROVE u \in S
    <2>1. u \in Paths
      BY <1>0
    <2>2. CASE t = p
      BY <2>1, <2>2
    <2>3. CASE t \in S
      <3>1. PICK r \in ToSet(im[p]) : r = t \/ Reachable(im, r, t)
        BY <2>3
      <3>2. Reachable(im, t, u)
        BY ReachesImports
      <3>3. Reachable(im, r, u)
        BY <3>1, <3>2, ReachesThrough
      <3> QED BY <2>1, <3>3
    <2> QED BY <2>2, <2>3
  <1>3. q \in S
    <2>1. S \in SUBSET Paths
      OBVIOUS
    <2>2. \A t \in (S \cup {p}) \cap DOMAIN im : ToSet(im[t]) \subseteq S
      BY <1>2
    <2> HIDE DEF S
    <2> QED BY <2>1, <2>2, ReachesWithin
  <1> QED BY <1>1, <1>3

\* What is reached is a package.
LEMMA ReachesPaths ==
  ASSUME NEW im, Sound(im), NEW p, NEW q, Reachable(im, p, q)
  PROVE  q \in Paths
  <1>1. \A t \in DOMAIN im : ToSet(im[t]) \subseteq Paths
    BY DEF Sound, ToSet
  <1> QED BY <1>1, Paths \in SUBSET Paths, ReachesWithin

\* Where imports have a lower rank except those in B, every cycle goes through a
\* package of B: from a package on a cycle, follow the cycle to its lowest rank.
LEMMA CycleThrough ==
  ASSUME NEW im, Sound(im), NEW N \in Nat, NEW f \in [Paths -> 0 .. N], NEW B,
         \A t \in DOMAIN im : \A u \in ToSet(im[t]) : u \in B \/ (u \in DOMAIN im /\ f[u] < f[t]),
         NEW p, Reachable(im, p, p)
  PROVE  \E e \in B : Reachable(im, e, p) /\ Reachable(im, p, e)
  <1> SUFFICES ASSUME \A e \in B : ~(Reachable(im, e, p) /\ Reachable(im, p, e)) PROVE FALSE
    OBVIOUS
  <1> DEFINE C == {t \in Paths : Reachable(im, t, p) /\ Reachable(im, p, t)}
             R == {f[t] : t \in C}
  <1>1. p \in C
    BY ReachesPaths
  <1>2. R \in SUBSET Nat /\ f[p] \in R
    BY <1>1
  <1>3. PICK m \in R : \A n \in R : m <= n
    <2> HIDE DEF R
    <2> QED BY <1>2, LeastNatural
  <1>4. PICK t \in C : m = f[t]
    BY DEF R
  <1>5. Reachable(im, t, p) /\ Reachable(im, p, t) /\ t \in Paths
    BY <1>4
  <1>6. PICK r \in ToSet(im[t]) : r = p \/ Reachable(im, r, p)
    BY <1>5, ReachesFirst
  <1>7. t \in DOMAIN im
    BY <1>5, ReachesFirst
  <1>8. Reachable(im, t, r)
    BY <1>7, ReachesImports
  <1>9. Reachable(im, p, r) /\ Reachable(im, r, p)
    BY <1>5, <1>6, <1>8, ReachesThrough
  <1>10. r \in C
    BY <1>9, ReachesPaths
  <1>11. f[r] < f[t]
    BY <1>7, <1>9
  <1>12. f[r] \in R /\ f[r] \in Nat /\ f[t] \in Nat
    BY <1>10, <1>4
  <1> QED BY <1>3, <1>4, <1>11, <1>12

(***************************************************************************)
(* The steps of the loader, and the types.                                 *)
(***************************************************************************)

\* What loading p does to the frames: p is loaded already, or an error is
\* recorded, or p is registered.
Known(stack, p) ==
  p \in Loaded /\ loading' = stack /\ UNCHANGED <<packages, imports, errors>>
Erred(stack, p) ==
  /\ \/ p \in Pkgs(stack) /\ errors' = Append(errors, <<"cycle", p>>)
     \/ errors' = Append(errors, <<"load", p>>)
  /\ loading' = stack /\ UNCHANGED <<packages, imports>>
Pushed(stack, p) ==
  /\ disk[p] # Fail
  /\ packages' = Append(packages, p)
  /\ imports' = [q \in Loaded \cup {p} |-> IF q = p THEN disk[p] ELSE imports[q]]
  /\ loading' = Append(stack, Frame(p))
  /\ UNCHANGED errors

\* What an import of the innermost frame may be.
LooksAt(stack, p) ==
  \/ Known(stack, p) /\ p \notin Pkgs(stack)
  \/ Erred(stack, p)
  \/ Pushed(stack, p) /\ p \notin Loaded

LoadNextRest == UNCHANGED <<disk, edits, implicit, order, sorting, pc>>
LoadDependencyRest == UNCHANGED <<disk, edits, implicit, order, todo, sorting, pc>>

\* The loader's two steps that look at a path: one of the call's, one imported.
LEMMA LoadNextLooks ==
  ASSUME LoadNext
  PROVE  /\ pc = "load" /\ loading = <<>> /\ todo # <<>> /\ todo' = Tail(todo)
         /\ LooksAt(<<>>, Head(todo)) /\ LoadNextRest
  BY DEF LoadNext, LooksAt, LoadNextRest, Known, Erred, Pushed, loadPackage, isLoading, Pkgs

\* The same for an import of the package being loaded.
LEMMA LoadDependencyLooks ==
  ASSUME LoadDependency, loading \in Stacks
  PROVE  /\ pc = "load" /\ loading # <<>> /\ ~Exhausted(loading)
         /\ LooksAt(Looked(loading), NextImport(loading)) /\ LoadDependencyRest
  <1> DEFINE p == NextImport(loading)
             stack == Looked(loading)
  <1>1. isLoading(loading, p) <=> p \in Pkgs(stack)
    <2>1. isLoading(loading, p) <=> p \in Pkgs(loading)
      BY DEF isLoading, Pkgs
    <2>2. Pkgs(stack) = Pkgs(loading)
      BY LookedStack DEF LoadDependency
    <2> QED BY <2>1, <2>2
  <1>2. isLoading(stack, p) <=> p \in Pkgs(stack)
    BY DEF isLoading, Pkgs
  <1> HIDE DEF p, stack
  <1>3. LooksAt(stack, p)
    BY <1>1, <1>2 DEF LoadDependency, LooksAt, Known, Erred, Pushed, loadPackage, p, stack
  <1> QED BY <1>3 DEF LoadDependency, LoadDependencyRest, p, stack

\* The part of TypeOK about the loader, and the rest.
LoaderTypeOK ==
  /\ disk \in [Paths -> Contents] /\ edits \in Nat
  /\ packages \in Seq(Paths) /\ DOMAIN imports = Loaded
  /\ \A p \in Loaded : imports[p] \in Seq(Paths)
  /\ implicit \in Seq(Paths) /\ order \in Seq(Paths) /\ todo \in Seq(Paths) /\ sorted \in Seq(Paths)
  /\ errors \in Seq({"cycle", "load"} \X Paths)
  /\ loading \in Stacks /\ visiting \in Stacks
  /\ pc \in {"idle", "load", "sort"} /\ visited \subseteq Paths

SessionTypeOK ==
  /\ asked \in Seq(Paths) /\ clean \in Seq(Paths) /\ ran \in Seq(Paths)
  /\ phase \in {"startup", "start", "prompt", "load", "check", "lower", "init", "bind", "refused"}
  /\ started \in Nat /\ turns \in Nat /\ errsBefore \in Nat /\ at \in Nat /\ interrupted \in BOOLEAN
  /\ processed \subseteq Paths /\ failed \subseteq Paths /\ culprits \subseteq Paths
  /\ chkName \in [Names -> Paths \cup {NoPath}] /\ irName \in [Names -> Paths \cup {NoPath}]

\* The two parts make up TypeOK.
LEMMA TypeParts == TypeOK <=> LoaderTypeOK /\ SessionTypeOK
  BY DEF TypeOK, LoaderTypeOK, SessionTypeOK, Stacks

\* The steps of the session as the loader sees them.
LoaderMoves ==
  \/ \E s \in Seq(Paths) : LoadImports(s) /\ asked' = s
  \/ asked' = asked /\ \E p \in Paths : LoadImplicitDep(p)
  \/ asked' = asked /\ (Load \/ Sort)
  \/ asked' = asked /\ \E p \in Paths \ Injected : \E c \in Contents : EditFiles(p, c)
  \/ (asked' = asked \/ asked' = <<>>) /\ UNCHANGED loaderVars

\* Every step of the session is one of them.
LEMMA NextMoves ==
  ASSUME [Next]_vars, SessionTypeOK
  PROVE  LoaderMoves
  <1> USE DEF LoaderMoves, turn
  <1>1. CASE StartLoad
    <2>1. CASE started = 0
      <3>1. PICK r \in RootImports :
              asked' = r /\ IF r = <<>> THEN UNCHANGED loaderVars ELSE LoadImports(r)
        BY <1>1, <2>1 DEF StartLoad
      <3>2. r \in Seq(Paths)
        BY SessionAssumption
      <3> QED BY <3>1, <3>2
    <2>2. CASE started # 0
      <3>1. LoadImplicitDep(ImplicitDeps[started]) /\ started <= Len(ImplicitDeps) /\ asked' = asked
        BY <1>1, <2>2 DEF StartLoad
      <3>2. ImplicitDeps[started] \in Paths
        BY <2>2, <3>1, SessionAssumption DEF SessionTypeOK
      <3> QED BY <3>1, <3>2
    <2> QED BY <2>1, <2>2
  <1>2. CASE StartInit \/ StartPackage \/ StartRefused \/ StartSession
    BY <1>2 DEF StartInit, StartPackage, StartRefused, StartSession
  <1>3. CASE Imported \/ CheckPackage \/ Checked \/ LowerPackage \/ Lowered \/ InitPackage
             \/ Initialized \/ Bind
    BY <1>3 DEF Imported, CheckPackage, Checked, LowerPackage, Lowered, InitPackage,
                Initialized, Bind
  <1>4. CASE (Load \/ Sort) /\ UNCHANGED turn
    BY <1>4
  <1>5. CASE \E s \in Specs : Import(s)
    <2>1. PICK s \in Specs : Import(s)
      BY <1>5
    <2>2. s \in Seq(Paths) /\ LoadImports(s) /\ asked' = s
      BY <2>1, SessionAssumption DEF Import
    <2> QED BY <2>2
  <1>6. CASE (\E p \in Paths \ Injected, c \in Contents : EditFiles(p, c)) /\ UNCHANGED turn
    BY <1>6
  <1>7. CASE UNCHANGED vars
    BY <1>7 DEF vars
  <1> QED BY <1>1, <1>2, <1>3, <1>4, <1>5, <1>6, <1>7 DEF Next, Process, User

\* What loading a package does, in the terms of the types.
LEMMA PushedLoads ==
  ASSUME LoaderTypeOK, NEW stack \in Stacks, NEW p \in Paths, Pushed(stack, p)
  PROVE  /\ packages' \in Seq(Paths) /\ Loaded' = Loaded \cup {p} /\ DOMAIN imports' = Loaded'
         /\ imports'[p] = disk[p] /\ disk[p] \in Seq(Paths)
         /\ \A q \in Loaded : q # p => imports'[q] = imports[q]
         /\ \A q \in Loaded' : imports'[q] \in Seq(Paths)
         /\ loading' \in Stacks
  <1>1. packages' \in Seq(Paths) /\ Loaded' = Loaded \cup {p}
    BY Appended DEF Pushed, LoaderTypeOK, Loaded
  <1>2. disk[p] \in Seq(Paths)
    BY LoaderAssumption DEF Pushed, LoaderTypeOK
  <1>3. loading' \in Stacks
    BY PushedStack DEF Pushed
  <1>4. /\ DOMAIN imports' = Loaded \cup {p} /\ imports'[p] = disk[p]
        /\ \A q \in Loaded : q # p => imports'[q] = imports[q]
    BY DEF Pushed
  <1> QED BY <1>1, <1>2, <1>3, <1>4 DEF LoaderTypeOK

\* The types after an error is recorded.
LEMMA ErredTypes ==
  ASSUME LoaderTypeOK, NEW stack \in Stacks, NEW p \in Paths, Erred(stack, p)
  PROVE  /\ errors' \in Seq({"cycle", "load"} \X Paths)
         /\ Len(errors) \in Nat /\ Len(errors') = Len(errors) + 1 /\ DOMAIN errors = 1 .. Len(errors)
         /\ DOMAIN errors' = 1 .. Len(errors) + 1
         /\ \A i \in 1 .. Len(errors) : errors'[i] = errors[i]
         /\ errors'[Len(errors) + 1][2] = p
         /\ errors'[Len(errors) + 1][1] = "cycle" => p \in Pkgs(stack)
         /\ Blamed' = Blamed \cup {p}
  <1> DEFINE E == {"cycle", "load"} \X Paths
  <1>1. PICK k \in {"cycle", "load"} : (k = "cycle" => p \in Pkgs(stack)) /\ errors' = Append(errors, <<k, p>>)
    BY DEF Erred
  <1>2. <<k, p>> \in E /\ errors \in Seq(E) /\ <<k, p>>[1] = k /\ <<k, p>>[2] = p
    BY DEF LoaderTypeOK
  <1> DEFINE e == <<k, p>>
  <1> HIDE DEF E, e
  <1>3. /\ errors' \in Seq(E) /\ Len(errors') = Len(errors) + 1
        /\ DOMAIN errors = 1 .. Len(errors) /\ DOMAIN errors' = 1 .. Len(errors) + 1
        /\ Len(errors) \in Nat /\ errors'[Len(errors) + 1] = e
        /\ \A i \in 1 .. Len(errors) : errors'[i] = errors[i]
    BY <1>1, <1>2, Appended DEF e
  <1>4. errors'[Len(errors) + 1][1] = k /\ errors'[Len(errors) + 1][2] = p
    BY <1>2, <1>3 DEF e
  <1>5. Blamed' = Blamed \cup {p}
    <2>1. 1 .. Len(errors) + 1 = (1 .. Len(errors)) \cup {Len(errors) + 1}
      BY <1>3
    <2> QED BY <1>3, <1>4, <2>1 DEF Blamed
  <1> QED BY <1>1, <1>3, <1>4, <1>5 DEF E

\* The types after a path is looked at.
LEMMA LooksAtTypes ==
  ASSUME LoaderTypeOK, NEW stack \in Stacks, NEW p \in Paths, LooksAt(stack, p)
  PROVE  /\ packages' \in Seq(Paths) /\ DOMAIN imports' = Loaded'
         /\ \A q \in Loaded' : imports'[q] \in Seq(Paths)
         /\ errors' \in Seq({"cycle", "load"} \X Paths) /\ loading' \in Stacks
         /\ Grows(imports, imports')
  <1>1. CASE Known(stack, p) \/ Erred(stack, p)
    <2>1. UNCHANGED <<packages, imports>> /\ loading' = stack /\ Loaded' = Loaded
      BY <1>1 DEF Known, Erred, Loaded
    <2>2. errors' \in Seq({"cycle", "load"} \X Paths)
      BY <1>1, ErredTypes DEF Known, LoaderTypeOK
    <2> QED BY <2>1, <2>2 DEF LoaderTypeOK, Grows
  <1>2. CASE Pushed(stack, p) /\ p \notin Loaded
    <2>1. errors' = errors
      BY <1>2 DEF Pushed
    <2> QED BY <1>2, <2>1, PushedLoads DEF LoaderTypeOK, Grows
  <1> QED BY <1>1, <1>2 DEF LooksAt

\* The import a frame looks at is a package.
LEMMA NextImportPaths ==
  ASSUME LoaderTypeOK, NEW stack \in Stacks, stack # <<>>, Pkgs(stack) \subseteq Loaded, ~Exhausted(stack)
  PROVE  LET t == Last(stack).pkg
             k == Last(stack).next
         IN  /\ t \in Loaded /\ k \in DOMAIN imports[t] /\ NextImport(stack) = imports[t][k]
             /\ NextImport(stack) \in Paths /\ NextImport(stack) \in ToSet(imports[t])
             /\ Last(stack) = stack[Len(stack)] /\ Len(stack) \in DOMAIN stack
  <1> DEFINE t == Last(stack).pkg
             k == Last(stack).next
             F == [pkg : Paths, next : Nat \ {0}]
  <1>1. Last(stack) = stack[Len(stack)] /\ Len(stack) \in DOMAIN stack /\ Last(stack) \in F
    <2>1. stack \in Seq(F)
      BY DEF Stacks
    <2> HIDE DEF F
    <2> QED BY <2>1, Fronted
  <1>2. t \in Loaded /\ k \in Nat \ {0}
    BY <1>1 DEF Pkgs
  <1>3. imports[t] \in Seq(Paths) /\ k <= Len(imports[t]) /\ NextImport(stack) = imports[t][k]
    BY <1>2 DEF LoaderTypeOK, Exhausted, NextImport
  <1> HIDE DEF t, k
  <1>4. k \in DOMAIN imports[t] /\ imports[t][k] \in Paths /\ imports[t][k] \in ToSet(imports[t])
    <2> DEFINE s == imports[t]
    <2>1. s \in Seq(Paths) /\ k \in Nat \ {0} /\ k <= Len(s)
      BY <1>2, <1>3
    <2> HIDE DEF s
    <2>2. k \in DOMAIN s /\ s[k] \in Paths
      BY <2>1
    <2> QED BY <2>2 DEF s, ToSet
  <1> QED BY <1>1, <1>2, <1>3, <1>4 DEF t, k

\* The packages being loaded are registered, those being visited loaded.
StacksLoaded == Pkgs(loading) \subseteq Loaded /\ Pkgs(visiting) \subseteq Loaded

\* visit pushes a frame, or not.
LEMMA VisitTypes ==
  ASSUME NEW stack \in Stacks, NEW p \in Paths, visit(stack, p), visited \subseteq Paths,
         Pkgs(stack) \subseteq Loaded
  PROVE  /\ visiting' \in Stacks /\ visited' \subseteq Paths /\ Pkgs(visiting') \subseteq Loaded
  <1>1. visiting' = stack \/ (p \in Loaded /\ visiting' = Append(stack, Frame(p)))
    BY DEF visit
  <1>2. visited' \subseteq Paths
    BY DEF visit
  <1>3. Append(stack, Frame(p)) \in Stacks /\ Pkgs(Append(stack, Frame(p))) = Pkgs(stack) \cup {p}
    BY PushedStack
  <1>4. CASE visiting' = stack
    BY <1>2, <1>4
  <1>5. CASE p \in Loaded /\ visiting' = Append(stack, Frame(p))
    BY <1>2, <1>3, <1>5
  <1> QED BY <1>1, <1>4, <1>5

\* The loader's types hold after every step, and no package loaded is lost.
LEMMA LoaderTypesStep ==
  ASSUME LoaderTypeOK, StacksLoaded, LoaderMoves
  PROVE  LoaderTypeOK' /\ StacksLoaded' /\ Grows(imports, imports') /\ Loaded \subseteq Loaded'
  <1> USE DEF LoaderTypeOK
  <1> DEFINE Same == UNCHANGED <<packages, imports, errors, loading, visiting>>
  <1>0. ASSUME Same PROVE StacksLoaded' /\ Grows(imports, imports') /\ Loaded' = Loaded
    BY <1>0 DEF StacksLoaded, Grows, Loaded, Pkgs
  <1>1. ASSUME NEW s \in Seq(Paths), LoadImports(s) PROVE LoaderTypeOK' /\ Same
    BY <1>1 DEF LoadImports, sorting, Loaded
  <1>2. ASSUME NEW p \in Paths, LoadImplicitDep(p) PROVE LoaderTypeOK' /\ Same
    <2>1. <<p>> \in Seq(Paths) /\ implicit' \in Seq(Paths)
      BY <1>2, Appended DEF LoadImplicitDep
    <2> QED BY <1>2, <2>1 DEF LoadImplicitDep, sorting, Loaded
  <1>3. ASSUME NEW stack \in Stacks, NEW p \in Paths, LooksAt(stack, p), Pkgs(stack) = Pkgs(loading),
               visiting' = visiting
        PROVE  StacksLoaded' /\ Loaded \subseteq Loaded'
    <2>1. CASE Known(stack, p) \/ Erred(stack, p)
      <3>1. Loaded' = Loaded /\ loading' = stack
        BY <2>1 DEF Known, Erred, Loaded
      <3>2. Pkgs(loading)' = Pkgs(loading) /\ Pkgs(visiting)' = Pkgs(visiting)
        BY <3>1, <1>3 DEF Pkgs
      <3> QED BY <3>1, <3>2 DEF StacksLoaded
    <2>2. CASE Pushed(stack, p)
      <3>1. Loaded' = Loaded \cup {p} /\ loading' = Append(stack, Frame(p))
        BY <2>2, PushedLoads DEF Pushed
      <3>2. Pkgs(loading)' = Pkgs(loading) \cup {p}
        <4>1. Pkgs(Append(stack, Frame(p))) = Pkgs(stack) \cup {p}
          BY PushedStack
        <4> QED BY <4>1, <3>1, <1>3 DEF Pkgs
      <3>3. Pkgs(visiting)' = Pkgs(visiting)
        BY <1>3 DEF Pkgs
      <3> QED BY <3>1, <3>2, <3>3 DEF StacksLoaded
    <2> QED BY <1>3, <2>1, <2>2 DEF LooksAt
  <1>4. CASE LoadNext
    <2>1. /\ Head(todo) \in Paths /\ Tail(todo) \in Seq(Paths) /\ todo' = Tail(todo)
          /\ LooksAt(<<>>, Head(todo)) /\ LoadNextRest /\ loading = <<>>
      BY <1>4, LoadNextLooks, TakenApart
    <2>2. <<>> \in Stacks /\ Pkgs(<<>>) = Pkgs(loading)
      BY <2>1 DEF Stacks
    <2>3. visiting' = visiting
      BY <2>1 DEF LoadNextRest, sorting
    <2>4. /\ packages' \in Seq(Paths) /\ DOMAIN imports' = Loaded'
          /\ \A q \in Loaded' : imports'[q] \in Seq(Paths)
          /\ errors' \in Seq({"cycle", "load"} \X Paths) /\ loading' \in Stacks
          /\ Grows(imports, imports')
      BY <2>1, <2>2, LooksAtTypes
    <2>5. StacksLoaded' /\ Loaded \subseteq Loaded'
      BY <1>3, <2>1, <2>2, <2>3
    <2>6. LoaderTypeOK'
      BY <2>1, <2>4 DEF LoadNextRest, sorting
    <2> QED BY <2>4, <2>5, <2>6
  <1>5. CASE LoadDependency
    <2>1. /\ LooksAt(Looked(loading), NextImport(loading)) /\ LoadDependencyRest
          /\ loading # <<>> /\ ~Exhausted(loading)
      BY <1>5, LoadDependencyLooks
    <2>2. Looked(loading) \in Stacks /\ Pkgs(Looked(loading)) = Pkgs(loading)
      BY <2>1, LookedStack
    <2>3. visiting' = visiting
      BY <2>1 DEF LoadDependencyRest, sorting
    <2>a. NextImport(loading) \in Paths
      BY <2>1, NextImportPaths DEF StacksLoaded
    <2>4. /\ packages' \in Seq(Paths) /\ DOMAIN imports' = Loaded'
          /\ \A q \in Loaded' : imports'[q] \in Seq(Paths)
          /\ errors' \in Seq({"cycle", "load"} \X Paths) /\ loading' \in Stacks
          /\ Grows(imports, imports')
      BY <2>1, <2>2, <2>a, LooksAtTypes
    <2>5. StacksLoaded' /\ Loaded \subseteq Loaded'
      BY <1>3, <2>1, <2>2, <2>3, <2>a
    <2>6. LoaderTypeOK'
      BY <2>1, <2>4 DEF LoadDependencyRest, sorting
    <2> QED BY <2>4, <2>5, <2>6
  <1>a. ASSUME NEW stack \in Stacks, stack # <<>>
        PROVE  Front(stack) \in Stacks /\ Pkgs(Front(stack)) \subseteq Pkgs(stack)
               /\ Last(stack).pkg \in Pkgs(stack) /\ Last(stack).pkg \in Paths
    <2> DEFINE F == [pkg : Paths, next : Nat \ {0}]
    <2>1. stack \in Seq(F)
      BY DEF Stacks
    <2>2. /\ Front(stack) \in Seq(F) /\ Len(stack) \in DOMAIN stack /\ Last(stack) = stack[Len(stack)]
          /\ DOMAIN stack = 1 .. Len(stack) /\ DOMAIN Front(stack) = 1 .. Len(stack) - 1
          /\ Len(stack) \in Nat /\ Last(stack) \in F
          /\ \A i \in 1 .. Len(stack) - 1 : Front(stack)[i] = stack[i]
      <3> HIDE DEF F
      <3> QED BY <1>a, <2>1, Fronted
    <2>3. Last(stack).pkg \in Paths
      BY <2>2
    <2> DEFINE t == Front(stack)
               n == Len(stack)
    <2> HIDE DEF t, n, F
    <2>4. Pkgs(t) \subseteq Pkgs(stack) /\ Last(stack).pkg \in Pkgs(stack)
      <3>1. \A i \in 1 .. n - 1 : i \in 1 .. n
        BY <2>2 DEF n
      <3>2. DOMAIN stack = 1 .. n /\ DOMAIN t = 1 .. n - 1 /\ \A i \in 1 .. n - 1 : t[i] = stack[i]
        BY <2>2 DEF n, t
      <3> QED BY <2>2, <3>1, <3>2 DEF Pkgs
    <2> QED BY <2>2, <2>3, <2>4 DEF Stacks, F, t
  <1>6. CASE popLoading
    <2>1. /\ Front(loading) \in Stacks /\ Pkgs(Front(loading)) \subseteq Pkgs(loading)
          /\ loading' = Front(loading)
      BY <1>6, <1>a DEF popLoading
    <2>2. LoaderTypeOK' /\ Grows(imports, imports') /\ Loaded' = Loaded
      BY <1>6, <2>1 DEF popLoading, sorting, Loaded, Grows
    <2>3. Pkgs(loading)' \subseteq Pkgs(loading) /\ Pkgs(visiting)' = Pkgs(visiting)
      BY <1>6, <2>1 DEF popLoading, sorting, Pkgs
    <2> QED BY <2>2, <2>3 DEF StacksLoaded
  <1>7. CASE Loads
    <2>1. implicit \o packages \in Seq(Paths) /\ <<>> \in Seq(Paths)
      OBVIOUS
    <2>2. LoaderTypeOK' /\ Same
      BY <1>7, <2>1 DEF Loads, Loaded
    <2> QED BY <1>0, <2>2
  <1>8. CASE VisitRoot
    <2>1. Head(todo) \in Paths /\ Tail(todo) \in Seq(Paths) /\ todo' = Tail(todo) /\ visit(<<>>, Head(todo))
      BY <1>8, TakenApart DEF VisitRoot
    <2>2. <<>> \in Stacks /\ Pkgs(<<>>) \subseteq Loaded
      BY DEF Stacks, Pkgs
    <2>3. visiting' \in Stacks /\ visited' \subseteq Paths /\ Pkgs(visiting') \subseteq Loaded
      BY <2>1, <2>2, VisitTypes
    <2>4. LoaderTypeOK' /\ Grows(imports, imports') /\ Loaded' = Loaded /\ loading' = loading
      BY <1>8, <2>1, <2>3 DEF VisitRoot, Loaded, Grows
    <2> QED BY <2>3, <2>4 DEF StacksLoaded, Pkgs
  <1>9. CASE VisitImport
    <2>1. visit(Looked(visiting), NextImport(visiting)) /\ visiting # <<>> /\ ~Exhausted(visiting)
      BY <1>9 DEF VisitImport
    <2>2. Looked(visiting) \in Stacks /\ Pkgs(Looked(visiting)) \subseteq Loaded
      BY <2>1, LookedStack DEF StacksLoaded
    <2>a. NextImport(visiting) \in Paths
      BY <2>1, NextImportPaths DEF StacksLoaded
    <2>3. visiting' \in Stacks /\ visited' \subseteq Paths /\ Pkgs(visiting') \subseteq Loaded
      BY <2>1, <2>2, <2>a, VisitTypes
    <2>4. LoaderTypeOK' /\ Grows(imports, imports') /\ Loaded' = Loaded /\ loading' = loading
      BY <1>9, <2>1, <2>3 DEF VisitImport, Loaded, Grows
    <2> QED BY <2>3, <2>4 DEF StacksLoaded, Pkgs
  <1>10. CASE VisitEnd
    <2>1. /\ Front(visiting) \in Stacks /\ Pkgs(Front(visiting)) \subseteq Pkgs(visiting)
          /\ visiting' = Front(visiting) /\ Last(visiting).pkg \in Paths
          /\ sorted' = Append(sorted, Last(visiting).pkg)
      BY <1>10, <1>a DEF VisitEnd
    <2>a. sorted' \in Seq(Paths)
      BY <2>1, Appended
    <2>2. LoaderTypeOK' /\ Grows(imports, imports') /\ Loaded' = Loaded /\ loading' = loading
      BY <1>10, <2>1, <2>a DEF VisitEnd, Loaded, Grows
    <2>3. Pkgs(visiting)' \subseteq Pkgs(visiting) /\ Pkgs(loading)' = Pkgs(loading)
      BY <2>1, <2>2 DEF Pkgs
    <2> QED BY <2>2, <2>3 DEF StacksLoaded
  <1>11. CASE Sorted
    <2>1. LoaderTypeOK' /\ Same
      BY <1>11 DEF Sorted, Loaded
    <2> QED BY <1>0, <2>1
  <1>12. ASSUME NEW p \in Paths, NEW c \in Contents, EditFiles(p, c) PROVE LoaderTypeOK' /\ Same
    BY <1>12 DEF EditFiles, sorting, Loaded
  <1>13. CASE UNCHANGED loaderVars
    <2>1. LoaderTypeOK' /\ Same
      BY <1>13 DEF loaderVars, sorting, Loaded
    <2> QED BY <1>0, <2>1
  <1> HIDE DEF LoaderTypeOK, Same
  <1> QED BY <1>0, <1>1, <1>2, <1>4, <1>5, <1>6, <1>7, <1>8, <1>9, <1>10, <1>11, <1>12, <1>13
      DEF LoaderMoves, Load, Sort

(***************************************************************************)
(* The stacks: what a step of a recursion does to a sound one.             *)
(***************************************************************************)

\* A stack stays sound while more is loaded.
LEMMA StackStill ==
  ASSUME NEW im, NEW im2, Grows(im, im2), NEW stack, Pkgs(stack) \subseteq DOMAIN im,
         NEW S, NEW T, S \subseteq T, StackSound(im, stack, S)
  PROVE  StackSound(im2, stack, T)
  <1>1. Chain(im2, stack)
    BY ReachesStill DEF StackSound, Chain
  <1>2. LookedAt(im2, stack, T)
    BY DEF StackSound, LookedAt, Grows, Pkgs
  <1> QED BY <1>1, <1>2 DEF StackSound

\* The innermost frame has looked at one import more, which is settled.
LEMMA StackAdvances ==
  ASSUME NEW im, Sound(im), NEW stack \in Stacks, stack # <<>>, Pkgs(stack) \subseteq DOMAIN im,
         NEW S, StackSound(im, stack, S),
         im[stack[Len(stack)].pkg][stack[Len(stack)].next] \in S
  PROVE  StackSound(im, Looked(stack), S)
  <1> DEFINE t == Looked(stack)
             n == Len(stack)
  <1>1. /\ DOMAIN stack = 1 .. n /\ DOMAIN t = 1 .. n /\ n \in Nat /\ n \in 1 .. n
        /\ \A i \in 1 .. n : t[i].pkg = stack[i].pkg /\ stack[i].next \in Nat
             /\ t[i].next = IF i = n THEN stack[i].next + 1 ELSE stack[i].next
    BY LookedStack
  <1>a. im[stack[n].pkg][stack[n].next] \in S
    OBVIOUS
  <1> HIDE DEF t, n
  <1>2. Distinct(t) /\ Chain(im, t)
    BY <1>1 DEF StackSound, Distinct, Chain
  <1>3. ASSUME NEW i \in 1 .. n, NEW k \in DOMAIN im[t[i].pkg], k < t[i].next
        PROVE  \/ im[t[i].pkg][k] \in S
               \/ i + 1 \in 1 .. n /\ im[t[i].pkg][k] = t[i + 1].pkg
    <2>1. CASE k < stack[i].next
      BY <1>1, <2>1 DEF StackSound, LookedAt
    <2>2. CASE ~(k < stack[i].next)
      <3>1. i = n
        BY <1>1, <1>3, <2>2
      <3>2. k \in Nat
        <4>1. t[i].pkg \in DOMAIN im
          BY <1>1 DEF Pkgs
        <4>2. im[t[i].pkg] \in Seq(Paths)
          BY <4>1 DEF Sound
        <4> QED BY <4>2
      <3>3. k = stack[n].next
        BY <1>1, <1>3, <2>2, <3>1, <3>2
      <3> QED BY <1>1, <3>1, <3>3, <1>a
    <2> QED BY <2>1, <2>2
  <1>4. LookedAt(im, t, S)
    BY <1>1, <1>3 DEF LookedAt
  <1> QED BY <1>2, <1>4 DEF StackSound, t

\* The innermost frame has looked at one import more, and that import has a frame.
LEMMA StackPushes ==
  ASSUME NEW im, Sound(im), NEW stack \in Stacks, stack # <<>>, Pkgs(stack) \subseteq DOMAIN im,
         NEW S, StackSound(im, stack, S), NEW p \in Paths, p \in DOMAIN im, p \notin Pkgs(stack),
         stack[Len(stack)].next \in DOMAIN im[stack[Len(stack)].pkg],
         im[stack[Len(stack)].pkg][stack[Len(stack)].next] = p
  PROVE  StackSound(im, Append(Looked(stack), Frame(p)), S)
  <1> DEFINE m == Looked(stack)
             t == Append(m, Frame(p))
             n == Len(stack)
  <1>1. /\ DOMAIN stack = 1 .. n /\ DOMAIN m = 1 .. n /\ n \in Nat /\ n \in 1 .. n
        /\ \A i \in 1 .. n : m[i].pkg = stack[i].pkg /\ stack[i].next \in Nat
             /\ m[i].next = IF i = n THEN stack[i].next + 1 ELSE stack[i].next
        /\ m \in Stacks /\ Len(m) = n
    BY LookedStack
  <1>2. /\ DOMAIN t = 1 .. n + 1 /\ t[n + 1].pkg = p /\ t[n + 1].next = 1
        /\ \A i \in 1 .. n : t[i] = m[i]
    <2>1. /\ DOMAIN t = 1 .. Len(m) + 1 /\ t[Len(m) + 1] = Frame(p)
          /\ Frame(p).pkg = p /\ Frame(p).next = 1
          /\ \A i \in 1 .. Len(m) : t[i] = m[i]
      <3> HIDE DEF m
      <3> QED BY <1>1, PushedStack
    <2> HIDE DEF m, t
    <2> QED BY <1>1, <2>1
  <1>a. /\ im[stack[n].pkg][stack[n].next] = p /\ stack[n].next \in DOMAIN im[stack[n].pkg]
        /\ stack[n].pkg \in DOMAIN im
    BY <1>1 DEF Pkgs
  <1>b. \A i \in 1 .. n : stack[i].pkg # p
    BY <1>1 DEF Pkgs
  <1> HIDE DEF t, n, m
  <1>c. n + 1 \in 1 .. n + 1 /\ \A i \in 1 .. n + 1 : i = n + 1 \/ i \in 1 .. n
    BY <1>1
  <1>3. Distinct(t)
    <2>1. ASSUME NEW i \in 1 .. n + 1, NEW j \in 1 .. n + 1, t[i].pkg = t[j].pkg PROVE i = j
      <3>1. CASE i = n + 1 \/ j = n + 1
        BY <3>1, <2>1, <1>1, <1>2, <1>b, <1>c
      <3>2. CASE i \in 1 .. n /\ j \in 1 .. n
        BY <3>2, <2>1, <1>1, <1>2 DEF StackSound, Distinct
      <3> QED BY <3>1, <3>2, <1>c
    <2> QED BY <2>1, <1>2 DEF Distinct
  <1>4. Chain(im, t)
    <2>0. Reachable(im, stack[n].pkg, p)
      <3>1. p \in ToSet(im[stack[n].pkg])
        BY <1>a DEF ToSet
      <3> QED BY <3>1, <1>a, ReachesImports
    <2>1. ASSUME NEW i \in 1 .. n + 1, NEW j \in 1 .. n + 1, i < j
          PROVE  Reachable(im, t[i].pkg, t[j].pkg)
      <3>0. i \in 1 .. n
        BY <2>1, <1>1
      <3>1. CASE j = n + 1 /\ i = n
        BY <3>1, <2>0, <1>1, <1>2
      <3>2. CASE j = n + 1 /\ i # n
        <4>1. i < n
          BY <3>0, <3>2, <1>1
        <4>2. Reachable(im, stack[i].pkg, stack[n].pkg)
          BY <4>1, <3>0, <1>1 DEF StackSound, Chain
        <4>3. Reachable(im, stack[i].pkg, p)
          BY <4>2, <2>0, ReachesThrough
        <4> QED BY <4>3, <3>0, <3>2, <1>1, <1>2
      <3>3. CASE j \in 1 .. n
        <4>1. Reachable(im, stack[i].pkg, stack[j].pkg)
          BY <3>0, <3>3, <2>1, <1>1 DEF StackSound, Chain
        <4> QED BY <4>1, <3>0, <3>3, <1>1, <1>2
      <3> QED BY <3>1, <3>2, <3>3, <1>c
    <2> QED BY <2>1, <1>2 DEF Chain
  <1>5. ASSUME NEW i \in 1 .. n + 1, NEW k \in DOMAIN im[t[i].pkg], k < t[i].next
        PROVE  \/ im[t[i].pkg][k] \in S
               \/ i + 1 \in 1 .. n + 1 /\ im[t[i].pkg][k] = t[i + 1].pkg
    <2>0. k \in Nat /\ k # 0
      <3>1. t[i].pkg \in DOMAIN im
        <4>1. CASE i \in 1 .. n
          BY <4>1, <1>1, <1>2 DEF Pkgs
        <4>2. CASE i = n + 1
          BY <4>2, <1>2
        <4> QED BY <4>1, <4>2, <1>c
      <3>2. im[t[i].pkg] \in Seq(Paths)
        BY <3>1 DEF Sound
      <3> QED BY <3>2
    <2>1. CASE i = n + 1
      BY <2>0, <2>1, <1>5, <1>2
    <2>2. CASE i \in 1 .. n /\ k < stack[i].next
      <3>1. t[i].pkg = stack[i].pkg
        BY <2>2, <1>1, <1>2
      <3>2. im[stack[i].pkg][k] \in S \/ (i + 1 \in 1 .. n /\ im[stack[i].pkg][k] = stack[i + 1].pkg)
        BY <2>2, <3>1, <1>1 DEF StackSound, LookedAt
      <3> QED BY <3>1, <3>2, <1>1, <1>2
    <2>3. CASE i \in 1 .. n /\ ~(k < stack[i].next)
      <3>1. i = n /\ k = stack[n].next
        BY <2>0, <2>3, <1>1, <1>2, <1>5
      <3> QED BY <3>1, <1>1, <1>2, <1>a
    <2> QED BY <2>1, <2>2, <2>3, <1>c
  <1>6. LookedAt(im, t, S)
    BY <1>2, <1>5 DEF LookedAt
  <1> QED BY <1>3, <1>4, <1>6 DEF StackSound, t, m

\* The first frame.
LEMMA StackStarts ==
  ASSUME NEW im, Sound(im), NEW p \in DOMAIN im, p \in Paths, NEW S
  PROVE  StackSound(im, Append(<<>>, Frame(p)), S)
  <1> DEFINE t == Append(<<>>, Frame(p))
  <1>1. DOMAIN t = {1} /\ t[1].pkg = p /\ t[1].next = 1
    BY DEF Frame
  <1> HIDE DEF t
  <1>2. im[p] \in Seq(Paths)
    BY DEF Sound
  <1>3. \A k \in DOMAIN im[p] : ~(k < 1)
    BY <1>2
  <1>4. LookedAt(im, t, S)
    BY <1>1, <1>3 DEF LookedAt
  <1>5. Distinct(t) /\ Chain(im, t)
    BY <1>1 DEF Distinct, Chain
  <1> QED BY <1>4, <1>5 DEF StackSound, t

\* The innermost frame returns: its package is settled.
LEMMA StackPops ==
  ASSUME NEW im, Sound(im), NEW stack \in Stacks, stack # <<>>, Pkgs(stack) \subseteq DOMAIN im,
         NEW S, NEW T, StackSound(im, stack, S), S \cup {Last(stack).pkg} \subseteq T
  PROVE  /\ StackSound(im, Front(stack), T)
         /\ Pkgs(Front(stack)) = Pkgs(stack) \ {Last(stack).pkg}
         /\ Last(stack).pkg \in Pkgs(stack)
         /\ Last(stack).next > Len(im[Last(stack).pkg]) => ToSet(im[Last(stack).pkg]) \subseteq S
  <1> DEFINE F == [pkg : Paths, next : Nat \ {0}]
             n == Len(stack)
             t == Front(stack)
             p == Last(stack).pkg
  <1>1. stack \in Seq(F)
    BY DEF Stacks
  <1>2. /\ n \in Nat /\ n # 0 /\ DOMAIN stack = 1 .. n /\ DOMAIN t = 1 .. n - 1
        /\ \A i \in 1 .. n - 1 : t[i] = stack[i]
        /\ Last(stack) = stack[n] /\ stack[n] \in F
    <2> HIDE DEF F
    <2> QED BY <1>1, Fronted
  <1>3. p = stack[n].pkg /\ Last(stack).next = stack[n].next /\ stack[n].next \in Nat
    BY <1>2
  <1>4. p \in T /\ S \subseteq T
    OBVIOUS
  <1> HIDE DEF F, n, t, p
  <1>5. n \in 1 .. n /\ \A i \in 1 .. n : i = n \/ i \in 1 .. n - 1
    BY <1>2
  <1>6. \A i \in 1 .. n - 1 : i \in 1 .. n /\ i # n /\ i + 1 \in 1 .. n /\ (i + 1 = n \/ i + 1 \in 1 .. n - 1)
    BY <1>2
  <1>7. Pkgs(t) = Pkgs(stack) \ {p} /\ p \in Pkgs(stack)
    BY <1>2, <1>3, <1>5, <1>6 DEF Pkgs, StackSound, Distinct
  <1>8. Distinct(t) /\ Chain(im, t)
    BY <1>2, <1>6 DEF StackSound, Distinct, Chain
  <1>9. LookedAt(im, t, T)
    <2>1. ASSUME NEW i \in 1 .. n - 1, NEW k \in DOMAIN im[t[i].pkg], k < t[i].next
          PROVE  \/ im[t[i].pkg][k] \in T
                 \/ i + 1 \in 1 .. n - 1 /\ im[t[i].pkg][k] = t[i + 1].pkg
      <3>1. t[i] = stack[i] /\ i \in 1 .. n
        BY <1>2, <1>6
      <3>2. im[stack[i].pkg][k] \in S \/ (i + 1 \in 1 .. n /\ im[stack[i].pkg][k] = stack[i + 1].pkg)
        BY <2>1, <3>1, <1>2 DEF StackSound, LookedAt
      <3> QED BY <3>1, <3>2, <1>2, <1>3, <1>4, <1>6
    <2> QED BY <2>1, <1>2 DEF LookedAt
  <1>10. ASSUME stack[n].next > Len(im[p]) PROVE ToSet(im[p]) \subseteq S
    <2>1. im[p] \in Seq(Paths)
      BY <1>7 DEF Sound
    <2>2. ASSUME NEW k \in DOMAIN im[p] PROVE im[p][k] \in S
      <3>1. k < stack[n].next
        BY <2>1, <1>3, <1>10
      <3>2. n + 1 \notin DOMAIN stack
        BY <1>2
      <3> QED BY <3>1, <3>2, <1>2, <1>3, <1>5 DEF StackSound, LookedAt
    <2> QED BY <2>2 DEF ToSet
  <1> QED BY <1>3, <1>7, <1>8, <1>9, <1>10 DEF StackSound, t, p

(***************************************************************************)
(* Loading.                                                                *)
(***************************************************************************)

LoaderInv == LoaderTypeOK /\ StacksLoaded /\ LoadingInv /\ RankInv /\ CycleErrors

\* Looking at p settles it, or pushes its frame; what was settled stays so.
LEMMA LooksSettled ==
  ASSUME LoaderTypeOK, StacksLoaded, NEW stack \in Stacks, NEW p \in Paths,
         Pkgs(stack) = Pkgs(loading), LooksAt(stack, p)
  PROVE  /\ Finished' = Finished /\ Blamed \subseteq Blamed'
         /\ \/ loading' = stack /\ p \in Blamed' \cup Finished' /\ Loaded' = Loaded
               /\ packages' = packages
            \/ Pushed(stack, p) /\ p \notin Loaded
  <1>1. CASE Known(stack, p) /\ p \notin Pkgs(stack)
    <2>1. Loaded' = Loaded /\ loading' = stack /\ errors' = errors /\ packages' = packages /\ p \in Loaded
      BY <1>1 DEF Known, Loaded
    <2>2. Pkgs(loading)' = Pkgs(stack) /\ Blamed' = Blamed
      BY <2>1 DEF Pkgs, Blamed
    <2> QED BY <1>1, <2>1, <2>2 DEF Finished
  <1>2. CASE Erred(stack, p)
    <2>1. Loaded' = Loaded /\ loading' = stack /\ packages' = packages
      BY <1>2 DEF Erred, Loaded
    <2>2. Pkgs(loading)' = Pkgs(stack) /\ Blamed' = Blamed \cup {p}
      BY <1>2, <2>1, ErredTypes DEF Pkgs
    <2> QED BY <2>1, <2>2 DEF Finished
  <1>3. CASE Pushed(stack, p) /\ p \notin Loaded
    <2>1. Loaded' = Loaded \cup {p} /\ loading' = Append(stack, Frame(p)) /\ errors' = errors
      BY <1>3, PushedLoads DEF Pushed
    <2>2. Pkgs(loading)' = Pkgs(loading) \cup {p}
      <3>1. Pkgs(Append(stack, Frame(p))) = Pkgs(stack) \cup {p}
        BY PushedStack
      <3> QED BY <3>1, <2>1 DEF Pkgs
    <2>3. Blamed' = Blamed
      BY <2>1 DEF Blamed
    <2>4. Finished' = Finished
      BY <2>1, <2>2, <1>3 DEF Finished
    <2> QED BY <1>3, <2>3, <2>4
  <1> QED BY <1>1, <1>2, <1>3 DEF LooksAt

\* The ranks last while the packages finished do.
LEMMA RanksLast ==
  ASSUME LoaderTypeOK, RankInv, Grows(imports, imports'), Finished' = Finished, Blamed \subseteq Blamed'
  PROVE  RankInv'
  <1>1. PICK N \in Nat : \E f \in [Paths -> 0 .. N] : Ranked(imports, Finished, Blamed, f)
    BY DEF RankInv
  <1>2. PICK f \in [Paths -> 0 .. N] : Ranked(imports, Finished, Blamed, f)
    BY <1>1
  <1>3. \A p \in Finished : imports'[p] = imports[p]
    BY DEF Grows, Finished, LoaderTypeOK
  <1>4. Ranked(imports', Finished', Blamed', f)
    BY <1>2, <1>3 DEF Ranked
  <1> QED BY <1>4 DEF RankInv

\* One more package is finished: it gets the highest rank.
LEMMA RanksGrow ==
  ASSUME NEW im, NEW B, NEW D \in SUBSET Paths, NEW p \in Paths, p \notin D,
         NEW N \in Nat, NEW f \in [Paths -> 0 .. N], Ranked(im, D, B, f), ToSet(im[p]) \subseteq B \cup D
  PROVE  \E g \in [Paths -> 0 .. N + 1] : Ranked(im, D \cup {p}, B, g)
  <1> DEFINE g == [q \in Paths |-> IF q = p THEN N + 1 ELSE f[q]]
  <1>1. g \in [Paths -> 0 .. N + 1]
    OBVIOUS
  <1>2. g[p] = N + 1 /\ \A q \in Paths : q # p => g[q] = f[q]
    OBVIOUS
  <1>3. \A q \in D : q \in Paths /\ q # p /\ f[q] < N + 1
    OBVIOUS
  <1> HIDE DEF g
  <1>4. ASSUME NEW t \in D \cup {p}, NEW q \in ToSet(im[t])
        PROVE  q \in B \/ (q \in D \cup {p} /\ g[q] < g[t])
    <2>1. CASE t = p
      <3>1. q \in B \/ q \in D
        BY <2>1
      <3>2. q \in D => g[q] < g[p]
        BY <1>2, <1>3
      <3> QED BY <2>1, <3>1, <3>2
    <2>2. CASE t \in D
      <3>1. q \in B \/ (q \in D /\ f[q] < f[t])
        BY <2>2 DEF Ranked
      <3>2. g[t] = f[t] /\ (q \in D => g[q] = f[q])
        BY <2>2, <1>2, <1>3
      <3> QED BY <3>1, <3>2
    <2> QED BY <2>1, <2>2
  <1> QED BY <1>1, <1>4 DEF Ranked

\* A cycle is reported only for a package that reaches itself.
LEMMA CyclesReported ==
  ASSUME LoaderTypeOK, CycleErrors, NEW stack \in Stacks, NEW p \in Paths, LooksAt(stack, p),
         Grows(imports, imports'), p \in Pkgs(stack) => Reaches(p, p)
  PROVE  CycleErrors'
  <1>0. Sound(imports)
    BY DEF Sound, LoaderTypeOK
  <1>1. \A q : Reaches(q, q) => Reaches(q, q)'
    BY ReachesStill DEF Reaches
  <1>2. CASE errors' = errors
    BY <1>1, <1>2 DEF CycleErrors
  <1>3. CASE Erred(stack, p)
    <2> DEFINE n == Len(errors)
    <2>1. /\ n \in Nat /\ DOMAIN errors = 1 .. n /\ DOMAIN errors' = 1 .. n + 1
          /\ \A i \in 1 .. n : errors'[i] = errors[i]
          /\ errors'[n + 1][2] = p
          /\ errors'[n + 1][1] = "cycle" => p \in Pkgs(stack)
      BY <1>3, ErredTypes
    <2> HIDE DEF n
    <2>2. \A i \in 1 .. n + 1 : i = n + 1 \/ i \in 1 .. n
      BY <2>1
    <2>3. ASSUME NEW i \in 1 .. n + 1, errors'[i][1] = "cycle"
          PROVE  Reaches(errors[i][2], errors[i][2])'
      <3>1. CASE i = n + 1
        BY <3>1, <2>1, <2>3, <1>1
      <3>2. CASE i \in 1 .. n
        BY <3>2, <2>1, <2>3, <1>1 DEF CycleErrors
      <3> QED BY <3>1, <3>2, <2>2
    <2> QED BY <2>1, <2>3 DEF CycleErrors
  <1> QED BY <1>2, <1>3 DEF LooksAt, Known, Pushed

\* A step that loads nothing.
LEMMA LoadingLasts ==
  ASSUME LoaderInv, LoaderTypeOK', StacksLoaded', UNCHANGED <<packages, imports, errors, loading>>
  PROVE  LoaderInv'
  <1>1. Loaded' = Loaded /\ Blamed' = Blamed /\ Pkgs(loading)' = Pkgs(loading)
    BY DEF Loaded, Blamed, Pkgs
  <1>2. Finished' = Finished
    BY <1>1 DEF Finished
  <1>3. LoadingInv'
    BY <1>1, <1>2 DEF LoaderInv, LoadingInv
  <1>4. RankInv'
    BY <1>1, <1>2 DEF LoaderInv, RankInv
  <1>5. CycleErrors'
    BY DEF LoaderInv, CycleErrors, Reaches
  <1> QED BY <1>3, <1>4, <1>5 DEF LoaderInv

\* The next path of a call keeps the loader's invariant.
LEMMA LoadNextKeeps ==
  ASSUME LoaderInv, LoadNext, LoaderTypeOK', StacksLoaded', Grows(imports, imports')
  PROVE  LoaderInv'
  <1> DEFINE p == Head(todo)
  <1>1. p \in Paths /\ LooksAt(<<>>, p) /\ loading = <<>>
    BY LoadNextLooks, TakenApart DEF LoaderInv, LoaderTypeOK
  <1> HIDE DEF p
  <1>2. <<>> \in Stacks /\ Pkgs(<<>>) = Pkgs(loading) /\ Pkgs(<<>>) = {}
    BY <1>1 DEF Stacks, Pkgs
  <1>3. /\ Finished' = Finished /\ Blamed \subseteq Blamed'
        /\ \/ loading' = <<>> /\ p \in Blamed' \cup Finished' /\ Loaded' = Loaded
              /\ packages' = packages
           \/ Pushed(<<>>, p) /\ p \notin Loaded
    BY <1>1, <1>2, LooksSettled DEF LoaderInv
  <1>4. RankInv'
    BY <1>3, RanksLast DEF LoaderInv
  <1>5. CycleErrors'
    BY <1>1, <1>2, CyclesReported DEF LoaderInv
  <1>6. LoadingInv'
    <2>1. CASE loading' = <<>> /\ packages' = packages
      BY <2>1 DEF LoaderInv, LoadingInv, StackSound, Distinct, Chain, LookedAt
    <2>2. CASE Pushed(<<>>, p) /\ p \notin Loaded
      <3>1. IsInjective(packages')
        BY <1>1, <2>2, AppendedDistinct DEF Pushed, LoaderInv, LoadingInv, LoaderTypeOK, Loaded
      <3>2. p \in DOMAIN imports' /\ Sound(imports')
        BY <1>1, <1>2, <2>2, PushedLoads DEF LoaderInv, Sound
      <3>3. \A S : StackSound(imports', Append(<<>>, Frame(p)), S)
        BY <1>1, <3>2, StackStarts
      <3>4. loading' = Append(<<>>, Frame(p))
        BY <2>2 DEF Pushed
      <3> QED BY <3>1, <3>3, <3>4 DEF LoadingInv
    <2> QED BY <1>3, <2>1, <2>2
  <1> QED BY <1>4, <1>5, <1>6 DEF LoaderInv

\* The next import of the package being loaded keeps it.
LEMMA LoadDependencyKeeps ==
  ASSUME LoaderInv, LoadDependency, LoaderTypeOK', StacksLoaded', Grows(imports, imports')
  PROVE  LoaderInv'
  <1> DEFINE p == NextImport(loading)
             stack == Looked(loading)
             t == loading[Len(loading)].pkg
             k == loading[Len(loading)].next
             S == Blamed \cup Finished
  <1>1. loading # <<>> /\ ~Exhausted(loading) /\ LooksAt(stack, p) /\ loading \in Stacks
    BY LoadDependencyLooks DEF LoaderInv, LoaderTypeOK
  <1>2. stack \in Stacks /\ Pkgs(stack) = Pkgs(loading) /\ Len(loading) \in DOMAIN loading
    BY <1>1, LookedStack
  <1>3. /\ t \in Loaded /\ k \in DOMAIN imports[t] /\ p = imports[t][k]
        /\ p \in Paths /\ p \in ToSet(imports[t])
    BY <1>1, NextImportPaths DEF LoaderInv, StacksLoaded
  <1>4. /\ Sound(imports) /\ Sound(imports') /\ DOMAIN imports = Loaded /\ DOMAIN imports' = Loaded'
        /\ Pkgs(loading) \subseteq Loaded
    BY DEF Sound, LoaderInv, LoaderTypeOK, StacksLoaded
  <1>5. StackSound(imports, loading, S)
    BY DEF LoaderInv, LoadingInv
  <1> HIDE DEF p, stack, S
  <1>6. /\ Finished' = Finished /\ Blamed \subseteq Blamed'
        /\ \/ loading' = stack /\ p \in Blamed' \cup Finished' /\ Loaded' = Loaded
              /\ packages' = packages
           \/ Pushed(stack, p) /\ p \notin Loaded
    BY <1>1, <1>2, <1>3, LooksSettled DEF LoaderInv
  <1>7. RankInv'
    BY <1>6, RanksLast DEF LoaderInv
  <1>8. CycleErrors'
    <2>1. ASSUME p \in Pkgs(stack) PROVE Reaches(p, p)
      <3>1. PICK i \in DOMAIN loading : loading[i].pkg = p
        BY <2>1, <1>2 DEF Pkgs
      <3>2. Reachable(imports, t, p)
        BY <1>3, <1>4, ReachesImports
      <3>3. i = Len(loading) \/ i < Len(loading)
        BY <3>1, <1>1, LookedStack
      <3>4. CASE i = Len(loading)
        BY <3>1, <3>2, <3>4 DEF Reaches
      <3>5. CASE i < Len(loading)
        <4>1. Reachable(imports, p, t)
          BY <3>1, <3>5, <1>2, <1>5 DEF StackSound, Chain
        <4> QED BY <4>1, <3>2, ReachesThrough DEF Reaches
      <3> QED BY <3>3, <3>4, <3>5
    <2> QED BY <1>1, <1>2, <1>3, <2>1, CyclesReported DEF LoaderInv
  <1> DEFINE S2 == Blamed' \cup Finished'
  <1>9. S \subseteq S2
    BY <1>6 DEF S
  <1> HIDE DEF S2
  <1>10. StackSound(imports', loading, S2)
    BY <1>4, <1>5, <1>9, StackStill
  <1>11. /\ imports'[t] = imports[t] /\ k \in DOMAIN imports'[t] /\ imports'[t][k] = p
         /\ Pkgs(loading) \subseteq DOMAIN imports'
    BY <1>3, <1>4 DEF Grows
  <1>12. LoadingInv'
    <2>1. CASE loading' = stack /\ p \in S2 /\ packages' = packages
      <3>1. StackSound(imports', stack, S2)
        BY <1>1, <1>4, <1>10, <1>11, <2>1, StackAdvances DEF stack
      <3> QED BY <2>1, <3>1 DEF LoadingInv, S2, LoaderInv
    <2>2. CASE Pushed(stack, p) /\ p \notin Loaded
      <3>1. IsInjective(packages')
        BY <1>3, <2>2, AppendedDistinct DEF Pushed, LoaderInv, LoadingInv, LoaderTypeOK, Loaded
      <3>2. p \in DOMAIN imports' /\ p \notin Pkgs(loading)
        BY <1>2, <1>3, <1>4, <2>2, PushedLoads DEF LoaderInv
      <3>3. StackSound(imports', Append(stack, Frame(p)), S2)
        BY <1>1, <1>3, <1>4, <1>10, <1>11, <3>2, StackPushes DEF stack
      <3>4. loading' = Append(stack, Frame(p))
        BY <2>2 DEF Pushed
      <3> QED BY <3>1, <3>3, <3>4 DEF LoadingInv, S2
    <2> QED BY <1>6, <2>1, <2>2 DEF S2
  <1> QED BY <1>7, <1>8, <1>12 DEF LoaderInv

\* A package loaded with all it imports ranks above them.
LEMMA PopLoadingKeeps ==
  ASSUME LoaderInv, popLoading, LoaderTypeOK', StacksLoaded'
  PROVE  LoaderInv'
  <1> DEFINE p == Last(loading).pkg
             S == Blamed \cup Finished
             T == S \cup {p}
  <1>1. /\ loading # <<>> /\ Last(loading).next > Len(imports[p]) /\ loading' = Front(loading)
        /\ UNCHANGED <<packages, imports, errors>>
    BY DEF popLoading, Exhausted
  <1>2. Sound(imports) /\ Pkgs(loading) \subseteq DOMAIN imports /\ loading \in Stacks
    BY DEF LoaderInv, LoaderTypeOK, StacksLoaded, Sound
  <1>3. StackSound(imports, loading, S)
    BY DEF LoaderInv, LoadingInv
  <1>4. S \cup {p} \subseteq T
    OBVIOUS
  <1> HIDE DEF S, T
  <1>5. /\ StackSound(imports, Front(loading), T) /\ Pkgs(Front(loading)) = Pkgs(loading) \ {p}
        /\ p \in Pkgs(loading) /\ ToSet(imports[p]) \subseteq S
    BY <1>1, <1>2, <1>3, <1>4, StackPops
  <1> HIDE DEF p
  <1>6. Loaded' = Loaded /\ Blamed' = Blamed
    BY <1>1 DEF Loaded, Blamed
  <1>7. Pkgs(loading)' = Pkgs(loading) \ {p}
    <2>1. Pkgs(loading)' = Pkgs(Front(loading))
      BY <1>1 DEF Pkgs
    <2> QED BY <2>1, <1>5
  <1>8. Finished' = Finished \cup {p} /\ p \in Loaded /\ p \notin Finished
    BY <1>5, <1>6, <1>7 DEF Finished, LoaderInv, StacksLoaded
  <1>9. LoadingInv'
    <2>1. T = Blamed' \cup Finished'
      BY <1>6, <1>8 DEF S, T
    <2> QED BY <1>1, <1>5, <2>1 DEF LoadingInv, LoaderInv
  <1>10. RankInv'
    <2>1. PICK N \in Nat : \E f \in [Paths -> 0 .. N] : Ranked(imports, Finished, Blamed, f)
      BY DEF LoaderInv, RankInv
    <2>2. PICK f \in [Paths -> 0 .. N] : Ranked(imports, Finished, Blamed, f)
      BY <2>1
    <2>3. Finished \in SUBSET Paths /\ p \in Paths /\ p \notin Finished
          /\ ToSet(imports[p]) \subseteq Blamed \cup Finished
      <3>1. Loaded \subseteq Paths
        BY DEF Loaded, ToSet, LoaderInv, LoaderTypeOK
      <3> QED BY <3>1, <1>5, <1>8 DEF Finished, S
    <2>4. \E g \in [Paths -> 0 .. N + 1] : Ranked(imports, Finished \cup {p}, Blamed, g)
      BY <2>1, <2>2, <2>3, RanksGrow
    <2>5. \E g \in [Paths -> 0 .. N + 1] : Ranked(imports', Finished', Blamed', g)
      BY <1>1, <1>6, <1>8, <2>4
    <2> QED BY <2>1, <2>5 DEF RankInv
  <1>11. CycleErrors'
    BY <1>1 DEF LoaderInv, CycleErrors, Reaches
  <1> QED BY <1>9, <1>10, <1>11 DEF LoaderInv

\* Every step keeps the loader's invariant.
LEMMA LoaderKeeps ==
  ASSUME LoaderInv, LoaderMoves
  PROVE  LoaderInv'
  <1>1. LoaderTypeOK' /\ StacksLoaded' /\ Grows(imports, imports')
    BY LoaderTypesStep DEF LoaderInv
  <1>2. CASE LoadNext
    BY <1>1, <1>2, LoadNextKeeps
  <1>3. CASE LoadDependency
    BY <1>1, <1>3, LoadDependencyKeeps
  <1>4. CASE popLoading
    BY <1>1, <1>4, PopLoadingKeeps
  <1>5. CASE UNCHANGED <<packages, imports, errors, loading>>
    BY <1>1, <1>5, LoadingLasts
  <1>6. LoadNext \/ LoadDependency \/ popLoading \/ UNCHANGED <<packages, imports, errors, loading>>
    BY DEF LoaderMoves, LoadImports, LoadImplicitDep, Load, Sort, Loads, VisitRoot, VisitImport,
           VisitEnd, Sorted, EditFiles, loaderVars
  <1> QED BY <1>2, <1>3, <1>4, <1>5, <1>6

\* An error recorded stays.
LEMMA ErrorsStay ==
  ASSUME LoaderTypeOK, StacksLoaded, LoaderMoves
  PROVE  errors' = <<>> => errors = <<>>
  <1>1. ASSUME NEW stack, NEW p, LooksAt(stack, p) PROVE errors' = <<>> => errors = <<>>
    <2>1. errors' = errors \/ \E e : errors' = Append(errors, e)
      BY <1>1 DEF LooksAt, Known, Erred, Pushed
    <2>2. errors \in Seq({"cycle", "load"} \X Paths)
      BY DEF LoaderTypeOK
    <2> QED BY <2>1, <2>2
  <1>2. CASE LoadNext
    BY <1>1, <1>2, LoadNextLooks
  <1>3. CASE LoadDependency
    BY <1>1, <1>3, LoadDependencyLooks DEF LoaderTypeOK
  <1>4. LoadNext \/ LoadDependency \/ errors' = errors
    BY DEF LoaderMoves, LoadImports, LoadImplicitDep, Load, Sort, Loads, VisitRoot, VisitImport,
           VisitEnd, Sorted, EditFiles, loaderVars, popLoading
  <1> QED BY <1>2, <1>3, <1>4

\* Once no package is being loaded, and there was no error, what the packages loaded
\* import is loaded, and none reaches itself.
LEMMA AllLoaded ==
  ASSUME LoaderInv, loading = <<>>, errors = <<>>
  PROVE  /\ \A p \in Loaded : ToSet(imports[p]) \subseteq Loaded
         /\ \A p : ~Reaches(p, p)
  <1>1. Finished = Loaded /\ Blamed = {} /\ DOMAIN imports = Loaded /\ Sound(imports)
    BY DEF Finished, Pkgs, Blamed, LoaderInv, LoaderTypeOK, Sound
  <1>2. PICK N \in Nat : \E f \in [Paths -> 0 .. N] : Ranked(imports, Finished, Blamed, f)
    BY DEF LoaderInv, RankInv
  <1>3. PICK f \in [Paths -> 0 .. N] : Ranked(imports, Finished, Blamed, f)
    BY <1>2
  <1>4. \A t \in DOMAIN imports : \A u \in ToSet(imports[t]) :
          u \in {} \/ (u \in DOMAIN imports /\ f[u] < f[t])
    BY <1>1, <1>3 DEF Ranked
  <1>5. ASSUME NEW p, Reaches(p, p) PROVE FALSE
    <2>1. Reachable(imports, p, p)
      BY <1>5 DEF Reaches
    <2>2. \E e \in {} : Reachable(imports, e, p) /\ Reachable(imports, p, e)
      BY <1>1, <1>4, <2>1, CycleThrough
    <2> QED BY <2>2
  <1> QED BY <1>1, <1>4, <1>5

\* With no package being loaded, every cycle goes through a package named by an error.
LEMMA CyclesFound ==
  ASSUME LoaderInv, PcInv
  PROVE  CyclesExact
  <1>1. ASSUME NEW e \in ToSet(errors), e[1] = "cycle" PROVE Reaches(e[2], e[2])
    <2>1. PICK i \in DOMAIN errors : e = errors[i]
      BY DEF ToSet
    <2> QED BY <1>1, <2>1 DEF LoaderInv, CycleErrors
  <1>2. ASSUME pc = "idle", NEW p \in Loaded, Reaches(p, p)
        PROVE  \E e \in ToSet(errors) : Reaches(e[2], p) /\ Reaches(p, e[2])
    <2>1. Finished = Loaded /\ DOMAIN imports = Loaded /\ Sound(imports)
      BY <1>2 DEF Finished, Pkgs, LoaderInv, LoaderTypeOK, Sound, PcInv
    <2>2. PICK N \in Nat : \E f \in [Paths -> 0 .. N] : Ranked(imports, Finished, Blamed, f)
      BY DEF LoaderInv, RankInv
    <2>3. PICK f \in [Paths -> 0 .. N] : Ranked(imports, Finished, Blamed, f)
      BY <2>2
    <2>4. \A t \in DOMAIN imports : \A u \in ToSet(imports[t]) :
            u \in Blamed \/ (u \in DOMAIN imports /\ f[u] < f[t])
      BY <2>1, <2>3 DEF Ranked
    <2>5. Reachable(imports, p, p)
      BY <1>2 DEF Reaches
    <2>6. PICK q \in Blamed : Reachable(imports, q, p) /\ Reachable(imports, p, q)
      BY <2>1, <2>4, <2>5, CycleThrough
    <2>7. PICK i \in DOMAIN errors : q = errors[i][2]
      BY DEF Blamed
    <2>8. errors[i] \in ToSet(errors)
      BY DEF ToSet
    <2> QED BY <2>6, <2>7, <2>8 DEF Reaches
  <1> QED BY <1>1, <1>2 DEF CyclesExact

\* The recursions have frames only while they run.
LEMMA PcKeeps ==
  ASSUME PcInv, LoaderMoves
  PROVE  PcInv'
  BY DEF PcInv, LoaderMoves, LoadImports, LoadImplicitDep, Load, Sort, Loads, LoadNext, LoadDependency,
         popLoading, VisitRoot, VisitImport, VisitEnd, Sorted, EditFiles, loaderVars, sorting

\* What is asked for is never dropped without an error.
LEMMA WantedKeeps ==
  ASSUME LoaderInv, SessionTypeOK, PcInv, WantedInv, LoaderMoves
  PROVE  WantedInv'
  <1>0. /\ LoaderTypeOK /\ StacksLoaded /\ Loaded \subseteq Loaded'
        /\ errors' = <<>> => errors = <<>>
    BY ErrorsStay, LoaderTypesStep DEF LoaderInv
  <1> SUFFICES ASSUME errors' = <<>>
               PROVE  ToSet(asked') \cup ToSet(implicit') \subseteq
                        Loaded' \cup (IF pc' = "load" THEN ToSet(todo') ELSE {})
    BY DEF WantedInv
  <1>1. ToSet(asked) \cup ToSet(implicit) \subseteq Loaded \cup (IF pc = "load" THEN ToSet(todo) ELSE {})
    BY <1>0 DEF WantedInv
  <1>2. CASE \E s \in Seq(Paths) : LoadImports(s) /\ asked' = s
    BY <1>0, <1>1, <1>2 DEF LoadImports
  <1>3. CASE asked' = asked /\ \E p \in Paths : LoadImplicitDep(p)
    <2>1. PICK p \in Paths : LoadImplicitDep(p)
      BY <1>3
    <2>2. ToSet(implicit') \subseteq ToSet(implicit) \cup {p}
      BY <2>1, Appended DEF LoadImplicitDep, LoaderInv, LoaderTypeOK
    <2>3. ToSet(<<p>>) = {p}
      BY DEF ToSet
    <2> QED BY <1>0, <1>1, <1>3, <2>1, <2>2, <2>3 DEF LoadImplicitDep
  <1>4. CASE asked' = asked /\ LoadNext
    <2>1. /\ LooksAt(<<>>, Head(todo)) /\ pc = "load" /\ todo # <<>> /\ todo' = Tail(todo) /\ pc' = pc
          /\ implicit' = implicit
      BY <1>4, LoadNextLooks DEF LoadNextRest
    <2>2. ToSet(todo) = {Head(todo)} \cup ToSet(todo') /\ Head(todo) \in Paths
      BY <1>0, <2>1, TakenApart DEF LoaderTypeOK
    <2>3. ~Erred(<<>>, Head(todo))
      <3>1. <<>> \in Stacks
        BY DEF Stacks
      <3>2. ASSUME Erred(<<>>, Head(todo)) PROVE FALSE
        <4>1. Len(errors) \in Nat /\ Len(errors') = Len(errors) + 1
          BY <1>0, <2>2, <3>1, <3>2, ErredTypes
        <4>2. Len(errors') = 0
          OBVIOUS
        <4> QED BY <4>1, <4>2
      <3> QED BY <3>2
    <2>4. Head(todo) \in Loaded'
      <3>1. CASE Known(<<>>, Head(todo))
        BY <3>1, <1>0 DEF Known
      <3>2. CASE Pushed(<<>>, Head(todo))
        <4>1. <<>> \in Stacks
          BY DEF Stacks
        <4> QED BY <4>1, <3>2, <2>2, <1>0, PushedLoads
      <3> QED BY <3>1, <3>2, <2>1, <2>3 DEF LooksAt
    <2> QED BY <1>0, <1>1, <1>4, <2>1, <2>2, <2>4
  <1>5. CASE asked' = asked /\ (LoadDependency \/ popLoading)
    BY <1>0, <1>1, <1>5 DEF LoadDependency, popLoading
  <1>6. CASE asked' = asked /\ Loads
    <2>1. ToSet(todo) = {}
      BY <1>6 DEF Loads, ToSet
    <2> QED BY <1>0, <1>1, <1>6, <2>1 DEF Loads
  <1>7. CASE asked' = asked /\ Sort
    BY <1>0, <1>1, <1>7 DEF Sort, VisitRoot, VisitImport, VisitEnd, Sorted
  <1>8. CASE asked' = asked /\ \E p \in Paths \ Injected : \E c \in Contents : EditFiles(p, c)
    BY <1>0, <1>1, <1>8 DEF EditFiles
  <1>9. CASE (asked' = asked \/ asked' = <<>>) /\ UNCHANGED loaderVars
    <2>1. ToSet(asked') \subseteq ToSet(asked)
      BY <1>9 DEF ToSet
    <2> QED BY <1>0, <1>1, <1>9, <2>1 DEF loaderVars
  <1> QED BY <1>2, <1>3, <1>4, <1>5, <1>6, <1>7, <1>8, <1>9 DEF LoaderMoves, Load

(***************************************************************************)
(* Ordering.                                                               *)
(***************************************************************************)

\* One root is visited.
LEMMA RootTaken ==
  ASSUME NEW roots \in Seq(Paths), NEW td \in Seq(Paths), td # <<>>, NEW V, RootsLeft(roots, td, V),
         NEW W, V \subseteq W, Head(td) \in W
  PROVE  /\ RootsLeft(roots, Tail(td), W)
         /\ Len(roots) - Len(td) + 1 \in DOMAIN roots
         /\ Head(td) = roots[Len(roots) - Len(td) + 1]
  <1> DEFINE n == Len(roots)
             m == Len(td)
             t == Tail(td)
  <1>1. /\ n \in Nat /\ DOMAIN roots = 1 .. n
        /\ m \in Nat /\ m # 0 /\ Len(t) = m - 1 /\ Head(td) = td[1]
        /\ \A i \in 1 .. m - 1 : t[i] = td[i + 1]
    BY TakenApart
  <1>2. /\ m <= n /\ \A i \in 1 .. m : td[i] = roots[n - m + i]
        /\ \A i \in 1 .. n - m : roots[i] \in V
    BY DEF RootsLeft
  <1> HIDE DEF n, m, t
  <1>3. td[1] = roots[n - m + 1] /\ n - m + 1 \in 1 .. n
    BY <1>1, <1>2
  <1>4. Len(t) <= n
    BY <1>1, <1>2
  <1>5. ASSUME NEW i \in 1 .. Len(t) PROVE t[i] = roots[n - Len(t) + i]
    <2>1. i \in 1 .. m - 1 /\ i + 1 \in 1 .. m /\ n - m + (i + 1) = n - Len(t) + i
      BY <1>1
    <2> QED BY <2>1, <1>1, <1>2
  <1>6. ASSUME NEW i \in 1 .. n - Len(t) PROVE roots[i] \in W
    <2>1. i = n - m + 1 \/ i \in 1 .. n - m
      BY <1>1, <1>2
    <2> QED BY <2>1, <1>1, <1>2, <1>3
  <1> QED BY <1>1, <1>3, <1>4, <1>5, <1>6 DEF RootsLeft, n, m, t

\* A package goes after what it imports.
LEMMA InOrderAppend ==
  ASSUME NEW s \in Seq(Paths), InOrder(s), NEW p \in Paths, p \notin ToSet(s),
         ToSet(imports[p]) \subseteq ToSet(s), Implied(p) \/ ToSet(implicit) \subseteq ToSet(s)
  PROVE  InOrder(Append(s, p))
  <1> DEFINE t == Append(s, p)
             n == Len(s)
  <1>1. /\ DOMAIN s = 1 .. n /\ DOMAIN t = 1 .. n + 1 /\ n \in Nat /\ t[n + 1] = p
        /\ \A i \in 1 .. n : t[i] = s[i]
    BY Appended
  <1>2. IsInjective(t)
    BY AppendedDistinct DEF InOrder
  <1>a. /\ p \notin ToSet(s) /\ ToSet(imports[p]) \subseteq ToSet(s)
        /\ Implied(p) \/ ToSet(implicit) \subseteq ToSet(s)
    OBVIOUS
  <1> HIDE DEF t, n
  <1>3. \A i \in 1 .. n + 1 : i = n + 1 \/ i \in 1 .. n
    BY <1>1
  <1>4. \A q \in ToSet(s) : \E j \in 1 .. n + 1 : j < n + 1 /\ t[j] = q
    <2>1. \A j \in 1 .. n : j \in 1 .. n + 1 /\ j < n + 1
      BY <1>1
    <2> QED BY <1>1, <2>1 DEF ToSet
  <1>5. ASSUME NEW i \in 1 .. n, NEW q, \E j \in DOMAIN s : j < i /\ s[j] = q
        PROVE  \E j \in 1 .. n + 1 : j < i /\ t[j] = q
    <2>1. PICK j \in 1 .. n : j < i /\ s[j] = q
      BY <1>1, <1>5
    <2>2. j \in 1 .. n + 1 /\ t[j] = q
      BY <1>1, <2>1
    <2> QED BY <2>1, <2>2
  <1>6. ASSUME NEW i \in 1 .. n + 1, NEW q \in ToSet(imports[t[i]])
        PROVE  \E j \in 1 .. n + 1 : j < i /\ t[j] = q
    <2>1. CASE i = n + 1
      BY <2>1, <1>1, <1>4, <1>a
    <2>2. CASE i \in 1 .. n
      <3>1. \E j \in DOMAIN s : j < i /\ s[j] = q
        BY <2>2, <1>1 DEF InOrder
      <3> QED BY <2>2, <3>1, <1>5
    <2> QED BY <2>1, <2>2, <1>3
  <1>7. ASSUME NEW i \in 1 .. n + 1, ~Implied(t[i]), NEW d \in ToSet(implicit)
        PROVE  \E j \in 1 .. n + 1 : j < i /\ t[j] = d
    <2>1. CASE i = n + 1
      BY <2>1, <1>1, <1>4, <1>7, <1>a
    <2>2. CASE i \in 1 .. n
      <3>1. \E j \in DOMAIN s : j < i /\ s[j] = d
        BY <2>2, <1>1, <1>7 DEF InOrder
      <3> QED BY <2>2, <3>1, <1>5
    <2> QED BY <2>1, <2>2, <1>3
  <1>8. \A i \in DOMAIN t : \A q \in ToSet(imports[t[i]]) : \E j \in DOMAIN t : j < i /\ t[j] = q
    BY <1>1, <1>6
  <1>9. \A i \in DOMAIN t : Implied(t[i]) \/
          \A d \in ToSet(implicit) : \E j \in DOMAIN t : j < i /\ t[j] = d
    BY <1>1, <1>7
  <1>10. InOrder(t)
    BY <1>2, <1>8, <1>9 DEF InOrder
  <1> QED BY <1>10 DEF t

\* Nothing else changes while the packages are sorted.
Sorting == UNCHANGED <<disk, edits, packages, imports, implicit, order, errors, loading>>

\* An order lasts while its packages and the implicit dependencies do.
LEMMA InOrderLasts ==
  ASSUME NEW s, InOrder(s), UNCHANGED <<imports, implicit>>
  PROVE  /\ \A t : t = s => InOrder(t)'
         /\ \A p : Implied(p)' <=> Implied(p)
  <1>1. \A p : Implied(p)' <=> Implied(p)
    BY DEF Implied, Reaches
  <1>2. ASSUME NEW t, t = s PROVE InOrder(t)'
    BY <1>1, <1>2 DEF InOrder
  <1> QED BY <1>1, <1>2

\* A package visited for the first time gets a frame; one visited before is sorted,
\* or still has its own.
LEMMA VisitCases ==
  ASSUME NEW stack, NEW p \in Loaded, visit(stack, p)
  PROVE  \/ p \in visited /\ visiting' = stack /\ visited' = visited
         \/ /\ p \notin visited /\ visited' = visited \cup {p}
            /\ visiting' = Append(stack, Frame(p))
  BY DEF visit

\* What is known while the packages are sorted.
LEMMA SortFacts ==
  ASSUME LoaderInv, PcInv, WantedInv, pc = "sort"
  PROVE  /\ errors = <<>> /\ loading = <<>> /\ LoaderTypeOK /\ StacksLoaded /\ Sound(imports)
         /\ Loaded \subseteq Paths /\ DOMAIN imports = Loaded
         /\ \A p \in Loaded : ToSet(imports[p]) \subseteq Loaded
         /\ \A p : ~Reaches(p, p)
         /\ Roots \in Seq(Paths) /\ ToSet(Roots) \subseteq Loaded
         /\ \A i \in DOMAIN Roots : i <= Len(implicit) => Roots[i] \in ToSet(implicit)
         /\ \A d \in ToSet(implicit) : \E i \in 1 .. Len(implicit) : i \in DOMAIN Roots /\ Roots[i] = d
         /\ \A p \in Loaded : \E i \in DOMAIN Roots : Roots[i] = p
         /\ Len(implicit) \in Nat
  <1>1. errors = <<>> /\ loading = <<>> /\ LoaderTypeOK /\ StacksLoaded /\ Sound(imports)
    BY DEF PcInv, LoaderInv, LoaderTypeOK, Sound
  <1>2. Loaded \subseteq Paths /\ DOMAIN imports = Loaded
    BY <1>1 DEF Loaded, ToSet, LoaderTypeOK
  <1>3. /\ \A p \in Loaded : ToSet(imports[p]) \subseteq Loaded
        /\ \A p : ~Reaches(p, p)
    BY <1>1, AllLoaded
  <1>4. ToSet(implicit) \subseteq Loaded
    BY <1>1 DEF WantedInv
  <1> DEFINE u == Roots
             m == Len(implicit)
             n == Len(packages)
  <1>5. /\ u \in Seq(Paths) /\ DOMAIN u = 1 .. m + n /\ m \in Nat /\ n \in Nat
        /\ DOMAIN implicit = 1 .. m /\ DOMAIN packages = 1 .. n
    BY <1>1 DEF Roots, LoaderTypeOK
  <1>6. \A i \in 1 .. m + n : u[i] = IF i <= m THEN implicit[i] ELSE packages[i - m]
    BY <1>1 DEF Roots, LoaderTypeOK
  <1> HIDE DEF u, m, n
  <1>7. \A i \in 1 .. m : i \in 1 .. m + n /\ u[i] = implicit[i]
    BY <1>5, <1>6
  <1>8. \A i \in 1 .. m + n : i <= m => i \in 1 .. m
    BY <1>5
  <1>9. \A i \in 1 .. m + n : ~(i <= m) => i - m \in 1 .. n /\ u[i] = packages[i - m]
    BY <1>5, <1>6
  <1>10. ASSUME NEW i \in 1 .. n PROVE i + m \in 1 .. m + n /\ u[i + m] = packages[i]
    <2>1. i + m \in 1 .. m + n /\ ~(i + m <= m) /\ (i + m) - m = i
      BY <1>5
    <2> QED BY <2>1, <1>6
  <1>11. \A i \in 1 .. m + n : i <= m => u[i] \in ToSet(implicit)
    BY <1>5, <1>7, <1>8 DEF ToSet
  <1>12. \A d \in ToSet(implicit) : \E i \in 1 .. m : i \in 1 .. m + n /\ u[i] = d
    BY <1>5, <1>7 DEF ToSet
  <1>13. \A p \in Loaded : \E i \in 1 .. m + n : u[i] = p
    BY <1>5, <1>10 DEF Loaded, ToSet
  <1>14. ToSet(u) \subseteq Loaded
    BY <1>4, <1>5, <1>9, <1>11 DEF ToSet, Loaded
  <1> QED BY <1>1, <1>2, <1>3, <1>5, <1>11, <1>12, <1>13, <1>14 DEF u, m

\* The next root, visited or not.
LEMMA VisitRootKeeps ==
  ASSUME LoaderInv, PcInv, WantedInv, SortInv, VisitRoot
  PROVE  SortInv'
  <1> DEFINE p == Head(todo)
  <1>1. pc = "sort" /\ visiting = <<>> /\ todo # <<>> /\ todo' = Tail(todo) /\ visit(<<>>, p)
        /\ UNCHANGED <<packages, imports, implicit, sorted, pc>>
    BY DEF VisitRoot
  <1>2. Pkgs(visiting) = {} /\ <<>> \in Stacks
    BY <1>1 DEF Pkgs, Stacks
  <1>3. visited = ToSet(sorted) /\ visited \subseteq Loaded /\ InOrder(sorted) /\ RootsLeft(Roots, todo, visited)
    BY <1>1, <1>2 DEF SortInv
  <1>4. /\ Roots \in Seq(Paths) /\ ToSet(Roots) \subseteq Loaded /\ todo \in Seq(Paths)
        /\ Loaded \subseteq Paths /\ DOMAIN imports = Loaded /\ Sound(imports) /\ Len(implicit) \in Nat
    BY <1>1, SortFacts DEF LoaderTypeOK
  <1> DEFINE k == Len(Roots) - Len(todo) + 1
             W == visited \cup {p}
  <1>5. RootsLeft(Roots, Tail(todo), W) /\ k \in DOMAIN Roots /\ p = Roots[k]
    <2>1. visited \subseteq W /\ Head(todo) \in W
      OBVIOUS
    <2> HIDE DEF W
    <2> QED BY <1>1, <1>3, <1>4, <2>1, RootTaken
  <1>6. p \in Loaded /\ p \in Paths
    BY <1>4, <1>5 DEF ToSet
  <1>7. Implied(p) \/ ToSet(implicit) \subseteq ToSet(sorted)
    <2>1. k \in Nat /\ DOMAIN Roots = 1 .. Len(Roots) /\ Len(Roots) \in Nat /\ Len(todo) \in Nat
      BY <1>4, <1>5
    <2>2. CASE k <= Len(implicit)
      <3>1. p \in ToSet(implicit)
        BY <1>1, <1>5, <2>2, SortFacts
      <3> QED BY <3>1 DEF Implied
    <2>3. CASE ~(k <= Len(implicit))
      <3>1. ASSUME NEW d \in ToSet(implicit) PROVE d \in ToSet(sorted)
        <4>1. PICK i \in 1 .. Len(implicit) : i \in DOMAIN Roots /\ Roots[i] = d
          BY <1>1, SortFacts
        <4>2. i \in 1 .. Len(Roots) - Len(todo)
          BY <4>1, <2>1, <2>3, <1>4
        <4> QED BY <4>1, <4>2, <1>3 DEF RootsLeft
      <3> QED BY <3>1
    <2> QED BY <2>2, <2>3
  <1> HIDE DEF p, k
  <1>8. InOrder(sorted)' /\ (\A q : Implied(q)' <=> Implied(q))
    BY <1>1, <1>3, InOrderLasts
  <1>9. Loaded' = Loaded /\ Roots' = Roots
    BY <1>1 DEF Loaded, Roots
  <1>10. CASE p \in visited /\ visiting' = <<>> /\ visited' = visited
    <2>1. W = visited
      BY <1>10
    <2>2. Pkgs(visiting)' = {} /\ StackSound(imports, <<>>, ToSet(sorted))
      BY <1>10 DEF Pkgs, StackSound, Distinct, Chain, LookedAt
    <2> HIDE DEF W
    <2> QED BY <1>1, <1>3, <1>5, <1>8, <1>9, <1>10, <2>1, <2>2 DEF SortInv
  <1>11. CASE /\ p \notin visited /\ visited' = visited \cup {p}
              /\ visiting' = Append(<<>>, Frame(p))
    <2>1. Pkgs(visiting)' = {p}
      <3>1. Pkgs(Append(<<>>, Frame(p))) = Pkgs(<<>>) \cup {p}
        BY <1>2, <1>6, PushedStack
      <3>2. Pkgs(<<>>) = {}
        BY <1>1, <1>2
      <3> QED BY <3>1, <3>2, <1>11 DEF Pkgs
    <2>2. StackSound(imports, Append(<<>>, Frame(p)), ToSet(sorted))
      BY <1>4, <1>6, StackStarts
    <2>3. RootsLeft(Roots', todo', visited')
      BY <1>1, <1>5, <1>9, <1>11
    <2>4. StackSound(imports', visiting', ToSet(sorted'))
      BY <1>1, <1>11, <2>2
    <2> QED BY <1>1, <1>3, <1>6, <1>7, <1>8, <1>9, <1>11, <2>1, <2>3, <2>4 DEF SortInv
  <1> QED BY <1>1, <1>6, <1>10, <1>11, VisitCases

\* The next import of the package visited.
LEMMA VisitImportKeeps ==
  ASSUME LoaderInv, PcInv, WantedInv, SortInv, VisitImport
  PROVE  SortInv'
  <1> DEFINE p == NextImport(visiting)
             stack == Looked(visiting)
             t == visiting[Len(visiting)].pkg
             k == visiting[Len(visiting)].next
             S == ToSet(sorted)
  <1>1. pc = "sort" /\ visiting # <<>> /\ ~Exhausted(visiting) /\ visit(stack, p)
        /\ UNCHANGED <<packages, imports, implicit, sorted, pc, todo>>
    BY DEF VisitImport
  <1>2. /\ visited = S \cup Pkgs(visiting) /\ visited \subseteq Loaded /\ InOrder(sorted)
        /\ Pkgs(visiting) \cap S = {}
        /\ \A q \in Pkgs(visiting) : Implied(q) \/ ToSet(implicit) \subseteq S
        /\ StackSound(imports, visiting, S) /\ RootsLeft(Roots, todo, visited)
    BY <1>1 DEF SortInv
  <1>3. /\ visiting \in Stacks /\ Pkgs(visiting) \subseteq Loaded /\ LoaderTypeOK /\ Sound(imports)
        /\ Loaded \subseteq Paths /\ DOMAIN imports = Loaded
        /\ \A q \in Loaded : ToSet(imports[q]) \subseteq Loaded
    BY <1>1, SortFacts DEF LoaderTypeOK, StacksLoaded
  <1>4. /\ stack \in Stacks /\ Pkgs(stack) = Pkgs(visiting) /\ Len(visiting) \in DOMAIN visiting
        /\ \A i \in DOMAIN visiting : i = Len(visiting) \/ i < Len(visiting)
    BY <1>1, <1>3, LookedStack
  <1>5. /\ t \in Loaded /\ k \in DOMAIN imports[t] /\ p = imports[t][k]
        /\ p \in ToSet(imports[t]) /\ t \in Pkgs(visiting)
    BY <1>1, <1>3, <1>4, NextImportPaths DEF Pkgs
  <1> HIDE DEF p, stack, S, k
  <1>6. p \in Loaded /\ p \in Paths /\ p \in DOMAIN imports
    BY <1>3, <1>5
  <1>7. Reachable(imports, t, p)
    BY <1>3, <1>5, ReachesImports
  <1>8. p \notin Pkgs(visiting)
    <2> SUFFICES ASSUME p \in Pkgs(visiting) PROVE FALSE
      OBVIOUS
    <2>1. PICK i \in DOMAIN visiting : visiting[i].pkg = p
      BY DEF Pkgs
    <2>2. Reachable(imports, p, p)
      <3>1. CASE i = Len(visiting)
        BY <3>1, <2>1, <1>7
      <3>2. CASE i < Len(visiting)
        <4>1. Reachable(imports, p, t)
          BY <3>2, <2>1, <1>2, <1>4 DEF StackSound, Chain
        <4> QED BY <4>1, <1>7, ReachesThrough
      <3> QED BY <2>1, <3>1, <3>2, <1>4
    <2> QED BY <1>1, <2>2, SortFacts DEF Reaches
  <1>9. Implied(p) \/ ToSet(implicit) \subseteq S
    <2>1. CASE Implied(t)
      <3>1. PICK e \in ToSet(implicit) : t = e \/ Reaches(e, t)
        BY <2>1 DEF Implied
      <3>2. Reachable(imports, e, p)
        BY <3>1, <1>7, ReachesThrough DEF Reaches
      <3> QED BY <3>2 DEF Implied, Reaches
    <2> QED BY <2>1, <1>2, <1>5
  <1>10. InOrder(sorted)' /\ (\A q : Implied(q)' <=> Implied(q))
    BY <1>1, <1>2, InOrderLasts
  <1>11. Loaded' = Loaded /\ Roots' = Roots /\ S' = S
    BY <1>1 DEF Loaded, Roots, S
  <1>12. CASE p \in visited /\ visiting' = stack /\ visited' = visited
    <2>1. p \in S
      BY <1>2, <1>8, <1>12
    <2>2. StackSound(imports, stack, S)
      BY <1>1, <1>2, <1>3, <1>5, <2>1, StackAdvances DEF stack, k
    <2>3. Pkgs(visiting)' = Pkgs(visiting)
      BY <1>4, <1>12 DEF Pkgs
    <2>4. StackSound(imports', visiting', S')
      BY <1>1, <1>11, <1>12, <2>2
    <2>5. RootsLeft(Roots', todo', visited')
      BY <1>1, <1>2, <1>11, <1>12
    <2> QED BY <1>2, <1>1, <1>10, <1>11, <1>12, <2>3, <2>4, <2>5 DEF SortInv, S
  <1>13. CASE /\ p \notin visited /\ visited' = visited \cup {p}
              /\ visiting' = Append(stack, Frame(p))
    <2>1. StackSound(imports, Append(stack, Frame(p)), S)
      BY <1>1, <1>2, <1>3, <1>5, <1>6, <1>8, StackPushes DEF stack, k
    <2>2. Pkgs(visiting)' = Pkgs(visiting) \cup {p}
      <3>1. Pkgs(Append(stack, Frame(p))) = Pkgs(stack) \cup {p}
        BY <1>4, <1>6, PushedStack
      <3> QED BY <3>1, <1>4, <1>13 DEF Pkgs
    <2>3. StackSound(imports', visiting', S')
      BY <1>1, <1>11, <1>13, <2>1
    <2>4. RootsLeft(Roots', todo', visited')
      BY <1>1, <1>2, <1>11, <1>13 DEF RootsLeft
    <2>5. p \notin S
      BY <1>2, <1>13
    <2> QED BY <1>1, <1>2, <1>6, <1>9, <1>10, <1>11, <1>13, <2>2, <2>3, <2>4, <2>5 DEF SortInv, S
  <1> QED BY <1>1, <1>6, <1>12, <1>13, VisitCases

\* A package is sorted after all its imports.
LEMMA VisitEndKeeps ==
  ASSUME LoaderInv, PcInv, WantedInv, SortInv, VisitEnd
  PROVE  SortInv'
  <1> DEFINE p == Last(visiting).pkg
             s == Append(sorted, p)
             S == ToSet(sorted)
             T == ToSet(s)
  <1>1. pc = "sort" /\ visiting # <<>> /\ sorted' = s /\ visiting' = Front(visiting)
        /\ Last(visiting).next > Len(imports[p])
        /\ UNCHANGED <<packages, imports, implicit, visited, pc, todo>>
    BY DEF VisitEnd, Exhausted
  <1>2. /\ visited = S \cup Pkgs(visiting) /\ visited \subseteq Loaded /\ InOrder(sorted)
        /\ Pkgs(visiting) \cap S = {}
        /\ \A q \in Pkgs(visiting) : Implied(q) \/ ToSet(implicit) \subseteq S
        /\ StackSound(imports, visiting, S) /\ RootsLeft(Roots, todo, visited)
    BY <1>1 DEF SortInv
  <1>3. /\ visiting \in Stacks /\ Pkgs(visiting) \subseteq Loaded /\ Sound(imports)
        /\ Loaded \subseteq Paths /\ DOMAIN imports = Loaded /\ sorted \in Seq(Paths)
    BY <1>1, SortFacts DEF LoaderTypeOK, StacksLoaded
  <1>4. p \in Pkgs(visiting)
    BY <1>1, <1>2, <1>3, StackPops, S \cup {p} \subseteq S \cup {p}
  <1>5. p \in Paths /\ p \in Loaded /\ p \notin S
    BY <1>2, <1>3, <1>4
  <1>6. T = S \cup {p}
    BY <1>3, <1>5, Appended
  <1> HIDE DEF s, S, T
  <1>7. S \cup {p} \subseteq T
    BY <1>6
  <1>8. /\ StackSound(imports, Front(visiting), T)
        /\ Pkgs(Front(visiting)) = Pkgs(visiting) \ {p}
        /\ ToSet(imports[p]) \subseteq S
    BY <1>1, <1>2, <1>3, <1>7, StackPops
  <1>9. InOrder(s)
    BY <1>2, <1>3, <1>4, <1>5, <1>8, InOrderAppend DEF s, S
  <1> HIDE DEF p
  <1>10. InOrder(sorted)' /\ (\A q : Implied(q)' <=> Implied(q))
    BY <1>1, <1>9, InOrderLasts
  <1>11. Loaded' = Loaded /\ Roots' = Roots /\ ToSet(sorted') = T
    BY <1>1 DEF Loaded, Roots, T
  <1>12. Pkgs(visiting)' = Pkgs(visiting) \ {p}
    <2>1. Pkgs(visiting)' = Pkgs(Front(visiting))
      BY <1>1 DEF Pkgs
    <2> QED BY <2>1, <1>8
  <1>13. visited' = T \cup Pkgs(visiting)'
    BY <1>1, <1>2, <1>4, <1>6, <1>12
  <1>14. StackSound(imports', visiting', ToSet(sorted'))
    BY <1>1, <1>8, <1>11
  <1>15. RootsLeft(Roots', todo', visited')
    BY <1>1, <1>2, <1>11
  <1>16. Pkgs(visiting)' \cap T = {}
    BY <1>2, <1>6, <1>12
  <1>17. \A q \in Pkgs(visiting)' : Implied(q)' \/ ToSet(implicit') \subseteq T
    BY <1>1, <1>2, <1>6, <1>10, <1>12
  <1> QED BY <1>1, <1>2, <1>10, <1>11, <1>13, <1>14, <1>15, <1>16, <1>17 DEF SortInv

\* Nothing is visited at the start.
LEMMA SortBegins ==
  ASSUME LoaderInv, PcInv, Loads
  PROVE  SortInv'
  <1> SUFFICES ASSUME pc' = "sort" PROVE SortInv'
    BY DEF SortInv
  <1>1. /\ visited' = {} /\ sorted' = <<>> /\ visiting' = <<>> /\ todo' = Roots
        /\ UNCHANGED <<packages, imports, implicit>>
    BY DEF Loads, PcInv, Roots
  <1>2. Pkgs(visiting)' = {} /\ ToSet(sorted') = {} /\ Roots' = Roots
    BY <1>1 DEF Pkgs, ToSet, Roots
  <1>3. InOrder(sorted)' /\ StackSound(imports', visiting', ToSet(sorted'))
    BY <1>1 DEF InOrder, IsInjective, StackSound, Distinct, Chain, LookedAt
  <1>4. RootsLeft(Roots, Roots, {})
    <2>1. Roots \in Seq(Paths)
      BY DEF Roots, LoaderInv, LoaderTypeOK
    <2>2. Len(Roots) \in Nat
      BY <2>1
    <2>3. \A i \in 1 .. Len(Roots) : Len(Roots) - Len(Roots) + i = i
      BY <2>2
    <2>4. 1 .. Len(Roots) - Len(Roots) = {}
      BY <2>2
    <2> QED BY <2>2, <2>3, <2>4 DEF RootsLeft
  <1>5. RootsLeft(Roots', todo', visited')
    BY <1>1, <1>2, <1>4
  <1> QED BY <1>1, <1>2, <1>3, <1>5 DEF SortInv

\* Every step keeps what is sorted in order.
LEMMA SortKeeps ==
  ASSUME LoaderInv, PcInv, WantedInv, SortInv, LoaderMoves
  PROVE  SortInv'
  <1>1. CASE Loads
    BY <1>1, SortBegins
  <1>2. CASE VisitRoot
    BY <1>2, VisitRootKeeps
  <1>3. CASE VisitImport
    BY <1>3, VisitImportKeeps
  <1>4. CASE VisitEnd
    BY <1>4, VisitEndKeeps
  <1>5. CASE pc' # "sort"
    BY <1>5 DEF SortInv
  <1>6. CASE UNCHANGED loaderVars
    BY <1>6 DEF loaderVars, sorting, SortInv, InOrder, Implied, Reaches, Pkgs, Loaded, Roots
  <1>7. Loads \/ VisitRoot \/ VisitImport \/ VisitEnd \/ pc' # "sort" \/ UNCHANGED loaderVars
    BY DEF LoaderMoves, LoadImports, LoadImplicitDep, Load, Sort, LoadNext, LoadDependency,
           popLoading, Sorted, EditFiles
  <1> QED BY <1>1, <1>2, <1>3, <1>4, <1>5, <1>6, <1>7

\* When everything is sorted the order is sound.
LEMMA SortedOrder ==
  ASSUME LoaderInv, PcInv, WantedInv, SortInv, Sorted
  PROVE  OrderInv'
  <1>1. /\ pc = "sort" /\ visiting = <<>> /\ todo = <<>> /\ order' = sorted
        /\ UNCHANGED <<packages, imports, implicit>>
    BY DEF Sorted
  <1>2. visited = ToSet(sorted) /\ visited \subseteq Loaded /\ InOrder(sorted) /\ RootsLeft(Roots, todo, visited)
    BY <1>1 DEF SortInv, Pkgs
  <1>3. ASSUME NEW p \in Loaded PROVE p \in ToSet(sorted)
    <2>1. PICK i \in DOMAIN Roots : Roots[i] = p
      BY <1>1, SortFacts
    <2>2. i \in 1 .. Len(Roots) - Len(todo)
      <3>1. Roots \in Seq(Paths) /\ Len(todo) = 0
        BY <1>1, SortFacts
      <3> QED BY <3>1, <2>1
    <2> QED BY <2>1, <2>2, <1>2 DEF RootsLeft
  <1>4. ToSet(order') = Loaded' /\ Loaded' = Loaded
    BY <1>1, <1>2, <1>3 DEF Loaded
  <1>5. InOrder(order)'
    BY <1>1, <1>2, InOrderLasts
  <1> QED BY <1>4, <1>5 DEF OrderInv

\* The order lasts until a call computes the next.
LEMMA OrderKeeps ==
  ASSUME LoaderInv, PcInv, WantedInv, SortInv, OrderInv, LoaderMoves
  PROVE  OrderInv'
  <1>0. Loaded \subseteq Loaded'
    BY LoaderTypesStep DEF LoaderInv
  <1>1. CASE Sorted
    BY <1>1, SortedOrder
  <1>2. CASE pc' # "idle" /\ order' = order
    BY <1>0, <1>2 DEF OrderInv
  <1>3. CASE /\ pc = "idle" /\ UNCHANGED <<packages, imports, implicit, order, errors>>
    BY <1>3 DEF OrderInv, InOrder, Implied, Reaches, Loaded
  <1>4. CASE Loads
    <2>1. CASE errors = <<>>
      <3>1. CASE packages # <<>>
        BY <1>4, <2>1, <3>1, <1>2 DEF Loads
      <3>2. CASE packages = <<>>
        <4>1. Loaded = {} /\ Loaded' = {}
          BY <1>4, <3>2 DEF Loaded, ToSet, Loads
        <4>2. order' = order /\ ToSet(order) = {} /\ DOMAIN order = {}
          BY <1>4, <4>1 DEF Loads, OrderInv, ToSet
        <4>3. InOrder(order)'
          BY <4>2 DEF InOrder, IsInjective
        <4> QED BY <4>1, <4>2, <4>3 DEF OrderInv
      <3> QED BY <3>1, <3>2
    <2>2. CASE errors # <<>>
      BY <1>0, <1>4, <2>2 DEF Loads, OrderInv
    <2> QED BY <2>1, <2>2
  <1>5. CASE pc # "idle" /\ UNCHANGED loaderVars
    BY <1>5 DEF OrderInv, loaderVars, Loaded
  <1>6. \/ Sorted \/ Loads \/ (pc' # "idle" /\ order' = order)
        \/ pc = "idle" /\ UNCHANGED <<packages, imports, implicit, order, errors>>
        \/ pc # "idle" /\ UNCHANGED loaderVars
    BY DEF LoaderMoves, LoadImports, LoadImplicitDep, Load, Sort, LoadNext, LoadDependency,
           popLoading, VisitRoot, VisitImport, VisitEnd, EditFiles, loaderVars
  <1> QED BY <1>1, <1>2, <1>3, <1>4, <1>5, <1>6

\* What LoadOrderSound says.
LEMMA OrderIsSound ==
  ASSUME LoaderInv, OrderInv, WantedInv
  PROVE  LoadOrderSound
  <1> SUFFICES ASSUME pc = "idle", errors = <<>>
               PROVE  /\ ToSet(order) = Loaded /\ IsInjective(order) /\ IsInjective(packages)
                      /\ \A p \in Loaded : \A q \in ToSet(imports[p]) : Before(order, q, p)
                      /\ \A d \in ToSet(implicit) : \A p \in Loaded :
                           \/ Before(order, d, p)
                           \/ \E e \in ToSet(implicit) : p = e \/ Reaches(e, p)
    BY DEF LoadOrderSound
  <1>1. ToSet(order) = Loaded /\ InOrder(order) /\ IsInjective(packages)
    BY DEF OrderInv, LoaderInv, LoadingInv
  <1>2. \A p \in Loaded : \E i \in DOMAIN order : order[i] = p
    BY <1>1 DEF ToSet
  <1>3. \A p \in Loaded : \A q \in ToSet(imports[p]) : Before(order, q, p)
    BY <1>1, <1>2 DEF InOrder, Before
  <1>4. \A d \in ToSet(implicit) : \A p \in Loaded : Before(order, d, p) \/ Implied(p)
    BY <1>1, <1>2 DEF InOrder, Before
  <1> QED BY <1>1, <1>3, <1>4 DEF InOrder, Implied

(***************************************************************************)
(* The session.                                                            *)
(***************************************************************************)

\* Injected packages never come to import others.
LEMMA InjectedKeeps ==
  ASSUME LoaderTypeOK, StacksLoaded, InjectedInv, LoaderMoves
  PROVE  InjectedInv'
  <1>1. ASSUME NEW stack \in Stacks, NEW p \in Paths, LooksAt(stack, p), disk' = disk PROVE InjectedInv'
    <2>1. CASE Known(stack, p) \/ Erred(stack, p)
      BY <2>1, <1>1 DEF Known, Erred, InjectedInv, Loaded
    <2>2. CASE Pushed(stack, p) /\ p \notin Loaded
      <3>1. /\ Loaded' = Loaded \cup {p} /\ imports'[p] = disk[p] /\ disk[p] # Fail
            /\ \A q \in Loaded : q # p => imports'[q] = imports[q]
        BY <2>2, PushedLoads DEF Pushed
      <3> QED BY <3>1, <2>2, <1>1 DEF InjectedInv
    <2> QED BY <1>1, <2>1, <2>2 DEF LooksAt
  <1>2. CASE LoadNext
    <2>1. LooksAt(<<>>, Head(todo)) /\ disk' = disk /\ todo # <<>>
      BY <1>2, LoadNextLooks DEF LoadNextRest
    <2>2. <<>> \in Stacks /\ Head(todo) \in Paths
      BY <2>1, TakenApart DEF Stacks, LoaderTypeOK
    <2> QED BY <1>1, <2>1, <2>2
  <1>3. CASE LoadDependency
    <2>1. LooksAt(Looked(loading), NextImport(loading)) /\ disk' = disk /\ loading # <<>> /\ ~Exhausted(loading)
          /\ loading \in Stacks
      BY <1>3, LoadDependencyLooks DEF LoadDependencyRest, LoaderTypeOK
    <2>2. Looked(loading) \in Stacks /\ NextImport(loading) \in Paths
      BY <2>1, LookedStack, NextImportPaths DEF StacksLoaded
    <2> QED BY <1>1, <2>1, <2>2
  <1>4. CASE \E p \in Paths \ Injected : \E c \in Contents : EditFiles(p, c)
    <2>1. PICK p \in Paths \ Injected : \E c \in Contents : EditFiles(p, c)
      BY <1>4
    <2>2. PICK c \in Contents : EditFiles(p, c)
      BY <2>1
    <2>3. \A q \in Injected : disk'[q] = disk[q]
      BY <2>1, <2>2, SessionAssumption DEF EditFiles, LoaderTypeOK
    <2>4. Loaded' = Loaded /\ imports' = imports
      BY <2>2 DEF EditFiles, Loaded
    <2> QED BY <2>3, <2>4 DEF InjectedInv
  <1>5. CASE UNCHANGED <<disk, packages, imports>>
    BY <1>5 DEF InjectedInv, Loaded
  <1>6. \/ LoadNext \/ LoadDependency \/ UNCHANGED <<disk, packages, imports>>
        \/ \E p \in Paths \ Injected : \E c \in Contents : EditFiles(p, c)
    BY DEF LoaderMoves, LoadImports, LoadImplicitDep, Load, Sort, Loads, VisitRoot, VisitImport,
           VisitEnd, Sorted, popLoading, loaderVars
  <1> QED BY <1>2, <1>3, <1>4, <1>5, <1>6

\* A set of positions has a last one.
LEMMA LastPosition ==
  ASSUME NEW n \in Nat, NEW I \in SUBSET (1 .. n), I # {}
  PROVE  \E i \in I : \A j \in I : j <= i
  <1> DEFINE T == {n - i : i \in I}
  <1>1. PICK i0 \in I : TRUE
    OBVIOUS
  <1>2. T \in SUBSET Nat /\ n - i0 \in T
    OBVIOUS
  <1>3. PICK m \in T : \A k \in T : m <= k
    <2> HIDE DEF T
    <2> QED BY <1>2, LeastNatural
  <1>4. PICK i \in I : m = n - i
    OBVIOUS
  <1>5. \A j \in I : n - i <= n - j
    BY <1>3, <1>4
  <1> QED BY <1>5

\* The paths a name may be bound anew to.
Candidates(S, a) == {i \in DOMAIN asked : asked[i] \in S /\ AliasOf[asked[i]] = a}

\* A name with candidates is bound to one of them, another keeps its binding.
LEMMA Rebinds ==
  ASSUME asked \in Seq(Paths), NEW name, NEW S, NEW a \in Names
  PROVE  /\ Candidates(S, a) = {} => Rebound(name, S)[a] = name[a]
         /\ Candidates(S, a) # {} =>
              \E j \in DOMAIN asked : /\ asked[j] \in S /\ AliasOf[asked[j]] = a
                                      /\ Rebound(name, S)[a] = asked[j]
  <1> DEFINE I == Candidates(S, a)
             i0 == CHOOSE i \in I : \A j \in I : j <= i
  <1>1. Rebound(name, S)[a] = IF I = {} THEN name[a] ELSE asked[i0]
    BY DEF Rebound, Candidates
  <1>2. ASSUME I # {} PROVE i0 \in I
    <2>1. I \in SUBSET (1 .. Len(asked)) /\ Len(asked) \in Nat
      BY DEF Candidates
    <2> HIDE DEF I
    <2>2. \E i \in I : \A j \in I : j <= i
      BY <1>2, <2>1, LastPosition
    <2> QED BY <2>2
  <1> HIDE DEF i0
  <1>3. CASE I = {}
    BY <1>1, <1>3
  <1>4. CASE I # {}
    BY <1>1, <1>2, <1>4 DEF Candidates
  <1> QED BY <1>3, <1>4

\* A name is bound to what it was, or to one of S.
LEMMA ReboundWithin ==
  ASSUME asked \in Seq(Paths), NEW name, NEW S, NEW a \in Names
  PROVE  Rebound(name, S)[a] = name[a] \/ Rebound(name, S)[a] \in S
  BY Rebinds

\* Bound anew, the names have the type they had.
LEMMA ReboundTypes ==
  ASSUME asked \in Seq(Paths), NEW name \in [Names -> Paths \cup {NoPath}], NEW S
  PROVE  Rebound(name, S) \in [Names -> Paths \cup {NoPath}]
  <1>1. ASSUME NEW a \in Names PROVE Rebound(name, S)[a] \in Paths \cup {NoPath}
    BY Rebinds
  <1>2. Rebound(name, S) = [a \in Names |-> Rebound(name, S)[a]]
    BY DEF Rebound
  <1> QED BY <1>1, <1>2

\* The name of a path asked for is bound to a path asked for under that name.
LEMMA ReboundFinds ==
  ASSUME asked \in Seq(Paths), NEW name, NEW S, NEW i \in DOMAIN asked, asked[i] \in S
  PROVE  \E j \in DOMAIN asked : AliasOf[asked[j]] = AliasOf[asked[i]]
                                 /\ Rebound(name, S)[AliasOf[asked[i]]] = asked[j]
  <1> DEFINE a == AliasOf[asked[i]]
  <1>1. a \in Names
    BY DEF Names
  <1>2. i \in Candidates(S, a)
    BY DEF Candidates
  <1> HIDE DEF a
  <1>3. \E j \in DOMAIN asked : AliasOf[asked[j]] = a /\ Rebound(name, S)[a] = asked[j]
    BY <1>1, <1>2, Rebinds
  <1> QED BY <1>3 DEF a

\* The loader runs only at startup and in the first phase of a turn.
LEMMA PhaseKeeps ==
  ASSUME PhaseInv, [Next]_vars
  PROVE  PhaseInv'
  BY DEF PhaseInv, Next, vars, Process, User, StartLoad, StartInit, StartPackage, StartRefused,
         StartSession, Imported, CheckPackage, Checked, LowerPackage, Lowered, InitPackage,
         Initialized, Bind, Import, Load, Sort, LoadNext, LoadDependency, popLoading, Loads,
         VisitRoot, VisitImport, VisitEnd, Sorted, EditFiles, LoadImports, Phase, loaderVars

\* The session's types hold after every step.
LEMMA SessionTypesStep ==
  ASSUME LoaderTypeOK, SessionTypeOK, CleanInv, StartInv, [Next]_vars
  PROVE  SessionTypeOK'
  <1> USE DEF SessionTypeOK, turn, session, Phase
  <1>1. CASE StartLoad
    BY <1>1, SessionAssumption DEF StartLoad
  <1>2. CASE StartInit \/ StartRefused
    BY <1>2 DEF StartInit, StartRefused
  <1>3. CASE StartPackage
    <2>1. at \in DOMAIN order /\ order[at] \in Paths
      BY <1>3 DEF StartPackage, StartInv, Starting, LoaderTypeOK
    <2>2. ran' \in Seq(Paths)
      BY <1>3, <2>1, Appended DEF StartPackage
    <2> QED BY <1>3, <2>2 DEF StartPackage
  <1>4. CASE StartSession
    <2>1. chkName' \in [Names -> Paths \cup {NoPath}] /\ irName' \in [Names -> Paths \cup {NoPath}]
      BY <1>4, ReboundTypes DEF StartSession
    <2>2. ToSet(order) \subseteq Paths
      BY DEF ToSet, LoaderTypeOK
    <2> QED BY <1>4, <2>1, <2>2 DEF StartSession
  <1>5. CASE Imported
    <2>1. <<>> \in Seq(Paths)
      OBVIOUS
    <2> QED BY <1>5, <2>1 DEF Imported
  <1>6. CASE CheckPackage
    <2>1. order[at] \in Paths
      BY <1>6 DEF CheckPackage, CleanInv, LoaderTypeOK
    <2>2. clean' \in Seq(Paths)
      BY <1>6, <2>1, Appended DEF CheckPackage
    <2>3. processed' \subseteq Paths /\ failed' \subseteq Paths /\ culprits' \subseteq Paths
      BY <1>6, <2>1 DEF CheckPackage, Fails, Blame
    <2> QED BY <1>6, <2>2, <2>3 DEF CheckPackage
  <1>7. CASE Checked \/ Lowered \/ Initialized
    BY <1>7 DEF Checked, Lowered, Initialized
  <1>8. CASE LowerPackage
    <2>1. clean[at] \in Paths
      BY <1>8 DEF LowerPackage, CleanInv
    <2>2. failed' \subseteq Paths /\ culprits' \subseteq Paths
      BY <1>8, <2>1 DEF LowerPackage, Fails, Blame
    <2> QED BY <1>8, <2>2 DEF LowerPackage
  <1>9. CASE InitPackage
    <2>1. clean[at] \in Paths
      BY <1>9 DEF InitPackage, CleanInv
    <2>a. ran' = ran \/ ran' = Append(ran, clean[at])
      BY <1>9 DEF InitPackage
    <2>b. ran \in Seq(Paths)
      OBVIOUS
    <2>c. Append(ran, clean[at]) \in Seq(Paths)
      BY <2>1, <2>b
    <2>2. ran' \in Seq(Paths)
      BY <2>a, <2>b, <2>c
    <2>3. failed' \subseteq Paths /\ culprits' \subseteq Paths /\ interrupted' \in BOOLEAN
      BY <1>9, <2>1 DEF InitPackage, Fails, Blame
    <2> QED BY <1>9, <2>2, <2>3 DEF InitPackage
  <1>10. CASE Bind
    <2>1. chkName' \in [Names -> Paths \cup {NoPath}] /\ irName' \in [Names -> Paths \cup {NoPath}]
      BY <1>10, ReboundTypes DEF Bind, RegisterAliases
    <2> QED BY <1>10, <2>1 DEF Bind
  <1>11. CASE \E s \in Specs : Import(s)
    <2>1. PICK s \in Specs : Import(s)
      BY <1>11
    <2>2. s \in Seq(Paths) /\ Len(errors) \in Nat
      BY SessionAssumption DEF LoaderTypeOK
    <2>3. /\ phase' = "load" /\ at' = 1 /\ turns' = turns + 1 /\ asked' = s
          /\ errsBefore' = Len(errors) /\ interrupted' = FALSE
          /\ UNCHANGED <<started, clean, processed, failed, chkName, irName, ran, culprits>>
      BY <2>1 DEF Import
    <2>4. /\ phase' \in {"startup", "start", "prompt", "load", "check", "lower", "init", "bind", "refused"}
          /\ turns' \in Nat /\ errsBefore' \in Nat /\ at' \in Nat
      BY <2>2, <2>3
    <2>a. interrupted' \in BOOLEAN
      BY <2>3, Zenon
    <2>5. asked' \in Seq(Paths) /\ clean' \in Seq(Paths) /\ ran' \in Seq(Paths)
      BY <2>2, <2>3
    <2> QED BY <2>3, <2>4, <2>a, <2>5
  <1>12. CASE UNCHANGED <<phase, turn, at, clean, interrupted, session>>
    BY <1>12
  <1> QED BY <1>1, <1>2, <1>3, <1>4, <1>5, <1>6, <1>7, <1>8, <1>9, <1>10, <1>11, <1>12
      DEF Next, Process, User, vars

\* The invariants of the session together.
SessionInv ==
  /\ StartInv /\ ProcessedInv /\ SettledInv /\ CleanInv /\ GoodInv /\ BoundInv /\ AgreeInv /\ AskedInv
  /\ InitAfterImports /\ FailedForCause

\* What the steps of the session know of the loader.
LoaderKnown ==
  /\ LoaderInv /\ PcInv /\ PhaseInv /\ WantedInv /\ OrderInv /\ InjectedInv /\ SessionTypeOK

\* Between two calls the order holds packages loaded, all of them without an error.
LEMMA IdleFacts ==
  ASSUME LoaderKnown, pc = "idle"
  PROVE  /\ order \in Seq(Paths) /\ ToSet(order) \subseteq Loaded /\ Loaded \subseteq Paths
         /\ DOMAIN imports = Loaded /\ DOMAIN order = 1 .. Len(order) /\ Len(order) \in Nat
         /\ errors = <<>> =>
              /\ ToSet(order) = Loaded /\ InOrder(order) /\ ToSet(asked) \subseteq Loaded
              /\ \A p \in Loaded : ToSet(imports[p]) \subseteq Loaded
  <1>1. order \in Seq(Paths) /\ DOMAIN imports = Loaded /\ packages \in Seq(Paths)
    BY DEF LoaderKnown, LoaderInv, LoaderTypeOK
  <1>2. ToSet(order) \subseteq Loaded /\ Loaded \subseteq Paths
    BY <1>1 DEF LoaderKnown, OrderInv, Loaded, ToSet
  <1>3. loading = <<>>
    BY DEF LoaderKnown, PcInv
  <1>4. ASSUME errors = <<>>
        PROVE  /\ ToSet(order) = Loaded /\ InOrder(order) /\ ToSet(asked) \subseteq Loaded
               /\ \A p \in Loaded : ToSet(imports[p]) \subseteq Loaded
    BY <1>3, <1>4, AllLoaded DEF LoaderKnown, OrderInv, WantedInv
  <1> QED BY <1>1, <1>2, <1>4

\* A package is initialized after what it imports.
LEMMA RanAppend ==
  ASSUME ran \in Seq(Paths), InitAfterImports, NEW p \in Paths, p \notin ToSet(ran),
         ToSet(imports[p]) \ Injected \subseteq ToSet(ran), ran' = Append(ran, p), imports' = imports
  PROVE  InitAfterImports' /\ ToSet(ran') = ToSet(ran) \cup {p}
  <1> DEFINE t == ran'
             n == Len(ran)
  <1>1. /\ DOMAIN ran = 1 .. n /\ DOMAIN t = 1 .. n + 1 /\ n \in Nat /\ t[n + 1] = p
        /\ \A i \in 1 .. n : t[i] = ran[i]
        /\ ToSet(t) = ToSet(ran) \cup {p}
    BY Appended
  <1>2. IsInjective(t)
    BY AppendedDistinct DEF InitAfterImports
  <1> HIDE DEF t, n
  <1>3. \A i \in 1 .. n : i \in 1 .. n + 1 /\ i < n + 1
    BY <1>1
  <1>4. ASSUME NEW r \in ToSet(ran) \cup {p}, NEW q \in ToSet(imports[r]) \ Injected
        PROVE  Before(t, q, r)
    <2>1. CASE r = p
      <3>1. PICK i \in 1 .. n : ran[i] = q
        BY <2>1, <1>1 DEF ToSet
      <3>2. n + 1 \in 1 .. n + 1
        BY <1>1
      <3> QED BY <2>1, <3>1, <3>2, <1>1, <1>3 DEF Before
    <2>2. CASE r \in ToSet(ran)
      <3>1. Before(ran, q, r)
        BY <2>2 DEF InitAfterImports
      <3>2. PICK i \in 1 .. n : \E j \in 1 .. n : i < j /\ ran[i] = q /\ ran[j] = r
        BY <3>1, <1>1 DEF Before
      <3> QED BY <3>2, <1>1, <1>3 DEF Before
    <2> QED BY <2>1, <2>2
  <1>5. \A r \in ToSet(t) : \A q \in ToSet(imports[r]) \ Injected : Before(t, q, r)
    BY <1>1, <1>4
  <1> QED BY <1>1, <1>2, <1>5 DEF InitAfterImports, t

\* A failure has a cause while the packages last.
LEMMA CausesLast ==
  ASSUME FailedForCause, Grows(imports, imports'), failed' = failed, culprits \subseteq culprits'
  PROVE  FailedForCause'
  <1>1. \A p, q : Reaches(p, q) => Reaches(p, q)'
    BY ReachesStill DEF Reaches
  <1> QED BY <1>1 DEF FailedForCause

\* A package fails by itself, or because one it imports failed.
LEMMA CauseFound ==
  ASSUME FailedForCause, imports' = imports, NEW p \in DOMAIN imports, failed' = failed \cup {p},
         \/ culprits' = culprits \cup {p}
         \/ importsFailedPkg(p) /\ culprits' = culprits
  PROVE  FailedForCause'
  <1>1. \A q, r : Reaches(q, r)' <=> Reaches(q, r)
    BY DEF Reaches
  <1>2. \E c \in culprits' : p = c \/ Reaches(p, c)
    <2>1. CASE culprits' = culprits \cup {p}
      BY <2>1
    <2>2. CASE importsFailedPkg(p) /\ culprits' = culprits
      <3>1. PICK q \in ToSet(imports[p]) : q \in failed
        BY <2>2 DEF importsFailedPkg
      <3>2. Reachable(imports, p, q)
        BY ReachesImports
      <3>3. PICK c \in culprits : q = c \/ Reaches(q, c)
        BY <3>1 DEF FailedForCause
      <3>4. Reaches(p, c)
        BY <3>2, <3>3, ReachesThrough DEF Reaches
      <3> QED BY <3>4, <2>2
    <2> QED BY <2>1, <2>2
  <1>3. \A q \in failed : \E c \in culprits' : q = c \/ Reaches(q, c)
    BY DEF FailedForCause
  <1> QED BY <1>1, <1>2, <1>3 DEF FailedForCause

\* A step of the loader, in the prompt's loading or at startup.
LoaderSteps ==
  \/ StartLoad
  \/ (Load \/ Sort) /\ UNCHANGED <<phase, turn, at, clean, interrupted, session>>
  \/ \E s \in Specs : Import(s)
  \/ /\ phase = "prompt" /\ \E p \in Paths \ Injected : \E c \in Contents : EditFiles(p, c)
     /\ UNCHANGED <<phase, turn, at, clean, interrupted, session>>

\* The loader's steps leave the session's invariants alone: what is loaded stays loaded
\* with the imports it has.
LEMMA LoaderStepsKeep ==
  ASSUME LoaderKnown, SessionInv, [Next]_vars, LoaderSteps
  PROVE  SessionInv'
  <1>0. LoaderMoves
    BY NextMoves DEF LoaderKnown
  <1>1. /\ LoaderTypeOK /\ StacksLoaded /\ Grows(imports, imports') /\ Loaded \subseteq Loaded'
        /\ errors' = <<>> => errors = <<>>
    BY <1>0, LoaderTypesStep, ErrorsStay DEF LoaderKnown, LoaderInv
  <1>2. /\ phase \in {"startup", "load", "prompt"}
        /\ phase' = phase \/ (phase = "prompt" /\ phase' = "load")
        /\ UNCHANGED <<clean, processed, failed, chkName, irName, ran, culprits>>
    BY DEF LoaderSteps, StartLoad, Import, Load, Sort, LoadNext, LoadDependency, popLoading, Loads,
           VisitRoot, VisitImport, VisitEnd, Sorted, LoaderKnown, PhaseInv, session, Phase
  <1>3. DOMAIN imports = Loaded
    BY <1>1 DEF LoaderTypeOK
  <1>4. StartInv'
    BY <1>2 DEF SessionInv, StartInv, Starting
  <1>5. ProcessedInv'
    <2> SUFFICES ASSUME phase \in {"load", "prompt"}
                 PROVE  \/ ToSet(order') \subseteq processed
                        \/ phase' = "load" /\ pc' = "idle" /\ errors' = <<>>
      BY <1>2 DEF ProcessedInv, InSession
    <2>1. \/ ToSet(order) \subseteq processed
          \/ phase = "load" /\ pc = "idle" /\ errors = <<>>
      BY DEF SessionInv, ProcessedInv, InSession
    <2>2. phase = "prompt" => pc = "idle"
      BY DEF LoaderKnown, PhaseInv
    <2>3. CASE Sorted
      <3>1. pc = "sort" /\ pc' = "idle" /\ errors' = errors
        BY <2>3 DEF Sorted
      <3>2. errors = <<>> /\ phase = "load"
        BY <2>2, <3>1 DEF LoaderKnown, PcInv
      <3> QED BY <3>1, <3>2, <1>2
    <2>4. CASE ~Sorted
      <3>1. order' = order /\ (phase = "load" => pc # "idle")
        BY <2>4 DEF LoaderSteps, StartLoad, Import, Load, Sort, LoadNext, LoadDependency, popLoading,
             Loads, VisitRoot, VisitImport, VisitEnd, LoadImports, EditFiles
      <3> QED BY <2>1, <3>1
    <2> QED BY <2>3, <2>4
  <1>6. SettledInv'
    <2>1. Pending' = {} /\ Pending = {} /\ (InSession' => InSession)
      BY <1>2 DEF Pending, InSession
    <2> QED BY <1>1, <1>2, <2>1 DEF SessionInv, SettledInv
  <1>7. CleanInv'
    BY <1>2 DEF CleanInv
  <1>8. GoodInv'
    <2>1. Good' = Good /\ (InSession' => InSession)
      BY <1>2 DEF Good, InSession
    <2>2. ASSUME InSession, NEW p \in Good PROVE imports'[p] = imports[p]
      <3>1. p \in Loaded
        BY <2>2 DEF Good, SessionInv, SettledInv
      <3> QED BY <3>1, <1>1, <1>3 DEF Grows
    <2> QED BY <2>1, <2>2 DEF SessionInv, GoodInv
  <1>9. BoundInv'
    <2>1. Good' = Good /\ (InSession' => InSession)
      BY <1>2 DEF Good, InSession
    <2> QED BY <1>2, <2>1 DEF SessionInv, BoundInv
  <1>10. AgreeInv'
    BY <1>1, <1>2 DEF SessionInv, AgreeInv
  <1>11. AskedInv'
    <2>1. phase' = "prompt" => phase = "prompt" /\ asked' = asked
      BY <1>2 DEF LoaderSteps, StartLoad, Import, turn, Phase
    <2> QED BY <1>1, <1>2, <2>1 DEF SessionInv, AskedInv
  <1>12. InitAfterImports'
    <2>1. \A p \in ToSet(ran) : imports'[p] = imports[p]
      <3>1. CASE phase = "startup"
        BY <3>1 DEF SessionInv, StartInv, Starting, ToSet
      <3>2. CASE phase # "startup"
        <4>1. ToSet(ran) \subseteq Loaded
          BY <3>2, <1>2 DEF SessionInv, SettledInv, InSession
        <4> QED BY <4>1, <1>1, <1>3 DEF Grows
      <3> QED BY <3>1, <3>2
    <2> QED BY <1>2, <2>1 DEF SessionInv, InitAfterImports
  <1>13. FailedForCause'
    BY <1>1, <1>2, CausesLast DEF SessionInv
  <1> QED BY <1>4, <1>5, <1>6, <1>7, <1>8, <1>9, <1>10, <1>11, <1>12, <1>13 DEF SessionInv

\* Nothing initialized, nothing failed.
LEMMA HistoryStays ==
  ASSUME InitAfterImports, FailedForCause, UNCHANGED <<imports, ran, failed, culprits>>
  PROVE  InitAfterImports' /\ FailedForCause'
  <1>1. \A p, q : Reaches(p, q)' <=> Reaches(p, q)
    BY DEF Reaches
  <1> QED BY <1>1 DEF InitAfterImports, FailedForCause

\* NewKernel has loaded everything and begins to initialize.
LEMMA StartInitKeeps ==
  ASSUME LoaderKnown, SessionInv, StartInit
  PROVE  SessionInv'
  <1>1. /\ phase = "startup" /\ phase' = "start" /\ at' = 1 /\ errors = <<>> /\ pc = "idle"
        /\ UNCHANGED <<imports, order, errors, asked, processed, failed, chkName, irName, ran, culprits>>
    BY DEF StartInit, Phase, loaderVars, session, turn
  <1>2. DOMAIN order = 1 .. Len(order) /\ Len(order) \in Nat
    BY <1>1, IdleFacts
  <1>3. ToSet(ran') = {order'[i] : i \in {j \in DOMAIN order' : j < at'}} \ Injected
    <2>1. {j \in DOMAIN order : j < 1} = {}
      BY <1>2
    <2>2. ToSet(ran) = {}
      BY <1>1 DEF SessionInv, StartInv, Starting, ToSet
    <2>3. {order[i] : i \in {j \in DOMAIN order : j < 1}} = {}
      BY <2>1
    <2> QED BY <2>2, <2>3, <1>1
  <1>4. StartInv'
    BY <1>1, <1>3 DEF SessionInv, StartInv, Starting
  <1>5. ~InSession'
    BY <1>1 DEF InSession
  <1>6. InitAfterImports' /\ FailedForCause'
    BY <1>1, HistoryStays DEF SessionInv
  <1> QED BY <1>1, <1>4, <1>5, <1>6 DEF SessionInv, ProcessedInv, SettledInv, CleanInv, GoodInv,
      BoundInv, AgreeInv, AskedInv

\* It initializes the next package in order.
LEMMA StartPackageKeeps ==
  ASSUME LoaderKnown, SessionInv, StartPackage
  PROVE  SessionInv'
  <1> DEFINE p == order[at]
             done(k) == {order[i] : i \in {j \in DOMAIN order : j < k}}
  <1>1. /\ phase = "start" /\ phase' = "start" /\ at <= Len(order) /\ at' = at + 1
        /\ ran' = (IF p \in Injected THEN ran ELSE Append(ran, p))
        /\ UNCHANGED <<imports, order, errors, asked, processed, failed, chkName, irName, culprits>>
    BY DEF StartPackage, loaderVars, turn
  <1>2. errors = <<>> /\ at # 0 /\ ToSet(ran) = done(at) \ Injected
    BY <1>1 DEF SessionInv, StartInv, Starting
  <1>3. /\ pc = "idle" /\ order \in Seq(Paths) /\ InOrder(order)
        /\ DOMAIN order = 1 .. Len(order) /\ Len(order) \in Nat
    BY <1>1, <1>2, IdleFacts DEF LoaderKnown, PhaseInv
  <1>4. at \in DOMAIN order /\ p \in Paths /\ ran \in Seq(Paths) /\ at \in Nat
    BY <1>1, <1>2, <1>3 DEF LoaderKnown, SessionTypeOK
  <1>5. done(at + 1) = done(at) \cup {p}
    <2>1. {j \in DOMAIN order : j < at + 1} = {j \in DOMAIN order : j < at} \cup {at}
      BY <1>3, <1>4
    <2> QED BY <2>1
  <1>6. p \notin done(at)
    <2>1. \A i \in DOMAIN order : order[i] = p => i = at
      BY <1>3, <1>4 DEF InOrder, IsInjective
    <2> QED BY <2>1, <1>4
  <1>7. ToSet(imports[p]) \subseteq done(at)
    BY <1>3, <1>4 DEF InOrder
  <1> HIDE DEF p, done
  <1>8. ToSet(ran') = done(at + 1) \ Injected /\ InitAfterImports' /\ FailedForCause'
    <2>1. CASE p \in Injected
      BY <2>1, <1>1, <1>2, <1>5, HistoryStays DEF SessionInv
    <2>2. CASE p \notin Injected
      <3>1. p \notin ToSet(ran) /\ ToSet(imports[p]) \ Injected \subseteq ToSet(ran)
            /\ ran' = Append(ran, p) /\ imports' = imports
        BY <2>2, <1>1, <1>2, <1>6, <1>7
      <3>2. InitAfterImports' /\ ToSet(ran') = ToSet(ran) \cup {p}
        BY <3>1, <1>4, RanAppend DEF SessionInv
      <3>3. FailedForCause'
        <4>1. \A q, r : Reaches(q, r)' <=> Reaches(q, r)
          BY <1>1 DEF Reaches
        <4> QED BY <4>1, <1>1 DEF SessionInv, FailedForCause
      <3> QED BY <2>2, <3>2, <3>3, <1>2, <1>5
    <2> QED BY <2>1, <2>2
  <1>9. StartInv'
    <2>1. at' # 0
      BY <1>1, <1>4
    <2>2. ToSet(ran') = {order'[i] : i \in {j \in DOMAIN order' : j < at'}} \ Injected
      BY <1>1, <1>8 DEF done
    <2> QED BY <1>1, <1>2, <2>1, <2>2 DEF SessionInv, StartInv, Starting
  <1>10. ~InSession'
    BY <1>1 DEF InSession
  <1> QED BY <1>1, <1>8, <1>9, <1>10 DEF SessionInv, ProcessedInv, SettledInv, CleanInv, GoodInv,
      BoundInv, AgreeInv, AskedInv

\* It gives up.
LEMMA StartRefusedKeeps ==
  ASSUME LoaderKnown, SessionInv, StartRefused
  PROVE  SessionInv'
  <1>1. /\ phase \in {"startup", "start"} /\ phase' = "refused"
        /\ UNCHANGED <<imports, order, errors, processed, failed, chkName, irName, ran, culprits>>
    BY DEF StartRefused, loaderVars, session
  <1>2. StartInv' /\ ~InSession'
    BY <1>1 DEF SessionInv, StartInv, Starting, InSession
  <1>3. InitAfterImports' /\ FailedForCause'
    BY <1>1, HistoryStays DEF SessionInv
  <1> QED BY <1>1, <1>2, <1>3 DEF SessionInv, ProcessedInv, SettledInv, CleanInv, GoodInv,
      BoundInv, AgreeInv, AskedInv

\* The session begins: everything loaded is initialized, and what the main file
\* imports is bound.
LEMMA StartSessionKeeps ==
  ASSUME LoaderKnown, SessionInv, StartSession
  PROVE  SessionInv'
  <1>1. /\ phase = "start" /\ phase' = "prompt" /\ at > Len(order)
        /\ processed' = ToSet(order)
        /\ chkName' = Rebound(chkName, Loaded) /\ irName' = Rebound(irName, Loaded)
        /\ UNCHANGED <<packages, imports, order, errors, asked, failed, ran, culprits>>
    BY DEF StartSession, Phase, loaderVars, turn
  <1>2. /\ errors = <<>> /\ failed = {} /\ chkName = irName /\ chkName = [a \in Names |-> NoPath]
        /\ ToSet(ran) = {order[i] : i \in {j \in DOMAIN order : j < at}} \ Injected
    BY <1>1 DEF SessionInv, StartInv, Starting
  <1>3. /\ ToSet(order) = Loaded /\ ToSet(asked) \subseteq Loaded
        /\ \A p \in Loaded : ToSet(imports[p]) \subseteq Loaded
        /\ DOMAIN order = 1 .. Len(order) /\ Len(order) \in Nat
    BY <1>1, <1>2, IdleFacts DEF LoaderKnown, PhaseInv
  <1>4. asked \in Seq(Paths) /\ at \in Nat
    BY DEF LoaderKnown, SessionTypeOK
  <1>5. ToSet(ran) = Loaded \ Injected
    <2>1. {j \in DOMAIN order : j < at} = DOMAIN order
      BY <1>1, <1>3, <1>4
    <2>2. {order[i] : i \in {j \in DOMAIN order : j < at}} = ToSet(order)
      BY <2>1 DEF ToSet
    <2> QED BY <2>2, <1>2, <1>3
  <1>6. Good' = Loaded /\ Loaded' = Loaded
    BY <1>1, <1>2, <1>3, <1>5 DEF Good, Loaded
  <1>7. StartInv' /\ CleanInv'
    BY <1>1 DEF StartInv, Starting, CleanInv
  <1>8. ProcessedInv' /\ SettledInv'
    <2>1. Pending' = {}
      BY <1>1 DEF Pending
    <2>2. processed' = Loaded' /\ failed' = {} /\ ToSet(ran') = Loaded' \ Injected
      BY <1>1, <1>2, <1>3, <1>5, <1>6
    <2>3. SettledInv'
      BY <2>1, <2>2 DEF SettledInv
    <2>4. ToSet(order') \subseteq processed'
      BY <1>1
    <2>5. ProcessedInv'
      BY <1>1, <2>4 DEF ProcessedInv
    <2> QED BY <2>3, <2>5
  <1>9. GoodInv'
    BY <1>1, <1>3, <1>6 DEF GoodInv
  <1>10. BoundInv'
    <2>1. ASSUME NEW a \in Names, chkName'[a] # NoPath PROVE chkName'[a] \in Good'
      <3>1. chkName[a] = NoPath
        BY <1>2
      <3>2. chkName'[a] = chkName[a] \/ chkName'[a] \in Loaded
        BY <1>1, <1>4, ReboundWithin
      <3> QED BY <3>1, <3>2, <2>1, <1>6
    <2> QED BY <2>1 DEF BoundInv
  <1>11. AgreeInv'
    BY <1>1, <1>2 DEF AgreeInv
  <1>12. AskedInv'
    <2>1. ASSUME NEW i \in DOMAIN asked
          PROVE  \E j \in DOMAIN asked : AliasOf[asked[j]] = AliasOf[asked[i]]
                                         /\ chkName'[AliasOf[asked[i]]] = asked[j]
      <3>1. asked[i] \in Loaded
        BY <1>3 DEF ToSet
      <3> QED BY <3>1, <1>1, <1>4, ReboundFinds
    <2> QED BY <2>1, <1>1 DEF AskedInv
  <1>13. InitAfterImports' /\ FailedForCause'
    BY <1>1, HistoryStays DEF SessionInv
  <1> QED BY <1>7, <1>8, <1>9, <1>10, <1>11, <1>12, <1>13 DEF SessionInv

\* The loader is done with the paths of a prompt's import.
LEMMA ImportedKeeps ==
  ASSUME LoaderKnown, SessionInv, Imported
  PROVE  SessionInv'
  <1>1. /\ phase = "load" /\ pc = "idle" /\ pc' = pc /\ at' = 1 /\ clean' = <<>>
        /\ phase' = IF Len(errors) > errsBefore THEN "prompt" ELSE "check"
        /\ UNCHANGED <<packages, imports, order, errors, asked, processed, failed, chkName, irName,
                       ran, culprits>>
    BY DEF Imported, Phase, loaderVars, turn, session
  <1>2. phase' \in {"prompt", "check"} /\ (phase' = "prompt" => errors # <<>>)
    <2>1. errors = <<>> => Len(errors) = 0
      OBVIOUS
    <2>2. errsBefore \in Nat
      BY DEF LoaderKnown, SessionTypeOK
    <2> QED BY <1>1, <2>1, <2>2
  <1>3. InSession /\ ~Starting' /\ Pending = {} /\ Pending' = {} /\ Loaded' = Loaded /\ Good' = Good
    BY <1>1, <1>2 DEF InSession, Starting, Pending, Loaded, Good, ToSet
  <1>4. ProcessedInv'
    <2>1. ToSet(order) \subseteq processed \/ errors = <<>>
      BY <1>1, <1>3 DEF SessionInv, ProcessedInv
    <2>2. \A i \in DOMAIN order : ~(i < 1)
      BY <1>1, IdleFacts
    <2> QED BY <2>1, <2>2, <1>1, <1>2 DEF ProcessedInv
  <1>5. CleanInv'
    <2>1. DOMAIN clean' = {} /\ ToSet(clean') = {}
      BY <1>1 DEF ToSet
    <2> QED BY <1>1, <2>1 DEF CleanInv, IsInjective
  <1>6. InitAfterImports' /\ FailedForCause'
    BY <1>1, HistoryStays DEF SessionInv
  <1>7. SettledInv' /\ GoodInv' /\ BoundInv' /\ AgreeInv'
    BY <1>1, <1>3 DEF SessionInv, SettledInv, GoodInv, BoundInv, AgreeInv
  <1>8. StartInv' /\ AskedInv'
    BY <1>1, <1>2, <1>3 DEF StartInv, AskedInv
  <1> QED BY <1>4, <1>5, <1>6, <1>7, <1>8 DEF SessionInv

\* What the loops of a turn leave alone.
LoopRest ==
  UNCHANGED <<packages, imports, implicit, order, errors, pc, asked, chkName, irName>>

\* The next package is checked.
LEMMA CheckPackageKeeps ==
  ASSUME LoaderKnown, SessionInv, CheckPackage
  PROVE  SessionInv'
  <1> DEFINE p == order[at]
  <1>1. /\ phase = "check" /\ phase' = "check" /\ at <= Len(order) /\ at' = at + 1
        /\ LoopRest /\ ran' = ran /\ imports' = imports
    BY DEF CheckPackage, LoopRest, loaderVars, turn
  <1>2. /\ InSession /\ InSession' /\ ~Starting'
        /\ Pending = ToSet(clean) /\ Pending' = ToSet(clean') /\ Loaded' = Loaded
    BY <1>1 DEF InSession, Starting, Pending, Loaded, LoopRest
  <1>3. /\ pc = "idle" /\ order \in Seq(Paths) /\ ToSet(order) \subseteq Loaded /\ Loaded \subseteq Paths
        /\ DOMAIN order = 1 .. Len(order) /\ Len(order) \in Nat /\ DOMAIN imports = Loaded
    BY <1>1, IdleFacts DEF LoaderKnown, PhaseInv
  <1>4. /\ at \in DOMAIN order /\ at \in Nat /\ p \in Paths /\ p \in Loaded /\ p \in ToSet(order)
        /\ clean \in Seq(Paths)
    <2>1. at \in Nat /\ at # 0 /\ clean \in Seq(Paths)
      BY <1>1 DEF SessionInv, CleanInv, LoaderKnown, SessionTypeOK
    <2>2. at \in DOMAIN order
      BY <2>1, <1>1, <1>3
    <2>3. p \in ToSet(order)
      BY <2>2 DEF ToSet
    <2> QED BY <2>1, <2>2, <2>3, <1>3
  <1>5. \A i \in DOMAIN order : i < at => order[i] \in processed
    BY <1>1, <1>2 DEF SessionInv, ProcessedInv
  <1>6. ASSUME p \notin processed
        PROVE  /\ errors = <<>>
               /\ \A q \in ToSet(imports[p]) : q \in processed
    <2>1. errors = <<>>
      BY <1>2, <1>4, <1>6 DEF SessionInv, ProcessedInv
    <2>2. InOrder(order)
      BY <1>3, <2>1, IdleFacts
    <2>3. \A q \in ToSet(imports[p]) : q \in processed
      BY <2>2, <1>4, <1>5 DEF InOrder
    <2> QED BY <2>1, <2>3
  <1>7. processed' = processed \cup {p}
    BY DEF CheckPackage
  <1>8. \/ /\ p \in processed /\ UNCHANGED <<clean, failed, culprits>>
        \/ /\ p \notin processed /\ ~importsFailedPkg(p) /\ p \in Injected
           /\ UNCHANGED <<clean, failed, culprits>>
        \/ /\ p \notin processed /\ ~importsFailedPkg(p) /\ p \notin Injected
           /\ clean' = Append(clean, p) /\ UNCHANGED <<failed, culprits>>
        \/ /\ p \notin processed /\ failed' = failed \cup {p} /\ clean' = clean
           /\ \/ culprits' = culprits \cup {p}
              \/ importsFailedPkg(p) /\ culprits' = culprits
    BY DEF CheckPackage, Fails, Blame
  <1> HIDE DEF p
  <1>9. ProcessedInv'
    <2>1. ToSet(order) \subseteq processed \/ errors = <<>>
      BY <1>2 DEF SessionInv, ProcessedInv
    <2>2. \A i \in DOMAIN order : i < at + 1 => i < at \/ i = at
      BY <1>3, <1>4
    <2>3. \A i \in DOMAIN order' : i < at' => order'[i] \in processed'
      BY <1>1, <1>5, <1>7, <2>2 DEF LoopRest, p
    <2>4. \/ ToSet(order') \subseteq processed'
          \/ phase' \in {"load", "check"} /\ pc' = "idle" /\ errors' = <<>>
      BY <1>1, <1>3, <1>7, <2>1 DEF LoopRest
    <2> QED BY <2>3, <2>4 DEF ProcessedInv
  <1>10. /\ processed \subseteq Loaded /\ failed \subseteq processed
         /\ ToSet(ran) \subseteq processed \ (Injected \cup failed)
         /\ processed \subseteq Injected \cup failed \cup ToSet(ran) \cup ToSet(clean)
         /\ ToSet(clean) \subseteq processed \ (Injected \cup ToSet(ran))
    BY <1>2 DEF SessionInv, SettledInv
  <1>11. failed \subseteq failed' /\ failed' \subseteq failed \cup {p}
    BY <1>8
  <1>12. ToSet(clean') = ToSet(clean) \/ (p \notin processed /\ p \notin Injected /\ failed' = failed
                                        /\ ToSet(clean') = ToSet(clean) \cup {p})
    <2>1. clean' = Append(clean, p) => ToSet(clean') = ToSet(clean) \cup {p}
      BY <1>4, Appended
    <2> QED BY <2>1, <1>8
  <1>13. SettledInv'
    <2>1. /\ processed' \subseteq Loaded /\ failed' \subseteq processed'
          /\ ToSet(ran') \subseteq processed' \ (Injected \cup failed')
      BY <1>1, <1>4, <1>7, <1>8, <1>10, <1>11
    <2>2. processed' \subseteq Injected \cup failed' \cup ToSet(ran') \cup ToSet(clean')
      <3>1. p \in processed \/ p \in Injected \/ p \in failed' \/ p \in ToSet(clean')
        <4>1. clean' = Append(clean, p) => ToSet(clean') = ToSet(clean) \cup {p}
          BY <1>4, Appended
        <4> QED BY <4>1, <1>8
      <3>2. processed \subseteq Injected \cup failed' \cup ToSet(ran) \cup ToSet(clean')
        BY <1>10, <1>11, <1>12
      <3> QED BY <3>1, <3>2, <1>1, <1>7, <1>10
    <2>3. ToSet(clean') \subseteq processed' \ (Injected \cup ToSet(ran'))
      BY <1>1, <1>7, <1>10, <1>12
    <2> QED BY <1>2, <2>1, <2>2, <2>3 DEF SettledInv
  <1>14. CleanInv'
    <2> DEFINE Settles(q, i) ==
                 q \in processed /\
                 (q \in Injected \cup failed \cup ToSet(ran) \/ \E j \in DOMAIN clean : j < i /\ clean[j] = q)
    <2>1. /\ IsInjective(clean)
          /\ \A i \in DOMAIN clean : \A q \in ToSet(imports[clean[i]]) : Settles(q, i)
      BY <1>1 DEF SessionInv, CleanInv
    <2>2. at' # 0 /\ ToSet(clean') \subseteq processed'
      BY <1>1, <1>4, <1>7, <1>10, <1>12
    <2>3. CASE clean' = clean
      <3>1. \A i \in DOMAIN clean' : \A q \in ToSet(imports'[clean'[i]]) :
              q \in processed' /\
              (q \in Injected \cup failed' \cup ToSet(ran') \/ \E j \in DOMAIN clean' : j < i /\ clean'[j] = q)
        BY <1>1, <1>7, <1>11, <2>1, <2>3
      <3> QED BY <2>1, <2>2, <2>3, <3>1 DEF CleanInv
    <2>4. CASE p \notin processed /\ clean' = Append(clean, p)
      <3> DEFINE n == Len(clean)
                 t == clean'
      <3>1. /\ DOMAIN clean = 1 .. n /\ DOMAIN t = 1 .. n + 1 /\ n \in Nat /\ t[n + 1] = p
            /\ \A i \in 1 .. n : t[i] = clean[i]
        BY <2>4, <1>4, Appended
      <3>2. IsInjective(t)
        BY <2>1, <2>4, <1>4, <1>10, AppendedDistinct
      <3> HIDE DEF n, t
      <3>3. \A i \in 1 .. n : i \in 1 .. n + 1 /\ i < n + 1
        BY <3>1
      <3>4. ASSUME NEW i \in 1 .. n + 1, NEW q \in ToSet(imports[t[i]])
            PROVE  q \in processed' /\
                   (q \in Injected \cup failed' \cup ToSet(ran) \/ \E j \in 1 .. n + 1 : j < i /\ t[j] = q)
        <4>1. CASE i \in 1 .. n
          <5>1. Settles(q, i)
            BY <2>1, <3>1, <3>4, <4>1
          <5> QED BY <5>1, <1>7, <1>11, <3>1, <3>3
        <4>2. CASE i = n + 1
          <5>1. q \in processed
            BY <1>6, <2>4, <3>1, <3>4, <4>2 DEF p
          <5>2. q \in Injected \cup failed \cup ToSet(ran) \/ \E j \in 1 .. n : clean[j] = q
            BY <5>1, <1>10, <3>1 DEF ToSet
          <5> QED BY <5>1, <5>2, <4>2, <1>7, <1>11, <3>1, <3>3
        <4>3. i \in 1 .. n \/ i = n + 1
          BY <3>1
        <4> QED BY <4>1, <4>2, <4>3
      <3>5. \A i \in DOMAIN t : \A q \in ToSet(imports'[t[i]]) :
              q \in processed' /\
              (q \in Injected \cup failed' \cup ToSet(ran') \/ \E j \in DOMAIN t : j < i /\ t[j] = q)
        BY <1>1, <3>1, <3>4
      <3> QED BY <2>2, <3>2, <3>5 DEF CleanInv, t
    <2> QED BY <2>3, <2>4, <1>8
  <1>15. GoodInv' /\ Good \subseteq Good'
    <2>1. \A q \in Good : ToSet(imports[q]) \subseteq Good
      BY <1>2 DEF SessionInv, GoodInv
    <2>2. CASE Good' = Good
      BY <2>1, <2>2, <1>1 DEF GoodInv
    <2>3. CASE p \notin processed /\ ~importsFailedPkg(p) /\ p \in Injected /\ failed' = failed
      <3>1. Good' = Good \cup {p}
        BY <2>3, <1>1, <1>7, <1>10 DEF Good
      <3>2. ToSet(imports[p]) \subseteq Injected
        BY <2>3, <1>4 DEF LoaderKnown, InjectedInv
      <3>3. ToSet(imports[p]) \subseteq Good
        BY <3>2, <2>3, <1>6 DEF Good, importsFailedPkg
      <3> QED BY <2>1, <3>1, <3>3, <1>1 DEF GoodInv
    <2>4. CASE p \in processed \/ p \notin Injected \/ failed' = failed \cup {p}
      <3>1. Good' = Good
        BY <2>4, <1>1, <1>7, <1>8, <1>10 DEF Good
      <3> QED BY <3>1, <2>2
    <2> QED BY <2>3, <2>4, <1>8
  <1>16. BoundInv'
    BY <1>1, <1>2, <1>15 DEF SessionInv, BoundInv, LoopRest
  <1>17. StartInv' /\ AgreeInv' /\ AskedInv'
    BY <1>1, <1>2 DEF SessionInv, StartInv, AgreeInv, AskedInv, LoopRest
  <1>18. InitAfterImports'
    BY <1>1 DEF SessionInv, InitAfterImports
  <1>19. FailedForCause'
    <2>1. CASE failed' = failed /\ culprits' = culprits
      BY <2>1, <1>1, HistoryStays DEF SessionInv
    <2>2. CASE /\ failed' = failed \cup {p}
               /\ culprits' = culprits \cup {p} \/ (importsFailedPkg(p) /\ culprits' = culprits)
      BY <2>2, <1>1, <1>3, <1>4, CauseFound DEF SessionInv
    <2>3. \/ failed' = failed /\ culprits' = culprits
          \/ /\ failed' = failed \cup {p}
             /\ culprits' = culprits \cup {p} \/ (importsFailedPkg(p) /\ culprits' = culprits)
      BY <1>8
    <2> QED BY <2>1, <2>2, <2>3
  <1> QED BY <1>9, <1>13, <1>14, <1>15, <1>16, <1>17, <1>18, <1>19 DEF SessionInv

\* Between two loops of a turn.
LEMMA PhasesKeep ==
  ASSUME LoaderKnown, SessionInv, Checked \/ Lowered \/ Initialized
  PROVE  SessionInv'
  <1>1. /\ \/ phase = "check" /\ phase' = "lower" /\ at > Len(order)
           \/ phase = "lower" /\ phase' = "init"
           \/ phase = "init" /\ phase' = "bind" /\ at > Len(clean)
        /\ at' = 1 /\ LoopRest /\ UNCHANGED <<clean, processed, failed, ran, culprits>>
    BY DEF Checked, Lowered, Initialized, Phase, LoopRest, loaderVars, turn, session
  <1>2. /\ InSession /\ InSession' /\ ~Starting' /\ Loaded' = Loaded /\ Good' = Good
        /\ clean \in Seq(Paths) /\ at \in Nat
    BY <1>1 DEF InSession, Starting, Loaded, Good, LoopRest, LoaderKnown, SessionTypeOK
  <1>3. Pending' = Pending
    <2>1. CASE phase = "check"
      BY <2>1, <1>1 DEF Pending
    <2>2. CASE phase = "lower"
      <3>1. {j \in DOMAIN clean : j >= 1} = DOMAIN clean
        <4>1. DOMAIN clean = 1 .. Len(clean)
          BY <1>2
        <4> QED BY <4>1
      <3>2. Pending = ToSet(clean) /\ Pending' = {clean[i] : i \in {j \in DOMAIN clean : j >= 1}}
        BY <2>2, <1>1 DEF Pending
      <3> QED BY <3>1, <3>2 DEF ToSet
    <2>3. CASE phase = "init"
      <3>1. {j \in DOMAIN clean : j >= at} = {}
        BY <2>3, <1>1, <1>2
      <3>2. Pending = {clean[i] : i \in {j \in DOMAIN clean : j >= at}} /\ Pending' = {}
        BY <2>3, <1>1 DEF Pending
      <3> QED BY <3>1, <3>2
    <2> QED BY <2>1, <2>2, <2>3, <1>1
  <1>4. ToSet(order) \subseteq processed
    <2>1. CASE phase # "check"
      BY <2>1, <1>1, <1>2 DEF SessionInv, ProcessedInv
    <2>2. CASE phase = "check"
      <3>1. pc = "idle"
        BY <2>2 DEF LoaderKnown, PhaseInv
      <3>2. \A i \in DOMAIN order : i < at
        BY <3>1, <2>2, <1>1, <1>2, IdleFacts
      <3> QED BY <3>2, <2>2, <1>2 DEF SessionInv, ProcessedInv, ToSet
    <2> QED BY <2>1, <2>2
  <1>5. ProcessedInv'
    BY <1>1, <1>4 DEF ProcessedInv, LoopRest
  <1>6. SettledInv' /\ GoodInv' /\ BoundInv'
    BY <1>1, <1>2, <1>3 DEF SessionInv, SettledInv, GoodInv, BoundInv, LoopRest
  <1>7. CleanInv'
    <2>1. CASE phase' = "bind"
      BY <2>1 DEF CleanInv
    <2>2. CASE phase' # "bind"
      BY <2>2, <1>1 DEF SessionInv, CleanInv, LoopRest
    <2> QED BY <2>1, <2>2
  <1>8. StartInv' /\ AgreeInv' /\ AskedInv'
    BY <1>1, <1>2 DEF SessionInv, StartInv, AgreeInv, AskedInv, LoopRest
  <1>9. InitAfterImports' /\ FailedForCause'
    BY <1>1, HistoryStays DEF SessionInv, LoopRest
  <1> QED BY <1>5, <1>6, <1>7, <1>8, <1>9 DEF SessionInv

\* The next package is lowered.
LEMMA LowerPackageKeeps ==
  ASSUME LoaderKnown, SessionInv, LowerPackage
  PROVE  SessionInv'
  <1> DEFINE p == clean[at]
  <1>1. /\ phase = "lower" /\ phase' = "lower" /\ at <= Len(clean) /\ at' = at + 1 /\ LoopRest
        /\ imports' = imports /\ clean' = clean /\ processed' = processed /\ ran' = ran
    BY DEF LowerPackage, LoopRest, loaderVars, turn
  <1>2. /\ InSession /\ InSession' /\ ~Starting'
        /\ Pending = ToSet(clean) /\ Pending' = ToSet(clean) /\ Loaded' = Loaded
    BY <1>1 DEF InSession, Starting, Pending, Loaded, LoopRest
  <1>3. at \in DOMAIN clean /\ at \in Nat /\ p \in ToSet(clean)
    <2>1. at \in Nat /\ at # 0 /\ clean \in Seq(Paths)
      BY <1>1 DEF SessionInv, CleanInv, LoaderKnown, SessionTypeOK
    <2>2. at \in DOMAIN clean
      BY <2>1, <1>1
    <2> QED BY <2>1, <2>2 DEF ToSet
  <1>4. \/ failed' = failed /\ culprits' = culprits
        \/ /\ failed' = failed \cup {p}
           /\ culprits' = culprits \cup {p} \/ (importsFailedPkg(p) /\ culprits' = culprits)
    BY DEF LowerPackage, Fails, Blame
  <1> HIDE DEF p
  <1>5. /\ processed \subseteq Loaded /\ failed \subseteq processed
        /\ ToSet(ran) \subseteq processed \ (Injected \cup failed)
        /\ processed \subseteq Injected \cup failed \cup ToSet(ran) \cup ToSet(clean)
        /\ ToSet(clean) \subseteq processed \ (Injected \cup ToSet(ran))
    BY <1>2 DEF SessionInv, SettledInv
  <1>6. /\ p \in processed /\ p \notin Injected \cup ToSet(ran) /\ p \in DOMAIN imports
        /\ failed \subseteq failed' /\ failed' \subseteq failed \cup {p}
    BY <1>3, <1>4, <1>5 DEF LoaderKnown, LoaderInv, LoaderTypeOK
  <1>7. SettledInv'
    BY <1>1, <1>2, <1>5, <1>6 DEF SettledInv
  <1>8. Good' = Good
    BY <1>1, <1>6 DEF Good
  <1>9. GoodInv' /\ BoundInv'
    BY <1>1, <1>2, <1>8 DEF SessionInv, GoodInv, BoundInv, LoopRest
  <1>10. CleanInv'
    <2>1. at' # 0
      BY <1>1, <1>3
    <2> QED BY <1>1, <1>6, <2>1 DEF SessionInv, CleanInv
  <1>11. ProcessedInv'
    BY <1>1, <1>2 DEF SessionInv, ProcessedInv, LoopRest
  <1>12. StartInv' /\ AgreeInv' /\ AskedInv'
    BY <1>1, <1>2 DEF SessionInv, StartInv, AgreeInv, AskedInv, LoopRest
  <1>13. InitAfterImports'
    BY <1>1 DEF SessionInv, InitAfterImports
  <1>14. FailedForCause'
    <2>1. CASE failed' = failed /\ culprits' = culprits
      BY <2>1, <1>1, HistoryStays DEF SessionInv
    <2>2. CASE /\ failed' = failed \cup {p}
               /\ culprits' = culprits \cup {p} \/ (importsFailedPkg(p) /\ culprits' = culprits)
      BY <2>2, <1>1, <1>6, CauseFound DEF SessionInv
    <2> QED BY <2>1, <2>2, <1>4
  <1> QED BY <1>7, <1>9, <1>10, <1>11, <1>12, <1>13, <1>14 DEF SessionInv

\* The next package is initialized.
LEMMA InitPackageKeeps ==
  ASSUME LoaderKnown, SessionInv, InitPackage
  PROVE  SessionInv'
  <1> DEFINE p == clean[at]
             left(k) == {clean[i] : i \in {j \in DOMAIN clean : j >= k}}
  <1>1. /\ phase = "init" /\ phase' = "init" /\ at <= Len(clean) /\ at' = at + 1 /\ LoopRest
        /\ imports' = imports /\ clean' = clean /\ processed' = processed
    BY DEF InitPackage, LoopRest, loaderVars, turn
  <1>2. /\ InSession /\ InSession' /\ ~Starting'
        /\ Pending = left(at) /\ Pending' = left(at + 1) /\ Loaded' = Loaded
    BY <1>1 DEF InSession, Starting, Pending, Loaded, LoopRest
  <1>3. /\ at \in DOMAIN clean /\ at \in Nat /\ clean \in Seq(Paths) /\ p \in Paths
        /\ DOMAIN clean = 1 .. Len(clean) /\ Len(clean) \in Nat /\ IsInjective(clean)
    <2>1. at \in Nat /\ at # 0 /\ clean \in Seq(Paths) /\ IsInjective(clean)
      BY <1>1 DEF SessionInv, CleanInv, LoaderKnown, SessionTypeOK
    <2>2. at \in DOMAIN clean /\ DOMAIN clean = 1 .. Len(clean) /\ Len(clean) \in Nat
      BY <2>1, <1>1
    <2> QED BY <2>1, <2>2
  <1>4. p \in left(at) /\ left(at) = left(at + 1) \cup {p}
    <2>1. {j \in DOMAIN clean : j >= at} = {j \in DOMAIN clean : j >= at + 1} \cup {at}
      BY <1>3
    <2> QED BY <2>1
  <1>5. p \notin left(at + 1)
    <2>1. \A i \in DOMAIN clean : clean[i] = p => i = at
      BY <1>3 DEF IsInjective
    <2>2. ~(at >= at + 1)
      BY <1>3
    <2> QED BY <2>1, <2>2
  <1>6. ASSUME NEW j \in DOMAIN clean, j < at PROVE clean[j] \notin left(at)
    <2>1. \A i \in DOMAIN clean : clean[i] = clean[j] => i = j
      BY <1>3 DEF IsInjective
    <2>2. ~(j >= at)
      BY <1>3, <1>6
    <2> QED BY <2>1, <2>2
  <1>7. \/ p \in failed /\ UNCHANGED <<failed, ran, culprits>>
        \/ /\ p \notin failed /\ ~importsFailedPkg(p)
           /\ ran' = Append(ran, p) /\ UNCHANGED <<failed, culprits>>
        \/ /\ failed' = failed \cup {p} /\ ran' = ran
           /\ culprits' = culprits \cup {p} \/ (importsFailedPkg(p) /\ culprits' = culprits)
    BY DEF InitPackage, Fails, Blame
  <1> HIDE DEF left
  <1>8. /\ processed \subseteq Loaded /\ failed \subseteq processed
        /\ ToSet(ran) \subseteq processed \ (Injected \cup failed)
        /\ processed \subseteq Injected \cup failed \cup ToSet(ran) \cup left(at)
        /\ left(at) \subseteq processed \ (Injected \cup ToSet(ran))
    BY <1>2 DEF SessionInv, SettledInv
  <1>9. \A q \in ToSet(imports[p]) : q \in processed /\ q \in Injected \cup failed \cup ToSet(ran)
    <2>1. ToSet(clean) \subseteq processed
      BY <1>1 DEF SessionInv, CleanInv
    <2>2. \A q \in ToSet(imports[p]) :
            q \in processed /\
            (q \in Injected \cup failed \cup ToSet(ran) \/ \E j \in DOMAIN clean : j < at /\ clean[j] = q)
      BY <1>1, <1>3 DEF SessionInv, CleanInv
    <2> QED BY <2>2, <1>6, <1>8
  <1> HIDE DEF p
  <1>10. p \in processed /\ p \notin Injected \cup ToSet(ran) /\ p \in DOMAIN imports /\ ran \in Seq(Paths)
    BY <1>4, <1>8 DEF LoaderKnown, LoaderInv, LoaderTypeOK, SessionTypeOK
  <1>11. /\ failed \subseteq failed' /\ InitAfterImports' /\ FailedForCause'
         /\ \/ ToSet(ran') = ToSet(ran) /\ p \in failed' /\ failed' \subseteq failed \cup {p}
            \/ /\ ToSet(ran') = ToSet(ran) \cup {p} /\ failed' = failed /\ p \notin failed
               /\ ToSet(imports[p]) \subseteq processed \ failed
               /\ ToSet(imports[p]) \subseteq Injected \cup ToSet(ran)
    <2>1. CASE p \in failed /\ UNCHANGED <<failed, ran, culprits>>
      BY <2>1, <1>1, HistoryStays DEF SessionInv
    <2>2. CASE /\ p \notin failed /\ ~importsFailedPkg(p)
               /\ ran' = Append(ran, p) /\ UNCHANGED <<failed, culprits>>
      <3>1. \A q \in ToSet(imports[p]) : q \in processed \ failed /\ q \in Injected \cup ToSet(ran)
        BY <2>2, <1>9 DEF importsFailedPkg
      <3>2. ToSet(imports[p]) \ Injected \subseteq ToSet(ran)
        BY <3>1
      <3>3. InitAfterImports' /\ ToSet(ran') = ToSet(ran) \cup {p}
        BY <3>2, <2>2, <1>1, <1>3, <1>10, RanAppend DEF SessionInv, p
      <3>4. FailedForCause'
        <4>1. \A q, r : Reaches(q, r)' <=> Reaches(q, r)
          BY <1>1 DEF Reaches
        <4> QED BY <4>1, <2>2 DEF SessionInv, FailedForCause
      <3> QED BY <3>1, <3>3, <3>4, <2>2
    <2>3. CASE /\ failed' = failed \cup {p} /\ ran' = ran
               /\ culprits' = culprits \cup {p} \/ (importsFailedPkg(p) /\ culprits' = culprits)
      <3>1. FailedForCause'
        BY <2>3, <1>1, <1>10, CauseFound DEF SessionInv
      <3>2. InitAfterImports'
        BY <2>3, <1>1 DEF SessionInv, InitAfterImports
      <3> QED BY <3>1, <3>2, <2>3
    <2> QED BY <2>1, <2>2, <2>3, <1>7
  <1>12. SettledInv'
    <2>1. /\ ToSet(ran') \subseteq processed \ (Injected \cup failed')
          /\ processed \subseteq Injected \cup failed' \cup ToSet(ran') \cup left(at + 1)
          /\ left(at + 1) \subseteq processed \ (Injected \cup ToSet(ran'))
          /\ failed' \subseteq processed
      BY <1>4, <1>5, <1>8, <1>10, <1>11
    <2> QED BY <2>1, <1>1, <1>2, <1>8 DEF SettledInv
  <1>13. GoodInv' /\ Good \subseteq Good'
    <2>1. \A q \in Good : ToSet(imports[q]) \subseteq Good
      BY <1>2 DEF SessionInv, GoodInv
    <2>2. CASE ToSet(ran') = ToSet(ran) /\ p \in failed' /\ failed' \subseteq failed \cup {p}
      <3>1. Good' = Good
        BY <2>2, <1>1, <1>10, <1>11 DEF Good
      <3> QED BY <3>1, <2>1, <1>1 DEF GoodInv
    <2>3. CASE /\ ToSet(ran') = ToSet(ran) \cup {p} /\ failed' = failed /\ p \notin failed
               /\ ToSet(imports[p]) \subseteq processed \ failed
               /\ ToSet(imports[p]) \subseteq Injected \cup ToSet(ran)
      <3>1. Good' = Good \cup {p} /\ ToSet(imports[p]) \subseteq Good
        BY <2>3, <1>1, <1>10 DEF Good
      <3> QED BY <3>1, <2>1, <1>1 DEF GoodInv
    <2> QED BY <2>2, <2>3, <1>11
  <1>14. BoundInv'
    BY <1>1, <1>2, <1>13 DEF SessionInv, BoundInv, LoopRest
  <1>15. CleanInv'
    <2>1. at' # 0
      BY <1>1, <1>3
    <2>2. ToSet(ran) \subseteq ToSet(ran')
      BY <1>11
    <2> QED BY <1>1, <1>11, <2>1, <2>2 DEF SessionInv, CleanInv
  <1>16. ProcessedInv'
    BY <1>1, <1>2 DEF SessionInv, ProcessedInv, LoopRest
  <1>17. StartInv' /\ AgreeInv' /\ AskedInv'
    BY <1>1, <1>2 DEF SessionInv, StartInv, AgreeInv, AskedInv, LoopRest
  <1> QED BY <1>11, <1>12, <1>13, <1>14, <1>15, <1>16, <1>17 DEF SessionInv

\* The names are bound.
LEMMA BindKeeps ==
  ASSUME LoaderKnown, SessionInv, Bind
  PROVE  SessionInv'
  <1>1. /\ phase = "bind" /\ phase' = "prompt"
        /\ irName' = Rebound(irName, Loaded \ failed)
        /\ chkName' = Rebound(chkName, processed \ failed)
        /\ UNCHANGED <<packages, imports, order, errors, asked, processed, failed, ran, culprits>>
    BY DEF Bind, RegisterAliases, Phase, loaderVars, turn
  <1>2. /\ InSession /\ InSession' /\ ~Starting' /\ Pending = {} /\ Pending' = {}
        /\ Loaded' = Loaded /\ Good' = Good
    BY <1>1 DEF InSession, Starting, Pending, Loaded, Good
  <1>3. asked \in Seq(Paths)
    BY DEF LoaderKnown, SessionTypeOK
  <1>4. /\ ToSet(order) \subseteq processed /\ processed \subseteq Loaded
        /\ processed \ failed \subseteq Good
    BY <1>1, <1>2 DEF SessionInv, ProcessedInv, SettledInv, Good
  <1>5. errors = <<>> => processed = Loaded /\ ToSet(asked) \subseteq Loaded
    <2>1. errors = <<>> => ToSet(order) = Loaded /\ ToSet(asked) \subseteq Loaded
      BY <1>1, IdleFacts DEF LoaderKnown, PhaseInv
    <2> QED BY <2>1, <1>4
  <1>6. AgreeInv'
    <2> SUFFICES ASSUME errors = <<>> PROVE chkName' = irName'
      BY <1>1 DEF AgreeInv
    <2>1. chkName = irName /\ processed = Loaded
      BY <1>5 DEF SessionInv, AgreeInv
    <2> QED BY <2>1, <1>1
  <1>7. BoundInv'
    <2>1. ASSUME NEW a \in Names, chkName'[a] # NoPath PROVE chkName'[a] \in Good
      <3>1. chkName'[a] = chkName[a] \/ chkName'[a] \in processed \ failed
        BY <1>1, <1>3, ReboundWithin
      <3>2. chkName[a] # NoPath => chkName[a] \in Good
        BY <1>2 DEF SessionInv, BoundInv
      <3> QED BY <3>1, <3>2, <2>1, <1>4
    <2> QED BY <2>1, <1>2 DEF BoundInv
  <1>8. AskedInv'
    <2>1. ASSUME errors = <<>>, NEW i \in DOMAIN asked, asked[i] \notin failed
          PROVE  \E j \in DOMAIN asked : AliasOf[asked[j]] = AliasOf[asked[i]]
                                         /\ chkName'[AliasOf[asked[i]]] = asked[j]
      <3>1. asked[i] \in processed \ failed
        BY <2>1, <1>5 DEF ToSet
      <3> QED BY <3>1, <1>1, <1>3, ReboundFinds
    <2> QED BY <2>1, <1>1 DEF AskedInv
  <1>9. StartInv' /\ CleanInv' /\ ProcessedInv'
    BY <1>1, <1>2, <1>4 DEF StartInv, CleanInv, ProcessedInv
  <1>10. SettledInv' /\ GoodInv'
    BY <1>1, <1>2 DEF SessionInv, SettledInv, GoodInv
  <1>11. InitAfterImports' /\ FailedForCause'
    BY <1>1, HistoryStays DEF SessionInv
  <1> QED BY <1>6, <1>7, <1>8, <1>9, <1>10, <1>11 DEF SessionInv

\* The loader and the session, before anything is loaded.
LEMMA InitHolds ==
  ASSUME Init
  PROVE  LoaderKnown /\ SortInv /\ SessionInv
  <1> USE DEF Init, NewLoader
  <1>1. /\ disk \in [Paths -> Contents] /\ \A p \in Injected : disk[p] # Fail => ToSet(disk[p]) \subseteq Injected
    BY LoaderAssumption, SessionAssumption
  <1>2. Loaded = {} /\ DOMAIN imports = {} /\ ToSet(packages) = {}
    BY DEF Loaded, ToSet
  <1>3. <<>> \in Seq(Paths) /\ <<>> \in Stacks /\ <<>> \in Seq({"cycle", "load"} \X Paths)
    BY DEF Stacks
  <1>4. LoaderTypeOK
    BY <1>1, <1>2, <1>3 DEF LoaderTypeOK
  <1>5. SessionTypeOK
    <2>1. chkName \in [Names -> Paths \cup {NoPath}]
      OBVIOUS
    <2>2. interrupted \in BOOLEAN
      BY Zenon
    <2> QED BY <1>3, <2>1, <2>2 DEF SessionTypeOK
  <1>6. Pkgs(loading) = {} /\ Pkgs(visiting) = {} /\ Finished = {}
    BY <1>2 DEF Pkgs, Finished
  <1>7. StacksLoaded /\ LoadingInv /\ CycleErrors
    BY <1>6 DEF StacksLoaded, LoadingInv, IsInjective, StackSound, Distinct, Chain, LookedAt, CycleErrors
  <1>8. RankInv
    <2>1. [p \in Paths |-> 0] \in [Paths -> 0 .. 0]
      OBVIOUS
    <2>2. Ranked(imports, Finished, Blamed, [p \in Paths |-> 0])
      BY <1>6 DEF Ranked
    <2> QED BY <2>1, <2>2 DEF RankInv
  <1>9. PcInv /\ PhaseInv /\ InjectedInv /\ SortInv
    BY <1>1, <1>2 DEF PcInv, PhaseInv, InjectedInv, SortInv
  <1>10. WantedInv /\ OrderInv
    BY <1>2 DEF WantedInv, OrderInv, InOrder, IsInjective, ToSet
  <1>11. StartInv /\ ~InSession
    BY DEF StartInv, Starting, InSession
  <1>12. ProcessedInv /\ SettledInv /\ CleanInv /\ GoodInv /\ BoundInv /\ AgreeInv /\ AskedInv
    BY <1>11 DEF ProcessedInv, SettledInv, CleanInv, GoodInv, BoundInv, AgreeInv, AskedInv
  <1>13. InitAfterImports /\ FailedForCause
    BY DEF InitAfterImports, FailedForCause, IsInjective, ToSet
  <1> QED BY <1>4, <1>5, <1>7, <1>8, <1>9, <1>10, <1>11, <1>12, <1>13
      DEF LoaderKnown, LoaderInv, SessionInv

\* Nothing happens.
LEMMA StutterKeeps ==
  ASSUME SessionInv, UNCHANGED vars
  PROVE  SessionInv'
  <1>1. \A p, q : Reaches(p, q)' <=> Reaches(p, q)
    BY DEF Reaches, vars, loaderVars
  <1> QED BY <1>1 DEF vars, loaderVars, turn, session, SessionInv, StartInv, Starting, ProcessedInv,
      InSession, SettledInv, Pending, Loaded, CleanInv, GoodInv, Good, BoundInv, AgreeInv, AskedInv,
      InitAfterImports, FailedForCause

\* Any step of the session.
LEMMA SessionKeeps ==
  ASSUME LoaderKnown, SessionInv, [Next]_vars
  PROVE  SessionInv'
  <1>1. CASE LoaderSteps
    BY <1>1, LoaderStepsKeep
  <1>2. CASE StartInit \/ StartPackage \/ StartRefused \/ StartSession
    BY <1>2, StartInitKeeps, StartPackageKeeps, StartRefusedKeeps, StartSessionKeeps
  <1>3. CASE Imported \/ CheckPackage \/ Checked \/ LowerPackage \/ Lowered
    BY <1>3, ImportedKeeps, CheckPackageKeeps, LowerPackageKeeps, PhasesKeep
  <1>4. CASE InitPackage \/ Initialized \/ Bind
    BY <1>4, InitPackageKeeps, BindKeeps, PhasesKeep
  <1>5. CASE UNCHANGED vars
    BY <1>5, StutterKeeps
  <1> QED BY <1>1, <1>2, <1>3, <1>4, <1>5 DEF Next, Process, User, LoaderSteps

(***************************************************************************)
(* The theorems.                                                           *)
(***************************************************************************)

\* The inductive invariant of the loader and the session.
ReplInv == LoaderKnown /\ SortInv /\ SessionInv

\* It holds of every state the loader and the session reach.
THEOREM ReplInvHolds == Spec => []ReplInv
  <1>1. Init => ReplInv
    BY InitHolds DEF ReplInv
  <1>2. ReplInv /\ [Next]_vars => ReplInv'
    <2> SUFFICES ASSUME ReplInv, [Next]_vars
                 PROVE  ReplInv'
      OBVIOUS
    <2>1. /\ LoaderKnown /\ SortInv /\ SessionInv
          /\ LoaderInv /\ PcInv /\ PhaseInv /\ WantedInv /\ OrderInv /\ InjectedInv /\ SessionTypeOK
          /\ LoaderTypeOK /\ StacksLoaded /\ CleanInv /\ StartInv
      BY DEF ReplInv, LoaderKnown, LoaderInv, SessionInv
    <2>2. LoaderMoves
      BY <2>1, NextMoves
    <2>3. LoaderInv' /\ PcInv' /\ PhaseInv'
      BY <2>1, <2>2, LoaderKeeps, PcKeeps, PhaseKeeps
    <2>4. WantedInv' /\ SortInv' /\ OrderInv' /\ InjectedInv'
      BY <2>1, <2>2, WantedKeeps, SortKeeps, OrderKeeps, InjectedKeeps
    <2>5. SessionTypeOK'
      BY <2>1, SessionTypesStep
    <2>6. SessionInv'
      BY <2>1, SessionKeeps
    <2> QED BY <2>3, <2>4, <2>5, <2>6 DEF ReplInv, LoaderKnown
  <1> QED BY <1>1, <1>2, PTL DEF Spec

\* The loader's order lists every package once, after what it imports, and the
\* implicit dependencies before every package none of them needs.
THEOREM LoadOrderHolds == Spec => []LoadOrderSound
  <1>1. ReplInv => LoadOrderSound
    BY OrderIsSound DEF ReplInv, LoaderKnown
  <1> QED BY <1>1, ReplInvHolds, PTL

\* The loader reports an import cycle exactly when there is one.
THEOREM CyclesHold == Spec => []CyclesExact
  <1>1. ReplInv => CyclesExact
    BY CyclesFound DEF ReplInv, LoaderKnown
  <1> QED BY <1>1, ReplInvHolds, PTL

\* Packages are initialized once each, after what they import, and fail for a cause.
THEOREM PackagesHold == Spec => []PackagesSound
  <1>1. ReplInv => PackagesSound
    BY TypeParts DEF ReplInv, LoaderKnown, LoaderInv, SessionInv, PackagesSound
  <1> QED BY <1>1, ReplInvHolds, PTL

\* What a bound name reaches has code: the packages that have it are closed under
\* imports, so they hold all that is reached from one of them.
LEMMA BoundIsReady ==
  ASSUME LoaderKnown, SessionInv
  PROVE  BoundReady
  <1> SUFFICES ASSUME phase \in {"prompt", "load"}, NEW a \in Names, chkName[a] # NoPath,
                      NEW p \in Paths, p = chkName[a] \/ Reaches(chkName[a], p)
               PROVE  p \in Good
    BY DEF BoundReady, Good
  <1>1. chkName[a] \in Good /\ \A q \in Good : ToSet(imports[q]) \subseteq Good
    BY DEF SessionInv, BoundInv, GoodInv, InSession
  <1>2. Good \in SUBSET Paths
    BY DEF Good, LoaderKnown, SessionTypeOK
  <1>3. CASE Reaches(chkName[a], p)
    <2>1. \A r \in (Good \cup {chkName[a]}) \cap DOMAIN imports : ToSet(imports[r]) \subseteq Good
      BY <1>1
    <2> QED BY <1>2, <1>3, <2>1 DEF Reaches, Reachable
  <1> QED BY <1>1, <1>3

\* A name is bound to code that exists, and by the checker and IR-gen alike.
THEOREM BindingsHold == Spec => []BindingsSound
  <1>1. ReplInv => BindingsSound
    <2> SUFFICES ASSUME ReplInv
                 PROVE  BoundReady /\ NamesAgreeBeforeErrors
      BY DEF BindingsSound
    <2>1. LoaderKnown /\ SessionInv
      BY DEF ReplInv
    <2>2. BoundReady
      BY <2>1, BoundIsReady
    <2>3. NamesAgreeBeforeErrors
      BY <2>1 DEF SessionInv, AgreeInv, AskedInv, NamesAgreeBeforeErrors
    <2> QED BY <2>2, <2>3
  <1> QED BY <1>1, ReplInvHolds, PTL
==============================================================================
