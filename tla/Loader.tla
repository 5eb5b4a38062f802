------------------------------- MODULE Loader -------------------------------
(***************************************************************************)
(* The package loader (src/pkg/binate/loader): it reads a package and,     *)
(* recursively, what it imports, and orders what is loaded by dependency.  *)
(*                                                                         *)
(* The files of a package are abstracted to what reading them yields: the  *)
(* sequence of packages they import or expose, or Fail (an invalid path, a *)
(* parse error, a bad build constraint, or no file).  One loader serves    *)
(* many calls; the files may be edited between two calls.  The recursions  *)
(* of loadPackage and of visit are a stack each, one step per import.      *)
(***************************************************************************)
EXTENDS Integers, FiniteSets, SequencesExt

CONSTANTS
  Paths,     \* package paths
  Contents,  \* what reading a package's files may yield: sequences of Paths
  Fail,      \* or this
  Disks,     \* the initial files to consider: path -> Contents or Fail
  MaxEdits   \* bound: edits of the files

ASSUME LoaderAssumption ==
  /\ \A c \in Contents : c = Fail \/ c \in Seq(Paths)
  /\ Disks \subseteq [Paths -> Contents]
  /\ MaxEdits \in Nat

VARIABLES
  disk,      \* the files, as above
  edits,     \* how often they were edited
  packages,  \* l.Packages: the paths loaded, in order
  imports,   \* path loaded -> its Imports
  implicit,  \* l.ImplicitDeps
  order,     \* l.Order
  errors,    \* l.Errors, as pairs of a kind and the path it names
  todo,      \* the paths the running call has still to look at
  loading,   \* l.loadingStack, each with the number of the import looked at next
  visiting,  \* visit's recursion, the same way
  visited,   \* computeOrder's visited
  sorted,    \* computeOrder's order so far
  pc         \* "idle", "load" or "sort"

sorting    == <<visiting, visited, sorted>>
loaderVars == <<disk, edits, packages, imports, implicit, order, errors, todo,
                loading, sorting, pc>>

Frame(p) == [pkg |-> p, next |-> 1]
Looked(stack) == [stack EXCEPT ![Len(stack)].next = @ + 1]

Loaded == ToSet(packages)
isLoading(stack, p) == \E i \in DOMAIN stack : stack[i].pkg = p
\* The import the innermost frame looks at, and whether there is one left.
NextImport(stack) == imports[Last(stack).pkg][Last(stack).next]
Exhausted(stack)  == Last(stack).next > Len(imports[Last(stack).pkg])

----------------------------------------------------------------------------
(* Loading                                                                 *)

\* loadPackage(p) up to its loop over the imports: p is registered before they
\* are loaded.
loadPackage(stack, p) ==
  IF isLoading(stack, p)
  THEN /\ errors' = Append(errors, <<"cycle", p>>) /\ loading' = stack
       /\ UNCHANGED <<packages, imports>>
  ELSE IF disk[p] = Fail
  THEN /\ errors' = Append(errors, <<"load", p>>) /\ loading' = stack
       /\ UNCHANGED <<packages, imports>>
  ELSE /\ packages' = Append(packages, p)
       /\ imports' = [q \in Loaded \cup {p} |-> IF q = p THEN disk[p] ELSE imports[q]]
       /\ loading' = Append(stack, Frame(p))
       /\ UNCHANGED errors

\* LoadImports(specs)
LoadImports(specs) ==
  /\ pc = "idle" /\ specs # <<>>
  /\ pc' = "load" /\ todo' = specs
  /\ UNCHANGED <<disk, edits, packages, imports, implicit, order, errors, loading, sorting>>

\* LoadImplicitDep(p): recorded even when it is loaded already
LoadImplicitDep(p) ==
  /\ pc = "idle"
  /\ pc' = "load" /\ todo' = <<p>>
  /\ implicit' = IF p \in ToSet(implicit) THEN implicit ELSE Append(implicit, p)
  /\ UNCHANGED <<disk, edits, packages, imports, order, errors, loading, sorting>>

\* The next path of the call
LoadNext ==
  /\ pc = "load" /\ loading = <<>> /\ todo # <<>>
  /\ todo' = Tail(todo)
  /\ IF Head(todo) \in Loaded
     THEN UNCHANGED <<packages, imports, errors, loading>>
     ELSE loadPackage(<<>>, Head(todo))
  /\ UNCHANGED <<disk, edits, implicit, order, sorting, pc>>

\* Mutant: a package loaded already is skipped before the cycle check.
LoadDependencyDedupFirst ==
  /\ pc = "load" /\ loading # <<>> /\ ~Exhausted(loading)
  /\ IF NextImport(loading) \in Loaded
     THEN loading' = Looked(loading) /\ UNCHANGED <<packages, imports, errors>>
     ELSE loadPackage(Looked(loading), NextImport(loading))
  /\ UNCHANGED <<disk, edits, implicit, order, todo, sorting, pc>>

\* One import of the package being loaded: a cycle is reported here, before a
\* package loaded already is skipped.
LoadDependency ==
  /\ pc = "load" /\ loading # <<>> /\ ~Exhausted(loading)
  /\ LET p == NextImport(loading) IN
     IF isLoading(loading, p)
     THEN /\ errors' = Append(errors, <<"cycle", p>>)
          /\ loading' = Looked(loading)
          /\ UNCHANGED <<packages, imports>>
     ELSE IF p \in Loaded
     THEN loading' = Looked(loading) /\ UNCHANGED <<packages, imports, errors>>
     ELSE loadPackage(Looked(loading), p)
  /\ UNCHANGED <<disk, edits, implicit, order, todo, sorting, pc>>

\* loadPackage's end: popLoading
popLoading ==
  /\ pc = "load" /\ loading # <<>> /\ Exhausted(loading)
  /\ loading' = Front(loading)
  /\ UNCHANGED <<disk, edits, packages, imports, implicit, order, errors, todo, sorting, pc>>

\* Mutant: the implicit dependencies are ordered like any package.
LoadsImplicitAnywhere ==
  /\ pc = "load" /\ loading = <<>> /\ todo = <<>>
  /\ IF errors = <<>> /\ packages # <<>>
     THEN /\ pc' = "sort" /\ todo' = packages
          /\ visited' = {} /\ sorted' = <<>>
     ELSE pc' = "idle" /\ UNCHANGED <<todo, visited, sorted>>
  /\ UNCHANGED <<disk, edits, packages, imports, implicit, order, errors, loading, visiting>>

\* The call's end: the order is computed only if no error was ever recorded
Loads ==
  /\ pc = "load" /\ loading = <<>> /\ todo = <<>>
  /\ IF errors = <<>> /\ packages # <<>>
     THEN /\ pc' = "sort" /\ todo' = implicit \o packages
          /\ visited' = {} /\ sorted' = <<>>
     ELSE pc' = "idle" /\ UNCHANGED <<todo, visited, sorted>>
  /\ UNCHANGED <<disk, edits, packages, imports, implicit, order, errors, loading, visiting>>

----------------------------------------------------------------------------
(* Ordering: computeOrder and visit                                        *)

visit(stack, p) ==
  IF p \in visited
  THEN visiting' = stack /\ UNCHANGED visited
  ELSE /\ visited' = visited \cup {p}
       /\ visiting' = IF p \in Loaded THEN Append(stack, Frame(p)) ELSE stack

VisitRoot ==
  /\ pc = "sort" /\ visiting = <<>> /\ todo # <<>>
  /\ todo' = Tail(todo)
  /\ visit(<<>>, Head(todo))
  /\ UNCHANGED <<disk, edits, packages, imports, implicit, order, errors, loading, sorted, pc>>

VisitImport ==
  /\ pc = "sort" /\ visiting # <<>> /\ ~Exhausted(visiting)
  /\ visit(Looked(visiting), NextImport(visiting))
  /\ UNCHANGED <<disk, edits, packages, imports, implicit, order, errors, todo, loading,
                 sorted, pc>>

VisitEnd ==
  /\ pc = "sort" /\ visiting # <<>> /\ Exhausted(visiting)
  /\ sorted' = Append(sorted, Last(visiting).pkg)
  /\ visiting' = Front(visiting)
  /\ UNCHANGED <<disk, edits, packages, imports, implicit, order, errors, todo, loading,
                 visited, pc>>

Sorted ==
  /\ pc = "sort" /\ visiting = <<>> /\ todo = <<>>
  /\ order' = sorted
  /\ pc' = "idle" /\ visited' = {} /\ sorted' = <<>>
  /\ UNCHANGED <<disk, edits, packages, imports, implicit, errors, todo, loading, visiting>>

\* The user edits the files of p.  Those of a loaded package are never read again.
EditFiles(p, c) ==
  /\ pc = "idle" /\ edits < MaxEdits /\ p \notin Loaded /\ disk[p] # c
  /\ disk' = [disk EXCEPT ![p] = c] /\ edits' = edits + 1
  /\ UNCHANGED <<packages, imports, implicit, order, errors, todo, loading, sorting, pc>>

NewLoader ==
  /\ disk \in Disks /\ edits = 0
  /\ packages = <<>> /\ imports = [p \in {} |-> <<>>]
  /\ implicit = <<>> /\ order = <<>> /\ errors = <<>>
  /\ todo = <<>> /\ loading = <<>> /\ visiting = <<>> /\ visited = {} /\ sorted = <<>>
  /\ pc = "idle"

\* What a call does on its own
Load == LoadNext \/ LoadDependency \/ popLoading \/ Loads
Sort == VisitRoot \/ VisitImport \/ VisitEnd \/ Sorted

----------------------------------------------------------------------------
(* Properties                                                              *)

\* p reaches q by one import or more of packages loaded, im being their imports:
\* q is in every set with the imports of p that is closed under imports.
Reachable(im, p, q) ==
  \A S \in SUBSET Paths :
    (\A r \in (S \cup {p}) \cap DOMAIN im : ToSet(im[r]) \subseteq S) => q \in S
Reaches(p, q) == Reachable(imports, p, q)

Before(s, p, q) == \E i, j \in DOMAIN s : i < j /\ s[i] = p /\ s[j] = q

\* When a call ends without an error, the order lists every loaded package once,
\* each after everything it imports, and each implicit dependency, after its own
\* dependencies, before every other package (loader.bni:1-2, 74-79).
LoadOrderSound ==
  pc = "idle" /\ errors = <<>> =>
    /\ ToSet(order) = Loaded /\ IsInjective(order) /\ IsInjective(packages)
    /\ \A p \in Loaded : \A q \in ToSet(imports[p]) : Before(order, q, p)
    /\ \A d \in ToSet(implicit), p \in Loaded :
         \/ Before(order, d, p)
         \/ \E e \in ToSet(implicit) : p = e \/ Reaches(e, p)

\* An import cycle is reported exactly when there is one: never for a package
\* that is merely imported twice, and every cycle among the packages loaded has an
\* error of one of its packages.  (That error is a failure to load, not a cycle,
\* if the files were mended once the other packages of the cycle were loaded.)
CyclesExact ==
  /\ \A e \in ToSet(errors) : e[1] = "cycle" => Reaches(e[2], e[2])
  /\ pc = "idle" =>
       \A p \in Loaded : Reaches(p, p) =>
         \E e \in ToSet(errors) : Reaches(e[2], p) /\ Reaches(p, e[2])
=============================================================================
