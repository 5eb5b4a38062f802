----------------------------- MODULE ReplImport -----------------------------
(***************************************************************************)
(* `import` at the REPL prompt (src/pkg/binate/repl): the session's one    *)
(* Loader (module Loader) is called again, what it newly loaded is type-   *)
(* checked, lowered and initialized, and the names imported are bound.     *)
(* Each of these may fail for a package; a failure stays in the session.   *)
(*                                                                         *)
(* One package is one step of each loop.  The outcomes of checking,        *)
(* lowering and running a package initializer are nondeterministic.        *)
(***************************************************************************)
EXTENDS Loader

CONSTANTS
  Injected,      \* packages the host injects: loaded, never lowered; they come with
                 \* the installation, and import none that is not injected
  ImplicitDeps,  \* the implicit dependencies, in the order NewKernel loads them
  RootImports,   \* what the main file may import
  AliasOf,       \* the name a package is imported under
  NoPath,        \* a name bound to nothing
  Specs,         \* what a prompt may import: sequences of Paths
  MaxImports     \* bound: prompt imports of a session

ASSUME SessionAssumption ==
  /\ Injected \subseteq Paths /\ ImplicitDeps \in Seq(Paths)
  /\ RootImports \cup Specs \subseteq Seq(Paths) /\ <<>> \notin Specs
  /\ DOMAIN AliasOf = Paths /\ NoPath \notin Paths
  /\ MaxImports \in Nat
  /\ \A d \in Disks, p \in Injected : d[p] # Fail => ToSet(d[p]) \subseteq Injected

VARIABLES
  phase,        \* "startup", "start", "prompt", "load", "check", "lower", "init",
                \* "bind", or "refused": NewKernel returned no session
  started,      \* NewKernel's loader calls made
  turns,        \* prompt imports made
  asked,        \* specs: the paths of the import, at startup the main file's
  errsBefore,   \* preLoadErrs
  at,           \* the index of the running loop
  clean,        \* cleanPaths
  interrupted,  \* Vm.Status is SUSPENDED or BROKE
  processed,    \* ProcessedPkgs
  failed,       \* FailedPkgs
  chkName,      \* the checker's name -> path
  irName,       \* IR-gen's, MainGc.Mod's import aliases
  ran,          \* history: the packages initialized, in order
  culprits      \* history: the packages that failed by themselves, or
                \* were not initialized because the turn was interrupted

turn    == <<started, turns, asked, errsBefore>>
session == <<processed, failed, chkName, irName, ran, culprits>>
vars    == <<loaderVars, phase, turn, at, clean, interrupted, session>>

Names == {AliasOf[p] : p \in Paths}
importsFailedPkg(p) == ToSet(imports[p]) \cap failed # {}
Fails(p)    == failed' = failed \cup {p}
Blame(p)    == culprits' = culprits \cup {p}
Phase(next) == phase' = next /\ at' = 1

\* The names with those of the paths asked for, among S, bound anew; of two under
\* one name the last wins
Rebound(name, S) ==
  [a \in Names |->
     LET I == {i \in DOMAIN asked : asked[i] \in S /\ AliasOf[asked[i]] = a}
     IN  IF I = {} THEN name[a] ELSE asked[CHOOSE i \in I : \A j \in I : j <= i]]

----------------------------------------------------------------------------
(* NewKernel                                                               *)

\* LoadRoot, then ensureRtLoaded and its like
StartLoad ==
  /\ phase = "startup" /\ pc = "idle" /\ started <= Len(ImplicitDeps)
  /\ started' = started + 1
  /\ IF started = 0
     THEN \E r \in RootImports :
            /\ asked' = r
            /\ IF r = <<>> THEN UNCHANGED loaderVars ELSE LoadImports(r)
     ELSE LoadImplicitDep(ImplicitDeps[started]) /\ UNCHANGED asked
  /\ UNCHANGED <<phase, turns, errsBefore, at, clean, interrupted, session>>

\* The initializers run once everything is loaded.
StartInit ==
  /\ phase = "startup" /\ pc = "idle" /\ started > Len(ImplicitDeps)
  /\ errors = <<>>
  /\ Phase("start")
  /\ UNCHANGED <<loaderVars, turn, clean, interrupted, session>>

StartPackage ==
  /\ phase = "start" /\ at <= Len(order)
  /\ at' = at + 1
  /\ ran' = IF order[at] \in Injected THEN ran ELSE Append(ran, order[at])
  /\ UNCHANGED <<loaderVars, phase, turn, clean, interrupted, processed, failed, chkName,
                 irName, culprits>>

\* Any error of loading, checking, lowering or initialization: no session
StartRefused ==
  /\ \/ phase = "startup" /\ pc = "idle" /\ started > Len(ImplicitDeps)
     \/ phase = "start"
  /\ phase' = "refused"
  /\ UNCHANGED <<loaderVars, turn, at, clean, interrupted, session>>

StartSession ==
  /\ phase = "start" /\ at > Len(order)
  /\ Phase("prompt")
  /\ processed' = ToSet(order)
  /\ chkName' = Rebound(chkName, Loaded) /\ irName' = Rebound(irName, Loaded)
  /\ UNCHANGED <<loaderVars, turn, clean, interrupted, failed, ran, culprits>>

----------------------------------------------------------------------------
(* importSpecs                                                             *)

\* A turn starts with Vm.Status CONTINUE
Import(s) ==
  /\ phase = "prompt" /\ turns < MaxImports
  /\ Phase("load")
  /\ turns' = turns + 1 /\ asked' = s /\ errsBefore' = Len(errors)
  /\ interrupted' = FALSE
  /\ LoadImports(s)
  /\ UNCHANGED <<started, clean, session>>

Imported ==
  /\ phase = "load" /\ pc = "idle"
  /\ Phase(IF Len(errors) > errsBefore THEN "prompt" ELSE "check")
  /\ clean' = <<>>
  /\ UNCHANGED <<loaderVars, turn, interrupted, session>>

CheckPackage ==
  /\ phase = "check" /\ at <= Len(order)
  /\ at' = at + 1
  /\ LET p == order[at] IN
     IF p \in processed
     THEN UNCHANGED <<clean, processed, failed, culprits>>
     ELSE /\ processed' = processed \cup {p}
          /\ \/ /\ ~importsFailedPkg(p)
                /\ clean' = IF p \in Injected THEN clean ELSE Append(clean, p)
                /\ UNCHANGED <<failed, culprits>>
             \/ /\ importsFailedPkg(p)
                /\ Fails(p) /\ UNCHANGED <<clean, culprits>>
             \/ Fails(p) /\ Blame(p) /\ UNCHANGED clean
  /\ UNCHANGED <<loaderVars, phase, turn, interrupted, chkName, irName, ran>>

Checked ==
  /\ phase = "check" /\ at > Len(order)
  /\ Phase("lower")
  /\ UNCHANGED <<loaderVars, turn, clean, interrupted, session>>

LowerPackage ==
  /\ phase = "lower" /\ at <= Len(clean)
  /\ at' = at + 1
  /\ LET p == clean[at] IN
       \/ ~importsFailedPkg(p) /\ UNCHANGED <<failed, culprits>>
       \/ importsFailedPkg(p) /\ Fails(p) /\ UNCHANGED culprits
       \/ ~importsFailedPkg(p) /\ Fails(p) /\ Blame(p)
  /\ UNCHANGED <<loaderVars, phase, turn, clean, interrupted, processed, chkName, irName, ran>>

Lowered ==
  /\ phase = "lower" /\ at > Len(clean)
  /\ Phase("init")
  /\ UNCHANGED <<loaderVars, turn, clean, interrupted, session>>

\* Mutants: a package runs although an import of it failed; the loop waits once an
\* initializer was interrupted.
InitPackageUnguarded ==
  /\ phase = "init" /\ at <= Len(clean)
  /\ at' = at + 1
  /\ LET p == clean[at] IN
       \/ p \in failed /\ UNCHANGED <<interrupted, failed, ran, culprits>>
       \/ /\ p \notin failed /\ interrupted
          /\ Fails(p) /\ Blame(p) /\ UNCHANGED <<interrupted, ran>>
       \/ /\ p \notin failed /\ ~interrupted
          /\ \/ ran' = Append(ran, p) /\ UNCHANGED <<interrupted, failed, culprits>>
             \/ Fails(p) /\ Blame(p) /\ interrupted' \in BOOLEAN /\ UNCHANGED ran
  /\ UNCHANGED <<loaderVars, phase, turn, clean, processed, chkName, irName>>

InitPackageStops ==
  /\ phase = "init" /\ at <= Len(clean)
  /\ at' = at + 1
  /\ LET p == clean[at] IN
       \/ p \in failed /\ UNCHANGED <<interrupted, failed, ran, culprits>>
       \/ /\ p \notin failed /\ ~interrupted /\ importsFailedPkg(p)
          /\ Fails(p) /\ UNCHANGED <<interrupted, ran, culprits>>
       \/ /\ p \notin failed /\ ~interrupted /\ ~importsFailedPkg(p)
          /\ \/ ran' = Append(ran, p) /\ UNCHANGED <<interrupted, failed, culprits>>
             \/ Fails(p) /\ Blame(p) /\ interrupted' \in BOOLEAN /\ UNCHANGED ran
  /\ UNCHANGED <<loaderVars, phase, turn, clean, processed, chkName, irName>>

\* runPackageInit: the initializer completes, faults (the status is cleared) or is
\* interrupted (the turn runs no more code)
InitPackage ==
  /\ phase = "init" /\ at <= Len(clean)
  /\ at' = at + 1
  /\ LET p == clean[at] IN
       \/ p \in failed /\ UNCHANGED <<interrupted, failed, ran, culprits>>
       \/ /\ p \notin failed /\ interrupted
          /\ Fails(p) /\ Blame(p) /\ UNCHANGED <<interrupted, ran>>
       \/ /\ p \notin failed /\ ~interrupted /\ importsFailedPkg(p)
          /\ Fails(p) /\ UNCHANGED <<interrupted, ran, culprits>>
       \/ /\ p \notin failed /\ ~interrupted /\ ~importsFailedPkg(p)
          /\ \/ ran' = Append(ran, p) /\ UNCHANGED <<interrupted, failed, culprits>>
             \/ Fails(p) /\ Blame(p) /\ interrupted' \in BOOLEAN /\ UNCHANGED ran
  /\ UNCHANGED <<loaderVars, phase, turn, clean, processed, chkName, irName>>

Initialized ==
  /\ phase = "init" /\ at > Len(clean)
  /\ Phase("bind")
  /\ UNCHANGED <<loaderVars, turn, clean, interrupted, session>>

\* RebindImportPath for each path that collectPkgFile finds
RegisterAliases(S) == Rebound(irName, S)

\* Mutant: the checker binds a failed package.
BindFailed ==
  /\ phase = "bind"
  /\ Phase("prompt")
  /\ irName' = RegisterAliases(Loaded \ failed)
  /\ chkName' = Rebound(chkName, processed)
  /\ UNCHANGED <<loaderVars, turn, clean, interrupted, processed, failed, ran, culprits>>

\* The end of importSpecs: IR-gen's names, then the checker's (RegisterReplImport:
\* a package the checker knows)
Bind ==
  /\ phase = "bind"
  /\ Phase("prompt")
  /\ irName' = RegisterAliases(Loaded \ failed)
  /\ chkName' = Rebound(chkName, processed \ failed)
  /\ UNCHANGED <<loaderVars, turn, clean, interrupted, processed, failed, ran, culprits>>

----------------------------------------------------------------------------
Init ==
  /\ NewLoader
  /\ phase = "startup" /\ started = 0 /\ turns = 0 /\ asked = <<>> /\ errsBefore = 0
  /\ at = 1 /\ clean = <<>> /\ interrupted = FALSE
  /\ processed = {} /\ failed = {} /\ ran = <<>> /\ culprits = {}
  /\ chkName = [a \in Names |-> NoPath] /\ irName = chkName

\* The session's own steps
Process ==
  \/ StartLoad \/ StartInit \/ StartPackage \/ StartSession \/ StartRefused
  \/ Imported \/ CheckPackage \/ Checked \/ LowerPackage \/ Lowered
  \/ InitPackage \/ Initialized \/ Bind
  \/ (Load \/ Sort) /\ UNCHANGED <<phase, turn, at, clean, interrupted, session>>

User ==
  \/ \E s \in Specs : Import(s)
  \/ /\ phase = "prompt"
     /\ \E p \in Paths \ Injected, c \in Contents : EditFiles(p, c)
     /\ UNCHANGED <<phase, turn, at, clean, interrupted, session>>

Next == Process \/ User

Spec == Init /\ [][Next]_vars
\* Nothing waits inside a turn: each loop runs on
FairSpec == Spec /\ WF_vars(Process)

----------------------------------------------------------------------------
(* Properties                                                              *)

\* Every variable holds a value of its type.
TypeOK ==
  /\ disk \in [Paths -> Contents] /\ edits \in Nat
  /\ packages \in Seq(Paths) /\ DOMAIN imports = Loaded
  /\ \A p \in Loaded : imports[p] \in Seq(Paths)
  /\ {implicit, order, todo, sorted, asked, clean, ran} \subseteq Seq(Paths)
  /\ errors \in Seq({"cycle", "load"} \X Paths)
  /\ {loading, visiting} \subseteq Seq([pkg : Paths, next : Nat \ {0}])
  /\ pc \in {"idle", "load", "sort"}
  /\ phase \in {"startup", "start", "prompt", "load", "check", "lower", "init", "bind",
                "refused"}
  /\ {started, turns, errsBefore, at} \subseteq Nat /\ interrupted \in BOOLEAN
  /\ visited \cup processed \cup failed \cup culprits \subseteq Paths
  /\ {chkName, irName} \subseteq [Names -> Paths \cup {NoPath}]

\* Over the whole session a package is initialized at most once, and only after
\* everything it imports has been, in this turn or an earlier one
\* (pkg_init.bn:8-11, mid_session_import.bn:144-149).
InitAfterImports ==
  /\ IsInjective(ran)
  /\ \A p \in ToSet(ran) : \A q \in ToSet(imports[p]) \ Injected : Before(ran, q, p)

\* A name that type-checks leads to code that exists: what it is bound to, and
\* everything that reaches, has not failed and is injected or initialized
\* (session.bn:63-69, mid_session_import.bn:238-244).
BoundReady ==
  phase \in {"prompt", "load"} =>
    \A a \in Names : chkName[a] # NoPath =>
      \A p \in Paths : p = chkName[a] \/ Reaches(chkName[a], p) =>
        /\ p \in processed \ failed
        /\ p \in Injected \/ p \in ToSet(ran)

\* A failure spreads to the importers of what failed and no further: the other
\* packages of an import are imported (mid_session_import.bn:29-31, repl-pkg-var-init.sh:9-12).
FailedForCause ==
  \A p \in failed : \E q \in culprits : p = q \/ Reaches(p, q)

\* The packages of the session: initialized in order, failed for a reason.
PackagesSound == TypeOK /\ InitAfterImports /\ FailedForCause

\* IR-gen takes a name that type-checks for the package the checker took it for
\* (mid_session_import.bn:213-216, gen_import.bn:103-106).
NamesAgree ==
  phase = "prompt" => \A a \in Names : chkName[a] # NoPath => irName[a] = chkName[a]

\* They do until a load fails, and every package asked for and not failed is bound.
NamesAgreeBeforeErrors ==
  phase = "prompt" /\ errors = <<>> =>
    /\ chkName = irName
    /\ \A i \in DOMAIN asked : asked[i] \notin failed =>
         \E j \in DOMAIN asked :
           AliasOf[asked[j]] = AliasOf[asked[i]] /\ chkName[AliasOf[asked[i]]] = asked[j]

\* The names of the session: bound to code that exists, by both sides alike.
BindingsSound == BoundReady /\ NamesAgreeBeforeErrors

\* A turn ends, cyclic imports or not.
TurnEnds == phase = "load" ~> phase = "prompt"
=============================================================================
