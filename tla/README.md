# A TLA+ project for Binate

This directory specifies, model-checks and proves parts of the Binate toolchain
(`src/`): the self-hosted compiler `bnc`, bytecode interpreter and REPL `bni`,
assembler, linker, linter and formatter, the runtime and standard library they
compile against, and the Python tools the team judges them with. The modules
model the parts that keep state across calls and whose bugs are the hardest to
test: the bare-metal allocator, the recovery of faults in the VM, the engine of
the hash containers, the package loader and the imports of the REPL; and, of the
tools, the placement A/B experiment with its layout checker and its statistics,
and the generators of the conformance matrices.

All paths below are relative to `src/`. `RT` stands for
`impls/core/common/pkg/builtins/rt`, `VM` for `pkg/binate/vm`, `PL` for
`perf/placement`, `CF` for `conformance`.

## 1. The system

### 1.1 Components

| Component | State it keeps | Operations | Works with | What is hard |
|---|---|---|---|---|
| **Raw allocator** (`RT/rt_baremetal.bn`) | the arena's words (header and footer tags, list links in dead payloads), `smallHeads`, `largeHead`, `frontier`, `liveBlocks` | `RawAlloc`, `RawAllocZero`, `RawFree` | called by `rt_managed.bn` and by the VM's allocations on bare-metal targets; callers write their payloads between calls | tags and links are plain words among caller data and are never cleared; correctness depends on every order of calls |
| **Managed memory** (`RT/rt_managed.bn`) | a refcount and a free function in front of each payload | `Alloc`, `RefInc`, `RefDec`, `Free` | generated code, VM, destructors | destructors recurse through `RefDec` |
| **Satisfaction registry** (`RT/rt_satregistry.bn`) | one open-addressing table | `BuildSatRegistry`, `SatLookup` | compiled programs' start-up, type assertions | a cyclic graph of fragments; probes without a bound |
| **VM execution and faults** (`VM/vm*.bn`) | the VM stack, `SP`, `Status`, `FaultMsg`, `FaultRaised`, `CleanupDepth`; refcounts of the values in frames | host calls (`CallFunc`, ...), the dispatch loop, cleanup pads, trampolines, polls | compiled code calls back into the VM while a dispatch loop is suspended; the host polls | nested unwinding, destructors in cleanup, stack overflow, one status word written by several parties |
| **VM lowering** (`VM/lower*.bn`) | bytecode, slot maps | `LowerModule`, `LowerOneFunc`, ... | irgen, REPL | data, little control |
| **Hash containers** (`ifaces/stdlib/pkg/std/containers/table.bni` and its wrappers) | `keys`, `vals`, `used`, `cap`, `count`; cursors | `Put`, `GetOrPut`, `Get`, `Remove`, `Iter`/`Next` | linker, checker, user programs | backward shift over the wrap-around, stale slots after growth, cursors over a changing table |
| **Package loader** (`pkg/binate/loader`) | `Packages`, `Order`, `Errors`, `ImplicitDeps`, the loading stack | `LoadImports`, `LoadImplicitDep` | every driver once; the REPL once per import | cycles against deduplication, errors that stay |
| **REPL imports** (`pkg/binate/repl/mid_session_import.bn`, `pkg_init.bn`, `session.bn`) | `FailedPkgs`, what the checker knows, the names of the checker and of IR-gen, what ran | `NewKernel`, `importSpecs` | loader, checker, irgen, VM | six phases over several packages, each of which may fail for some of them, in a session that goes on |
| **REPL declarations** (`decl*.bn`, `eval.bn`, `step.bn`) | scopes, parked declarations, shadowed names, turns | entries, retries, undo | checker, irgen, VM | partial failure of a group, undo across three components |
| **Type checker** (`pkg/binate/check`) | scopes and errors; between prompts, its packages | check a package, an entry | all | large pure analysis |
| **IR generation, building, optimization** (`irgen`, `irbuild`, `iropt`) | one module at a time | | checker, backends | pure translation |
| **Code generators, assemblers** (`codegen`, `native`, `asm`) | one module at a time | | | encodings |
| **Linker** (`pkg/binate/link`) | objects, archives, symbols, layout | select, resolve, lay out, relocate, write | `bnld`, `bnc` | a fixpoint over archives; strength of definitions |
| **Lexer, parser, formatter, linter** | none between files | | | pure |
| **Standard library** (other than containers) | none, or system handles | | | system calls |
| **Subprocesses** (`impls/stdlib/pkg/std/os/process`) | none | `Run` | fork, exec, wait | one call each |
| **Drivers** (`cmd/*`, `drivers`, `scripts`) | none | pipelines | | arguments |
| **A/B experiment** (`PL/ab*.py`, `schedule.py`, `runner.py`) | a work directory: `meta.json`, binaries, `builds.tsv`, `samples.tsv`, `samples.dropped.tsv`, reference outputs | `run`, `--resume`, Ctrl-C | compilers in a thread pool, the layout checker, the statistics | sessions cut short anywhere and resumed; what is on disk against what is in memory |
| **Placement and its checker** (`PL/placehash.py`, `layout*.py`) | none; builds and their linked text | seed, probe, `--expect-seed` | backends, `lld`, the A/B driver | inferring from bytes what the formulas and the linker did |
| **Loop reports** (`PL/layout_span.py`, `layout_loops.py`) | none | `--loops` | the disassembler | NOPs, padding, filler; a fixpoint over any graph |
| **Statistics** (`PL/stats*.py`) | none | `stats.py` | the samples | ties, thresholds, arms that lack something |
| **Conformance generators** (`CF/gen-*.py`) | the generated files | check, `--write` | `CF/run.sh`, every backend | the oracle must be right, and the cells must see what they are for |
| **Other scripts** (`scripts/bnfmt-check`, `scripts/bnas-sweep`, `perf/*.py`) | none | | external tools | |

The compiler and its libraries are single-threaded. Their concurrency is that of
control passing back and forth: callers and an allocator, a host and its VM, a VM
and the compiled code that re-enters it, a session and its user who edits files
between turns. The A/B driver has real concurrency, threads and compilers and a
signal, and a disk that survives it.

### 1.2 What makes each of them correct

* *Allocator*: what it hands out is nobody else's, keeps what its owner stored,
  is zero when asked for; nothing freed is lost; free neighbours are always one
  block; requests end.
* *VM faults*: a fault reaches the host exactly once and is not taken for a
  result; everything the abandoned frames held is released exactly once; a
  fault while cleaning up is fatal, and only that; the stack is never overrun.
* *Containers*: the table is a finite map, through collisions, growth and
  removal; cursors return each entry once.
* *Loader*: the order puts every package after what it imports and after the
  implicit dependencies; a cycle is always reported and nothing else is.
* *REPL imports*: no code runs or is named before what it depends on has been
  initialized; a failure fails exactly what depends on it, for the rest of the
  session; the checker and IR-gen agree on every name.
* *A/B experiment*: what is timed is what was recorded as built and accepted; rounds
  are whole and balanced; no sample is lost, but in a log whose trimming is cut
  short; an interrupted experiment can be
  resumed to success, and an interrupt is not reported as a failure.
* *Placement checker*: it accepts every build that follows the formulas and rejects
  one whose filler is wrong; a probe moves its function and nothing else.
* *Loop reports*: the graph is what the processor can follow; dominators are
  exact; loops nest.
* *Statistics*: an arm is rejected as slower with the stated error rate; what is not
  eligible does not influence what is chosen.
* *Generators*: a conforming backend passes every cell on every target; a backend with the
  flaw a cell exists for fails it; the files judge by what the generator means.

`PROJECT.json` lists the hazards behind these, with the line of code each is
at and the properties that would show it going wrong. Hazards of the components
that have no module yet: parked REPL declarations retried in groups
(`repl/decl_retry.bn:293`), shadowed variables renamed in two components before the
declaration that shadows them is known to be good (`repl/decl_var.bn:167`), the unbounded
probe of the satisfaction table (`RT/rt_satregistry.bn:181`), extraction over archives
that refer to each other (`link/archive_select.bn:116`), destructors at a count of zero
(`RT/rt_managed.bn:158`), compiled destructors of VM objects (`VM/vm_exec_helpers.bn:338`).

## 2. The modules

```
RawHeap  <== TagCoalesce <-- MCTagCoalesce          A <-- B : B EXTENDS A
                         <-- TagCoalesceProofs --> LeastElements   A <== B : B implements A
VMFault  <-- MCVMFault
         <-- VMFaultProofs --> LeastElements
KeyedMap <== HashTable <-- MCHashTable
                       <-- HashTableProofs --> LeastElements
Loader   <-- ReplImport <-- MCReplImport
                        <-- ReplImportProofs --> LeastElements

Schedule, Experiment <== ABExperiment <-- MCABExperiment
                                      <-- ABExperimentProofs --> LeastElements
LayoutSpan <-- FlowGraph <-- FlowGraphProofs --> LeastElements
Placement, FlowGraph <-- MCLayout <---------------------------------------------+
TwosComplement <-- ScalarDiff, ScalarMatrix <-- ScalarCells <-+
RefcountCells, AbiCells, AssertCells, MoveCells <-------------+- Conformance <-+
                                                                 MatrixFiles <-+- MCTools
                                                                 Selection   <-+
                   Selection, MatrixFiles, Placement <-- ToolProofs --> LeastElements
```

### 2.1 TagCoalesce: the Raw allocator

A word of the arena is one unit (`PREFIX` = `FOOTER` = 1, sizes in words); a word
has a low and a high half, because a free block keeps its `next` and `prev`
links in the two halves of one word (`getNext`, `getPrev`). Nothing is ever
cleared: footers of vanished blocks, old links and the callers' data stay where
they are, and every test reads what the arena then holds.

| Code | Module |
|---|---|
| arena, heads, frontier, liveBlocks | `heap.lo`, `heap.hi`, `heap.head`, `frontier`, `liveBlocks` |
| `writeTags`, `sizeAt`, `isFree`, `insertFree`, `unlinkFree`, `splitServed` | operators of the same names |
| `RawAlloc` up to the pop or the start of the scan | the step that starts a request |
| `firstFitLarge` | one step per list node |
| the rest of `RawAlloc`, `carve`, `RawAllocZero`'s clearing | the step that serves |
| `RawFree` | one step: the allocator cannot be interrupted |
| callers' stores | a step that writes any `UserWords` word in a live payload |

`blocks` and `live` are auxiliary: the bases the arena is tiled with and what the
callers hold. The code reads neither. Sizes are compared as in the code before
they are added, so no value exceeds the arena; the int's width does not matter
to any path that survives the two checks of `RawAlloc`. `MemZero` clears bytes,
the model clears the words that hold them.

`RawHeap` is the promise: a memory whose every live region belongs to one
caller, holds what that caller last stored, and starts as zero when asked so.
`ImplementsRawHeap` maps the arena to it: a live payload's words are the abstract
contents, so an overlap, a lost write or a missed clearing breaks it.

### 2.2 VMFault: recoverable faults

The state is the VM's `SP`, `Status`, whether there is a `FaultMsg`,
`FaultRaised`, `CleanupDepth`, the stack of frames, and the managed heap those
frames refer to (refcounts, one managed field per block). Two variables record
history: `raised`, whether the host call had a fault, and `lost`, the blocks moved into
a frame that was dropped before it ran. A frame has its kind
(entry of an `execFunc`, VM call, destructor, release helper, or a compiled
callee), whether it is in its body, leaving, or in a pad, its slots, and what
`hdr[3]` (`SP`) and `hdr[5]` (`FreeOnPop`) hold.

A function body is any order of the operations that touch this state: allocate,
copy, grow the stack by a temporary, end a statement, jump back (a poll point),
fail a guard, call directly, through a value or a method, or to compiled code,
with or without a moved argument, and leave. Which sequence a program has is
thereby arbitrary. Releases run in slot order, in `RefDec`; a block that reaches
zero and has a field pushes a destructor frame. `UnwindReturn` is
`BC_UNWIND_RETURN` with its loop over pad-less frames. `Callback` is a
trampoline's nested `execFunc`, `NativeReturn` the return into the call arm that
asks `callFaultPending`. What "vmPanic" ends is `vm.abort`.

Not in the model: destructors in compiled code
(`refDecCrossModeDispatch`, the compiled-closure arm), the copying of aggregate
results, `OP_CALL_HANDLE`, the Resume fields of a suspended VM, `Shutdown`, a host
that enters a trampoline without a `CallFunc`. The `ASSUME` on the stack size
admits the entry frame of `__init_all`, so the overflow of a call from that
pad-less function does not arise.

Whether the host has armed a poll is chosen at the start (`vm.Poll`): the exact
properties hold of a VM without one, the weaker ones of both.

### 2.3 HashTable: the container engine

One step is one operation up to the loops that move entries; those, `grow`'s
re-insertion and `Remove`'s backward shift, are one step per slot, so that every
intermediate table is a state of its own. A probe is one step, since it changes nothing;
it is a set expression over the cyclic distance from the home slot, which has no
value if no slot is empty. The hash function is a variable chosen at the start
among `Hashers`. `KeyedMap` is the promise; during the loops the abstract map is
the one before or after the whole operation. `HashMap`, `Set`, `MapFn` and `SetFn` are
wrappers that choose the hash and the equality.

### 2.4 Loader and ReplImport: loading and the prompt's `import`

`Loader` has the code's two recursions as explicit stacks, one step per import:
`loadPackage` with the registration before the imports, the cycle test before the
deduplication, and `visit` for `computeOrder`. What reading a package finds (its
imports, or a failure of any kind) is `disk`, which the user may change between
turns for a package that is not loaded. Only `NewLoader` clears `errors`. `Reaches` is the
transitive closure of the imports, defined by the sets closed under them.

`ReplImport` extends it with the session: `StartLoad`, `StartInit`, `StartPackage` for each package
in order, then `StartSession`, or `StartRefused`, are `NewKernel`, and a turn is `Import` (`LoadImports`), then one step
per package of each loop of `importSpecs`: check, lower, initialize, and the
binding of names in IR-gen (`RebindImportPath`) and in the checker
(`RegisterReplImport`). Whether a package checks, lowers and initializes is
nondeterministic; an initializer may also be interrupted. `culprits` and `ran`
record history.

Abstracted: several parse errors of one package are one; the loading stack and
the recursion are one stack (they are pushed and popped together); the start-up
checks and lowers everything, or refuses, before it initializes anything; injected packages (loaded from
their interfaces alone, `pkg/binate/repl/session.bn:164-175`) import injected packages only, as those of the installation
do, and are not edited; a path always has the same alias;
the registration of signatures and generic bodies (`registerGenericBodyDeps`,
`RegisterSelfTypes`) is left out.

### 2.5 ABExperiment: the placement A/B driver

`Experiment` is the promise: rounds asked for only grow, a completed round stays
completed unless a loss took samples of it (`Lose`, which no session survives), success is
reported only when all are. `Schedule` is `schedule.py`: the Williams
rows and the order of every timed run. `ABExperiment` is the driver and its
directory.

| Code | Module |
|---|---|
| `ab.py`: `main`, `experiment`, resume and refusals | `Run`, `Resume`, `Open`, `ReadBuilds`, `Leave`; `Empty` is the user who empties the directory |
| `ab_build.py`: plan, pool, `_call`, `_reuse`, record, link, rewriting | `PlanBuilds`, `Claim`, `Spawn`, `Built`, `Killed`, `Record`, `Raised`, `LinkBuild`, `RewriteBuilds` |
| `abort_reasons` | `Rejected`, over the rows recorded so far |
| `ab_timed.py`: `split_rounds`, `references`, the timed rows | `SplitRounds`, `OpenDropped`, `DropRow`, `RewriteSamples`, `OpenReference`, `HaveReference`, `Timed` |
| `ab_store.py`: `TsvLog`, `_trim` of a torn last row | `torn`, `Garbled`; `_trim` is two steps, `Emptied` (the log is opened with "wb") and `Trim` (it is written back), split over `Open` and `ReadBuilds`, `SplitRounds` and `OpenDropped`, `OpenDropped` and `DropRow`; `unsynced` until the next fsync of the log; `headless` and `Refused` when the header went |
| SIGINT, which also reaches the compilers | `Interrupt`, `Terminate`, `Stopped`, `Interrupted` |
| loss of power | `Crash`: rows are fsynced, so at most the one being appended is cut short, but a log that `_trim` has opened and nothing flushed since may keep any number of its first lines (`Cut`), also after the session has ended; a binary is not fsynced, and the builds that share its file by a hard link are lost with it |

A binary is its contents, which stand for its hashes. What is wrong with the arms
(`flaw`) is chosen at the start: nothing, seed 0 that differs from no seed, a compiler that
fails, and more in `LayoutOk` and `Compiles`. One item is timed. `taken` and `lost` record
history: every sample appended, and the samples each cut of a log took.

Left out: the system waits (page cache, load), the covariates and the configuration's
syntax; `--aa same`, under which `abort_reasons` wants equal binaries (`PL/ab_build.py:239-242`), and `--aa salted`,
which gives each arm its own placement seed (112-118), so `Rejected` is the plain A/B's; the subprocess
that lists the compiler's search paths in a worker (163-174, 342), which a Ctrl-C may also end; a Ctrl-C
between the write and the fsync of a row, which has the effect of one after it unless power is
lost next; and a loss of power that takes back `meta.json`, which `write_json` replaces
without an fsync: the model's is durable at once.

### 2.6 Placement: filler and the check of linked text

`FillBefore` and `FillAfter` are the formulas of `placehash.py`; `AddFunction` and
`WriteObject` are a backend that follows them, or has one flaw; `Link` is what `lld` makes
of the objects (gaps filled by INT3 on x86-64, copies that lose their symbol), an
external; `Check` is `expect_seed`, row by row (`Row`, `CopyPosts`, `AfterProbe`), over
the pieces and tails `layout_span.py` cuts. The hash is any function of `Hashes`: what it
spreads is not the checker's business. `Masked` names the flaws that other filler
stands in for, the ones no reader of the bytes can see.

### 2.7 LayoutSpan and FlowGraph: loops of a function

`LayoutSpan` is one function's span, from the decoder's items to the function's own body; both
analyses read it. `ClassifyNops`, `OwnedEnd`, `Body` are functions of the span, as are `BuildBlocks` and
`ReversePostorder` in `FlowGraph`; `Visit` and
`Swept` are the sweeps of the dominator fixpoint, a node at a time; `NaturalLoop` and
`ParentOf` what is reported. The properties hold this against definitions that use no
graph: what a processor can execute from an entry, and what it can reach avoiding a block.
`ItemsAssumption` is what the decoders give: no item is PAD before NOP runs are classified, and
what is not code has `ft` set and no target. `Emitted` is where backends put their pad. A block label
(`lbl`) starts a block, makes a NOP run code, and extends what the function owns, whether or not
anything branches to it; it is no edge and no entry. Every label is taken to be the function's own
(`L<name>__`). A symbol inside the span that is no block label, which `_resolve_others` takes for the start of data
(`PL/layout.py:233-251`) and which cuts the span there, is left out.

### 2.8 Conformance and its cells

`Conformance` is one machine for all value matrices: `Generate` picks a coordinate and
makes its cell, `RunCell` runs it on a backend, conforming or with one of the flaws
the generator's comments say the cell is for (`Claims`; two together where a comment
says two).

| Module | Generators | A cell is |
|---|---|---|
| `ScalarDiff` | `gen-diff-scalar.py` | operands, fixed and sampled by the generator's congruential step, and the oracle's value of each operation |
| `ScalarMatrix` | `gen-scalar-`, `-operator-`, `-shift-typepair-`, `-const-matrix.py` | literal tuples with what a 64-bit and a 32-bit target print |
| `RefcountCells` | `gen-matrix.py`, `gen-dispatch-refcount-`, `gen-generic-managed-matrix.py`, and the managed kinds of the next two | a program of copies and drops with named sites, and the counts it prints |
| `AbiCells`, `AssertCells` | `gen-abi-matrix.py`, `gen-type-assert-matrix.py` | fields at their offsets; checks of dynamic types |
| `MoveCells` | `gen-aggregate-`, `-addr-aggregate-`, `-nested-index-`, `-loop-leak-matrix.py` | lanes moved from place to place, and bytes left on a stack |

The oracle computes, as the Python does, with unbounded integers reduced at the end;
the machine of `TwosComplement` keeps bit patterns. The two are written
independently, and that they agree is `OracleIsTheLanguage`. Scaled: a register has 12
bits, the sub-word type 8, floats have 5 and 9 bits of mantissa (less than the
integers converted, as f32 and f64 have), `int` is 8 bits on the narrow
target, and the congruential generator has 14 bits. The backends and the
language are external to `src/`'s generators and marked so.

`MatrixFiles` is the drivers' `main` on the files: `Sync` looks at one file, `WriteFile` is
the write after the open that truncates it, `Kill` may come between; `Judged` is how `run.sh`
picks what to compare. `EditTable` and `EditFile` are the people.

### 2.9 Selection: which arm to adopt

`Select` is `stats_select.selection`. The estimators are numerics and enter as
`Measured`; the tests made with them are the code's: eligibility, Holm's
step-down, the ties with the fastest, the spread, the text, whether the data decides.

## 3. What the runs check

| Run | Bounds | Shows |
|---|---|---|
| `raw_allocator` | 10 words of arena, small classes of 1 and 2 words, requests of 0, 1, 2 and 3 words, a stored word that reads as a free tag; 1.6 million states | owners, coalescing, and `ImplementsRawHeap` |
| `raw_free_lists` | 15 words, no small class, requests of 1 and 13 words; 175 thousand states | lists complete, the frontier moves only when no free block could serve, every request ends |
| `vm_faults` | 2 blocks, 2 slots, stack of 12 words with a red zone of 4, release helpers, two callbacks, polls that suspend or break, or none; 534 thousand states | cleanup depth, counts, stack and report exact; unwinding ends |
| `hash_table` | 5 key objects of 4 keys, 3 hash functions, capacities 4 and 8; 33 thousand states | the refinement of `KeyedMap`, the table's invariants, cursors |
| `repl_imports` | 4 packages, 48 initial disks, one edit, 3 turns; 312 thousand states | order, cycles, packages, bindings, and that turns end |
| `ab_experiment` | a native base and an LLVM arm, one or two rounds, two compilers, 4 seed lists (two refused), 3 flaws, four sessions of one round or three of two; 1.2 million states | 6 invariants, the refinement of `Experiment`, and success in the end |
| `tools` | one of four machines per behaviour: all coordinates with 6 seeds and both widths of `int`; two cells, two outputs, three edits, one kill; two arms out of 56 measurements; up to two objects of three functions and copies, two hashes, two architectures, 4 phases, one flaw, and every span of four items out of 16; 1.04 million states | the oracle, the flaws seen, the files, Holm's test, the choice, the layout checker and the loop analysis |

Why these bounds. *Allocator*: ten words hold three smallest blocks and one word, which is
what forward and backward coalescing at once, a split with and without remainder,
and the exact end of the arena need; 15 words hold five blocks, of which three can
be free and not adjacent, the smallest list that has a middle. *VM*: twelve words
hold an entry frame and calls and still overflow at the reduced limit, and the red zone of
four is what a cascade of both blocks needs, a helper and a destructor frame each; two blocks make a chain of one
managed field, and sharing; two callbacks are a first one that faults and a second one that finds
the fault pending. *Table*: four slots hold three keys, the fourth makes
them eight; the hash functions put all keys in one slot, wrap a cluster around the
end, and make keys collide in one capacity and not in the other. *REPL*: three
packages make a chain, a diamond with the implicit dependency, and cycles of one,
two and three; two of them share a name; three turns are a failure, its repair and
a later import. *Experiment*: two arms and two rounds are a full cycle of the Williams
square (larger squares are checked by the assumption `WilliamsBalanced`, up to 7 arms, and proved
for any number, section 4.5); an
LLVM arm has linked builds, a native one has not; the second session may
resume, extend or find what the first left at any point; the third finds what the second lost
while trimming a log torn by the first, and with one round a fourth finds what the third wrote to such a log
(with a compiler that fails one session is enough, with a wrong filler two). A session after `BuildCuts`, the first, is cut short
before its builds are done only inside the trim of `builds.tsv`, and that only with up to `TrimCuts` rounds;
all later steps may be cut short in every session but the last. That the driver refuses a headless `builds.tsv` or `samples.dropped.tsv`, and
losses from the latter, need more sessions than TLC can take; the proofs of section 4.5 cover them. *Layout*: with a unit of
2 in a span of 8 every phase occurs, filler may be absent, whole or cut by the
gap; six programs put copies of the probed function first, between and last. Four
items suffice for an irreducible graph, nested loops, an unreachable block and NOPs on
every side. *Tools*: for the matrices the bound is the generators' own list of
coordinates; only the sampled operands (6 seeds) and the widths are scaled. Two
cells are one written before and one after a kill; three edits and a kill are an
entry changed twice around a torn file. p-values are below, at and above each of
Holm's thresholds.

The code's own counters are not capped: only the environments are, by the number
of callbacks (`MaxCallbacks`), of edits (`MaxEdits`, `EditBound`), of kills (`KillBound`), of turns
(`MaxImports`) and of sessions (`MaxSessions`, by the flaw and the number of rounds), of which `BuildCuts` and
`TrimCuts` say which may be cut short early; `MayBeCut` is where these bounds are. Deadlock is not checked where the
system may stop: an aborted program, a panicked VM, a session at its
last turn, an experiment whose user does not come back, a tool that has printed its report.

`ABExperiment`'s `flaw` takes 3 of its values in the run (`none`, `filler`, `broken`); `seed0` and `no_effect` are in the
definition and not in the instance.

### 3.1 Properties worth naming

* `OwnersMatch`, `NoAdjacentFree`, `ListsReachAll` relate words written in different calls, with
  caller data between.
* `CleanupDepthExact` says `CleanupDepth` is the number of pads and destructor frames
  on the stack; `RefcountsExact` that each count is the number of references in slots
  and fields; `HostReturnExact` that after a host call the host sees FAULTED with a message
  exactly when a fault was raised in it, and nothing is live. A block that was moved into a
  frame that is then dropped (`NothingLost`, 3.3) may have fewer holders than its count, never more;
  with a poll what the host sees is the poll's reply.
* `RedZoneSuffices`: with a red zone for the destructors of what can be live, no
  cleanup panics.
* `TableSound`: between calls no vacant slot lies on the path from a key's home to
  the key, vacated slots hold nothing, and the load stays below one in the middle of a growth too,
  so every probe ends. `StackSound`, `PackagesSound` and `BindingsSound` likewise join the
  parts named in their definitions.
* `CyclesExact`: a cycle error names a package on a cycle, and every cycle among the loaded
  packages has an error of one of its packages. (It is an error of loading, not of a cycle,
  when the files were mended after the other packages of the cycle had loaded.)
* `PackagesSound` includes `FailedForCause`: every failed package reaches one that failed by
  itself. `BindingsSound` includes `NamesAgreeBeforeErrors`.
* `TimedAsBuilt`, `RejectedNeverTimed`: at the start of the timed phase `builds.tsv` is the plan,
  each row names the bytes on disk, and no check had rejected them, in this or an
  earlier session (when a native arm is among the arms: what the checks compare is native).
* `RoundsWhole`, `PositionsBalanced`: over all sessions. `NoSampleLost`: a sample is missing from both
  logs only if a cut of a log that `_trim` had open took it (`lost`); no append, trim, split, drop or rewrite
  that runs to its end loses one, and no cut anywhere else does. `LosesAtMostTheRow` is the same
  without the exception, and false (3.3).
* `ConformingPasses` and `FlawFails` are the two directions of the layout check; each excludes
  one case by name, `CopyAfterGap` (3.3) and `Masked`.
* `GraphFollowsExecution`, `DominatorsExact`, `LoopsNest` compare with reachability.
* `OracleIsTheLanguage` and `FlawsSeen`: the generators' two promises.
* `HolmIsClosed`: the step-down test is the closed test. `IneligibleDoNotMatter`.

### 3.2 Fairness

* `TagCoalesce!FairSpec`: weak fairness of `Serve`, the steps inside a request. A call of the allocator
  is never preempted; callers need not call.
* `VMFault!FairSpec`: weak fairness of `Unwinding`, the steps the dispatch loop takes by itself
  once a frame is being left, and the return of a compiled callee that makes no more
  callbacks. A body may loop for ever; the number of callbacks is bounded.
* `ReplImport!FairSpec`: weak fairness of `Process`: no loop of a turn waits for anybody. The
  user need not type, and an initializer that never ends is outside of the model: the
  host interrupts it by a poll, which is one of the outcomes.
* `ABExperiment!FairSpec`: weak fairness of `Step \/ Start` together. The driver's threads
  and the compilers are scheduled, and the user starts the driver again until
  it has succeeded; the last of `MaxSessions` is not cut short. That is the
  sense of the promise that an experiment can be resumed.

### 3.3 Where the code and its comments part

Five runs check a sentence of the repository and find it violated; `PROJECT.json`
quotes the sentences and describes the counterexamples.

* `vm_poll_in_pad`: a poll answered in a destructor's loop overwrites FAULTED during the
  unwinding.
* `vm_helper_pad`: a release by a helper call at a function's exit can overflow the stack
  where no pad was emitted, and the VM panics.
* `vm_late_callback`: a compiled callee that calls back again after its first callback faulted runs
  a body under FAULTED; a call through a value in it drops the frame it has pushed, and the
  argument moved into that frame leaks.
* `repl_names`: after any load error the loader never orders again; a later import is
  bound in IR-gen and not in the checker.
* `ab_trim`: a torn last row makes `_trim` empty the log and write it back without an fsync; a
  Ctrl-C or a second loss of power there takes samples flushed long before, up to all of them, and with
  them finished rounds. Without its header the log then takes the next row for one: the session can
  end as "done" and every later reader refuses the log.

Met while modelling, and stated here without a run:

* The Raw arena needs more than the peak of what is live: free space below the
  frontier and space above it are never joined (against `RT/rt_baremetal.bn:62`).
* On x86-64 an INT3 gap before a copy of the probed function that starts its object makes the next
  function's row fail, though the build follows the formulas (`PL/layout_seed.py:229-249`, against 19-21 and
  72-79, which say that a row after unsymbolized code also passes with a copy's trailing filler before it). `ConformingPasses` excepts it
  (`CopyAfterGap`); `AllPass` does not, and is false.
* A reference output cut short by a loss of power (`PL/ab_timed.py:222`) is trusted by every later
  session, whose outputs all differ from it; `ExperimentEnds` excepts it.
* `meta.json` keeps "done" while an extended experiment runs (`PL/ab.py:196`, 372). A directory
  created without `meta.json` can be neither started nor resumed. Rows of
  `samples.dropped.tsv` may be there twice after a crash.
* `PL/stats_select.py:148`: an arm that ran every item but shares no seed with the base on all of
  them ends the report in a `KeyError`; `Select`'s guard leaves it out. Whether the data decides
  counts the seeds of ineligible arms too (147), and ties are taken against the fastest arm only.
* `CF/gen-diff-scalar.py:456-459` says fixed pairs overflow; for unsigned subtraction none
  underflows, and no tuple of that cell on 8 bits detects a missing narrowing. It is
  not among the cell's claims here.
* `PL/layout_seed.py:27-28` says missing filler fails either way; on x86-64 it does not when an INT3
  gap of the same length takes its place (`Masked`).
* No generator removes the `.error` file of a cell that now expects output, and `run.sh` takes
  `.error` first; `JudgedAsMeant` excepts it. `gen-matrix.py:10-12` says it warns about orphans; its
  `main` does not look. `gen-generic-managed-matrix.py` writes `.xfail.all` (443) and never removes it.
* The balance cells of type assertion, multi-return, managed struct and a populated
  destructor cannot tell an alias that neither takes nor releases; the sizes of `gen-loop-leak-matrix.py`
  are those of a 64-bit target.

## 4. What is proved

### 4.1 The allocator

`TagCoalesceProofs` proves, for every arena, every bound of the small classes, every set of
requests and of stored words, under `ConstantsAssumption` alone (the arena is not empty and
does not start at 0, the free bit is above every size):

| Theorem | Property |
|---|---|
| `Invariance` | `IInv`, the inductive invariant |
| `TypeCorrect`, `ArenaTiled`, `BoundaryTags`, `Ownership` | `TypeOK`, `Tiled`, `TagsInSync`, `OwnersMatch` |
| `FullCoalescing`, `Reforms` | `NoAdjacentFree`, `AllFreedReforms` |
| `ListIntegrity` | `ListsLinked` |
| `ExactCount`, `NoFalseTrap` | `LiveBlocksExact`, `TrapOnlyDouble` |

    IInv == TypeOK /\ HeapOk /\ OwnersMatch /\ RequestOk /\ Counted /\ TrapOnlyDouble

None of the properties is inductive by itself. `RawFree` finds its predecessor by a footer and its list
by a size, so tags, tiling and links must be known together (`HeapOk` joins the layout,
`TagsAgree`, `Coalesced` and `Linked`); that a footer just below a block is a footer at all, and not
caller data that looks like one, needs the tiling. That coalescing stops after one
neighbour on each side needs `NoAdjacentFree` before the call. `RequestOk` carries what
is known between the steps of a request (the block about to be popped is free and of
the size asked for, the scan's cursor is null or free), `Counted` counts the request in flight.

The proof has three layers: facts on words, tags and disjoint blocks; one lemma for each
helper, stated over heaps (`insertFree` keeps lists linked and adds exactly one block,
`unlinkFree` removes it, `writeTags` of a new tiling keeps the others' tags, a
split, a carve, the two merges); and one lemma for each action, combined in `NextIInv`.
`Reforms` then follows from tiling and `NoAdjacentFree`: with nothing live all blocks are free, and
two of them would be neighbours. `tlapm TagCoalesceProofs.tla` checks all of it.

From `IInv` it goes on to:

| Theorem | Property |
|---|---|
| `ListsReach` | `ListsReachAll` |
| `CarvesLast` | `CarveOnlyOnMiss` |
| `Implements` | `ImplementsRawHeap` |

*Lists.* Mutual links alone allow a ring of blocks that no head leads to. `HeapOk` therefore has, for
its lists (`Listed`), an integer rank that grows along `next`; `insertFree` gives the new head a rank
below the old one's. A free block of lowest rank that the walk from the head misses would have a
predecessor of lower rank that the walk meets. The walk itself is a recursive function;
that it exists, meets each block once and ends after as many links as there are blocks is
shown by least counterexamples (`LeastElements`), the form of induction this prover can use.
*Carving last.* The scan takes many steps, so what it has passed is an invariant of its own (`Scanned`):
some set of blocks, all too small, holds the head and with each block the next one, up to the cursor. When
the cursor is null the set is closed, hence the whole list (`ListClosure`).
*Refinement.* A step of the scan stutters, `PopClass`, `ScanHit` and `Carve` are all the abstract
`Answer`. Each lemma of 4.1 about a helper also says which payloads it leaves alone (`SamePayload`); with the
tiling, what other callers hold is unchanged, and what is handed out is disjoint from it.

### 4.2 The selection, the matrix files and the probe

`ToolProofs` proves, from `NumbersAssumption` and `MeasuredAssumption` (levels and p-values are
naturals on their scale, times are integers), for any number of arms and of items; from
`CellsAssumption` (there are finitely many cells), for any table, edits and kills; and from the
assumptions of `Placement` (a unit that divides the span, a hash whose values are phases, as
`entry_phase` makes them), for any hash, programs, sizes, seeds and phases:

| Theorem | States |
|---|---|
| `HolmIsClosedTest` | `holm(ps, alpha) = ClosedTest(ps, alpha)` for `ps` over any finite set of items |
| `HolmIsClosedAlways` | `SelectSpec => []HolmIsClosed` |
| `OnlyTheEligible` | `Chosen` of all arms is `Chosen` of the eligible ones: which arm, not whether the data decides (`Decided`), which counts every arm's seeds |
| `IneligibleNeverMatter` | `SelectSpec => []IneligibleDoNotMatter` |
| `FilesInvHolds` | `FilesSpec => []FilesInv`, the inductive invariant of the files |
| `JudgedAsMeantAlways` | `FilesSpec => []JudgedAsMeant` |
| `ProbeIsNeutral` | `PlaceSpec => []ProbeNeutral` |

The first is the textbook argument about step-down tests, for the order the code uses, which
breaks ties by position. If an item is rejected, then in any group it is in the one tested first was
within its threshold, and no more items were left then than the group has. If every group
of an item has a small enough member, so has, for each item tested up to it, the group
of those not tested earlier. That a group has a first one (`FirstTested`) is an induction in
disguise: it uses that strict inclusion is well-founded on the sets of items tested earlier. The
second theorem compares the two tables row by row (`RowsAgree`): they differ in the base's seeds
only, and whatever is intersected with those is contained in them.

*The files.* While a run is on, whatever the table wants of a file is on disk or still ahead, unless a
check has reported something, and nothing else is ahead (`FilesInv`). A step moves one file from
ahead to on disk, and no later one can spoil it, because the table wants one content of a file
(`OwedOnce`): this is what a file reconciled twice, or two cells with a file in common, would
break. The run starts with all that the table wants ahead (`PlanIsOwed`): its list is built
cell by cell by a recursive function, which exists and has exactly these elements, by least
counterexample over the cells in the order they are listed. A kill leaves nothing ahead and no promise;
the file it tore is not on disk as wanted, so the next run finds it.

*The probe.* Filler is a multiple of the unit below the span (`FillIs`), so aligning after it moves
the entry by just the filler (`AlignPast`), and the filler before and after the probed function
add up to the span: whatever its phase, the code after it starts at one offset (`EmitAlike`). The
filler of every other function depends on its offset only. So two objects written with two phases
end alike after each function (`ObjectAlike`, a least counterexample over the functions) and hold the same
items of other functions; `PlacedInv` carries this through a build as long as no flaw has shown.

### 4.3 The hash table

`HashTableProofs` proves, from `TableAssumption` (a policy hashes by identity; capacities start
at two or more), for any keys, values, hash functions and initial capacity:

| Theorem | Property |
|---|---|
| `Invariance` | `IInv` |
| `Sounds`, `Cursors` | `TableSound`, `CursorExact` |
| `Implements` | `ImplementsKeyedMap` |

Between operations the invariant is that a probe from each key's home meets no vacant slot before
the key (`Reachable`), that no two used slots hold equal keys (`Distinct`), the load and the count.
`Reachable` says it by comparing cyclic distances, so probing twice around the end needs no case of its own.
In the middle of a growth (`Growing`) both backings are sound, and the new one holds exactly the
entries of the old one's slots below `i`; each is placed in the first vacant slot, which exists because
of the load. In the middle of a backward shift (`Shifting`) the slot `i` is a gap that still reads as used: all
other entries are reachable as things stand, and those between `i` and `j` would be so even if the gap
were vacant. That is what lets the shift stop at the first vacant slot, and it fails for a
shift that moves an entry past its home: `inRange` is compared with distances in a lemma of its own.
The abstract map of a state is read from the backing the invariant vouches for. `Put` with growth takes
effect at the end of the loop, `Remove` at its start.

### 4.4 Recoverable faults

`VMFaultProofs` proves, for any set of blocks, number of slots, sizes of frames and of the stack, red zone,
replies of polls and number of callbacks, from the assumptions of `VMFault` (frames are not
empty; two user frames fit below the red zone):

| Theorem | Property |
|---|---|
| `Invariance` | `IInv` |
| `DepthIsExact` | `CleanupDepthExact` |
| `CountsAreExact` | `RefcountsExact` |
| `StackIsSound` | `StackSound` |
| `ZoneSuffices` | `RedZoneSuffices` |
| `HostSeesItAll` | `HostReturnExact` |

    IInv == TypeOK /\ InBounds(vm) /\ RedZoneSuffices /\ (vm.abort = "none" => Sound)

`Sound` joins what the properties need of each other. The depth of cleanup is one number, incremented and
decremented by steps far apart; it can only be right if the *shape* of the stack is known: `OnTop` says what
a frame is and what may lie below it (above a frame that has left its body only destructors and helpers
run, a call stands on a user frame, a callback's entry on a compiled one), and `Built` says it of every
frame. `Depth` then counts the open contexts. `Exact` counts the holders of each block over all slots and
fields, with the lost blocks excepted; `Doomed` says that the counted blocks without a reference are those a destructor frame will
free; `Acyclic` that some rank decreases along fields, without which a block could keep itself alive
and `HostReturnExact` would be false: on an empty stack a live block of highest rank has no holder.

*The red zone.* A destructor frame at the top of a stack reaches at most
`L0 + Deep(Cardinality(Dying) + 1)`: below the limit that holds outside a cleanup there is room for
everything else, and each destructor on the stack belongs to another block, which it keeps from
being released again. So no more than `Cascade` is ever used above the limit, whatever order the
blocks are released in. A helper adds one frame of its own, which is not yet paid for by a dying block;
the block it releases pays for it.

*The steps.* A step replaces the top frame, pushes one frame or pops one or two. For each count there is a lemma
on what appending a frame does to it (`DepthAppended`, `DyingAppended`, `SlotsAppended`, ..), and three
lemmas on whole steps: those that leave the heap alone (`Arrives`), those that change it
(`Settles`, with `Balances` for the counts), those that end in a panic (`Stopped`). Each action has one lemma, and `Steps` puts them together.
`UnwindReturn` drops any number of frames; that those without a pad hold nothing is what `OnTop` gives.

### 4.5 The A/B experiment

`ABExperimentProofs` proves, for any arms, seed lists, repetitions, jobs, flaws and number of
sessions, from `SessionAssumption` (there is an arm, a repetition and a job; seeds are
integers; no outcome is `None`):

| Theorem | Property | From |
|---|---|---|
| `InterruptIsNotFailure` | `InterruptNotFailure` | `NotBroken` |
| `BuildsAgree`, `TimedIsBuilt`, `RejectedIsNeverTimed` | `TimedAsBuilt`, `RejectedNeverTimed` | `BuildsInv` |
| `SamplesAreKept` | `NoSampleLost` | `SamplesInv` |
| `Implements` | `ImplementsExperiment` | `SamplesInv`, `PromiseInv` |
| `RoundsAreWhole` | `RoundsWhole` | and `OrderInv` |
| `SquaresAreBalanced` | `\A k \in Nat \ {0} : Balanced(k)` | the changes from position to position |
| `PositionsAreBalanced` | `PositionsBalanced` | all of these and `SteadyInv` |

*Builds.* `TimedAsBuilt` speaks of the start of the timed phase; what leads there is what each thread
knows. `BuildsInv` says, for each state a build may have in the pool, what is in the store, in
`builds.tsv` and in the rows of this session and of the last one (`TasksOk`), and which
phases still have which of these (`PhaseOk`). Every row on record is the output of its build
(`BlogOk`, `OldOk`), because a row is written after the compiler has ended; but the file a row names may have lost
its bytes, and that is why a row is reused only when the file agrees with it. The rows recorded so far are
not rejected while the phase goes on (`Bad`), and at its end they are all of the plan's, so a flaw that
some pair of them shows has been seen. `PlanElements` and the lemmas on `Sift` and
`FlattenSeq` say what the plan has, once each.

*Cut logs.* A log that `_trim` had open keeps a prefix of its rows, and that is all a loss of power or a
Ctrl-C does to it (`CutLogs`, `CutBuilds`). A prefix holds no row twice if the log did not (`CutOnce`) and finishes no round
that was not finished (`CutFinished`); a round it unfinishes is one of those whose rows it took
(`CutUnfinishes`), which is the abstract `Lose`. A round that keeps all its rows keeps their order
(`CutRows`), and in a prefix too each run comes right after the one before it in its order (`CutSteady`); so a round cut in two
is moved away by the next session and run again, and the others stay as they are.

*Samples.* That nothing else is lost between what is kept and what is dropped needs that each row's round
is one the session asks for (`RowsInRange`), so that `meta.json` is no older than the rows and its
seeds only grow (`MetaOk`), and that no row is appended behind one cut short (`Splitting`). What `_trim` loses is
in `lost` and nowhere else.

*The promise.* `Open` is the abstract `Ask`, `Timed` is `Finish` or a stutter, `Finished` is `Report`,
`Leave` and `Crash` after a success are `Seen`, `Crash` and `Interrupted` with a log cut are `Lose`; everything else stutters. A run may finish no round but its
own and only as the last of it: `PromiseInv` says that when a session starts timing every round is
settled, with all its rows or none (`PartsSettle`), and from then on what a round's rows lack is
what is ahead (`Ahead`, `Pending`). `FinishedIn` counts, as the code does; `FinishedIsWhole` turns the
counts into "different runs, and all of them". That rewriting `samples.tsv` finishes or unfinishes nothing
is what `SplitParts` gives.

*Order.* `OrderInv` adds that a finished round's rows are `RoundRuns` of its number and seed and of one
session, and that while timing a round that is not finished has its rows, of this session, and then
the runs ahead of it, in that order (`OnTrack`). More seeds change no round there was
(`MoreSeeds`). `On` is what `Sift` does by elements instead of positions; its lemmas say how it goes
with `Append`, `\o`, itself and `FlattenSeq`, by induction on sequences in the form this prover can use
(`ByAppending`, from least counterexamples).

*Balance.* `SquaresAreBalanced` is what `schedule.williams` is for, for any number of arms; TLC evaluates it
up to 7 (`WilliamsBalanced`). A row is the first row plus a constant (`RowValue`), so each arm is at
each position in one row (`HeldOnce`), and b follows a wherever a row has a and changes by b - a. From position
`p` to the next the change is `p` or `k - p` (`FirstRowSteps`): each amount once when `k` is even (`FollowsEven`),
each odd amount twice and no even one when `k` is odd (`FollowsOdd`), and then the rows read backwards have the
even ones. What the samples kept hold is that schedule only if nothing comes between two runs of an order. `SteadyInv`
says so: the row of a run that is not the first of its order comes right after the row of the run before
(`Unbroken`), in `samples.tsv`, in what is kept of it when rounds in its middle are moved away, and in the log
followed by the runs ahead. At success each run of the plan has one row (`DoneHolds`). `HoldersCount` and `FollowersCount` then
number the rows in question by cycle, replicate and place in the square, one to one, and the
replicates that read their row backwards count what follows the other way round.

### 4.6 The loader and the prompt's `import`

`ReplImportProofs` proves, from `LoaderAssumption` and `SessionAssumption`, for any packages, files, root
imports and prompts, any edits of the files between turns, and any outcome of each check, lowering and
initializer:

| Theorem | States |
|---|---|
| `LoadOrderHolds` | `Spec => []LoadOrderSound` |
| `CyclesHold` | `Spec => []CyclesExact` |
| `PackagesHold` | `Spec => []PackagesSound` |
| `BindingsHold` | `Spec => []BindingsSound` |

All four follow from one inductive invariant, `ReplInv` (`ReplInvHolds`), in three parts.

*Loading.* The stack of `loadPackage` is a chain (`StackSound`): its packages are distinct, each reaches
those further in, and the imports a frame has passed are loaded with all they import, or blamed by
an error, or are the next frame. That the check for a cycle finds only cycles is the chain. That it misses none needs more, for a
session lasts many calls and a file may be mended in between: the packages finished have ranks, bounded by
some `N`, and each imports only finished packages of lower rank or packages an error blames (`RankInv`). A
package popped gets the rank `N + 1`. Then a cycle with no blamed package would descend for ever
(`CycleThrough`).

*Ordering.* While `visit` runs (`SortInv`), what is sorted is in order as far as it goes (`InOrder`), every
package visited is sorted or on the stack, and the roots still to be visited are the tail of
`implicit \o packages`; a package no implicit dependency needs has a frame only once these are all
sorted. An import visited already but not sorted would be on the stack, hence a cycle, and
`computeOrder` runs only without errors: `AllLoaded` excludes it by the ranks.

*The session.* Between any two steps a package processed is injected, failed, initialized, or waits in
`clean` (`SettledInv`), and `clean` itself is in order (`CleanInv`), because `order` was
(`OrderInv`). So what an initializer's package imports has run by then, or the package is failed. A name is bound to a package of
`Good`, those processed, not failed, and injected or initialized. `Good` is closed under imports
(`GoodInv`), which makes it one of the sets that define `Reaches`: all that is reached from a bound name is
in it. The assumption on injected packages is needed here: they are not run, so one could stay in `Good`
while a package it imports fails to initialize. The two sides bind alike
while `errors` is empty, for then everything loaded has been processed. After an error they need not
(`repl_names`).

### 4.7 Graphs, dominators and loops

`FlowGraphProofs` proves, from `ItemsAssumption` alone, for spans of any length and any items, so
for any branches, irreducible graphs and unreached blocks included:

| Theorem | States |
|---|---|
| `SweepsKeepTree` | the inductive invariant of the sweeps, `DomInv` |
| `DominatorsAreExact` | `GraphSpec => []DominatorsExact` |
| `LoopsAreNested` | `GraphSpec => []LoopsNest` |
| `GraphIsExecution` | `GraphSpec => []GraphFollowsExecution` |

*Closures.* `Closure` takes a fixed number of steps. With no fewer steps than nodes it is the least closed
set (`ClosureLeast`): a set that grows at each step runs out of nodes. Every definition that reaches
something is then used by leastness, the closed set being named in the proof.

*The search.* The stack of `dominators` is a path from the root, what has been seen is on the stack or
left, and all that a left node leads to has been seen (`DfsInv`). Each turn spends an edge or leaves a
node, and a node has two edges at most (`DfsEnds`), so the bound in `ReversePostorder` is never
what stops it: at the end the stack is empty, and each node reached has a place, after a node
that leads to it (`FoundNumbers`). That last fact is what makes one sweep give every reached node a dominator.

*The sweeps.* `DomInv` says that the dominators found are a tree along the order, in which every true dominator
of a node is above it (`DomTree`: the tree never claims too little), that what this sweep has
passed is in the tree, and, while the sweep has changed nothing, that each node passed hangs from the
meet of its predecessors (`Fits`). The meet of two chains is unique and the walk that climbs the later
one finds it (`MeetIsMeet`); folding it over the predecessors does not depend on their order (`NewIsMeet`).
When a sweep changes nothing all nodes fit, and then a chain claims too much of no node either
(`ChainsAreDominators`): `h` is not on the chain of a node that has a predecessor off whose chain it is,
so the nodes without `h` on their chains are closed along edges that avoid `h`, and hold all that is
reached so.

*Loops.* A header dominates its loop, since a predecessor of what `h` strictly dominates is
dominated by `h` (`LoopHolds`); two headers whose loops overlap are on one chain, so one loop takes in the
other (`LoopsOverlap`); among the larger loops that hold a header the smallest is its parent (`ParentIs`).

*The graph.* What runs from an entry is compared with the graph in two steps. Items: what `owned_end` follows, from code
to code across pad, is what the processor runs (`RunsAreSeen`), because nothing branches into pad:
a NOP run that is entered is entered at its first NOP, and then it is code (`ClassifiedAreLaid`). All of it lies in the
body (`BodyCuts`). Blocks: code that starts no block follows code of its block (`InsideBlock`), an
instruction that branches is its block's last (`BranchIsLast`), and so every step of an instruction is an edge
or inside a block (`EdgesHold`), and every edge such a step (`BlocksReached`).

### 4.8 What is only model-checked

Everything under fairness: `RequestEnds`, `UnwindEnds`, `TurnEnds`, `ExperimentEnds`. Of `Placement`
(`ConformingPasses`, `FlawFails`) and `Conformance` (`OracleIsTheLanguage`, `FlawsSeen`) what the tools
compute is defined by recursion over data, the bytes a linker lays out and the values an oracle folds,
which this prover cannot do induction over; TLC enumerates what the tools themselves are run on.
That a conforming build passes is moreover not true of all programs (`CopyAfterGap`, 3.3).

## 5. The plan

What is left, the most important first.

1. **ReplDecl** (`repl/decl*.bn`, `eval.bn`, `step.bn`): entries, parked declarations and
   their groups, shadowing, undo, suspended turns; composes with the names of ReplImport.
2. **ManagedHeap** (`RT/rt_managed.bn`) over the abstract `RawHeap`: counts, immortal data,
   destructors and free functions; no block is destroyed twice or used after.
3. **LinkResolve** (`pkg/binate/link`): the fixpoint of extraction and the strength order,
   against a declarative definition. **SatRegistry** (`RT/rt_satregistry.bn`): the walk and
   the table against the set of reachable entries.

## 6. What is not modelled, and why

The translation stages (lexer, parser, checker, IR generation and optimization, code
generation, assembly, relocation, formatting, linting) are pure functions of their
input: their correctness is about data, not about orders of events, and is what the
repository's conformance suite tests. The drivers, the file and process wrappers and the
rest of the standard library are system calls in sequence. The Binate components of the
plan are left for later modules.

Of the tools: the estimators of the statistics (means, bootstrap intervals, variance
components) are numerics on floats; the byte accounting and the Mach-O branch of the layout
checker (`PL/layout_seed.py:150-163`) and all report formats are data; the legality
cells, `gen-globals-matrix.py` and `gen-readonly-matrix.py` are fixed texts with a fixed expectation;
`scripts/bnfmt-check`, `scripts/bnas-sweep` and the remaining `perf` scripts run an external tool over
many inputs and keep nothing between them.

## 7. Running

    tlc -workers 2 -config TagCoalesce.cfg MCTagCoalesce.tla     # and likewise
    tlapm TagCoalesceProofs.tla                                  # and the other *Proofs, LeastElements

Each cfg belongs to the MC module of its name's prefix. The definitions whose
comments begin with "Mutant" are plausible mistakes: put in the place of the
definition they vary, each makes the property that `PROJECT.json` names with it fail.
