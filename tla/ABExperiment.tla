---------------------------- MODULE ABExperiment ----------------------------
(***************************************************************************)
(* The placement A/B driver, perf/placement/ab.py run: a parallel build    *)
(* phase (ab_build.py) and a sequential timed phase (ab_timed.py) over a   *)
(* work directory (ab_store.py) that outlives the driver.  A session may   *)
(* end by itself, by Ctrl-C, or by a power loss that also takes what was   *)
(* not yet flushed; --resume starts another one.  One workload item.  A    *)
(* binary is abstracted to its contents, which stand for its hashes too.   *)
(***************************************************************************)
EXTENDS Integers, Sequences, FiniteSets, SequencesExt, Schedule

CONSTANTS
    Backend,     \* the arms' backends, base first: "native" or "llvm"
    SeedLists,   \* the --seeds lists a user gives
    Reps,        \* --reps
    Jobs,        \* --jobs
    Flaws,       \* what may be wrong with the arms under test, or "none"
    MaxSessions(_, _), \* bound on the sessions, by the flaw and the number of rounds
    BuildCuts,   \* bound: the last session that may be cut short before its builds are done,
    TrimCuts,    \* bound: but for a session with so many rounds, in the trim of builds.tsv
    None         \* no meta.json, no outcome

\* The statuses main writes.
Outcomes == {"done", "aborted", "failed", "interrupted"}

ASSUME SessionAssumption ==
    /\ Reps \in Nat \ {0} /\ Jobs \in Nat \ {0} /\ BuildCuts \in Nat /\ TrimCuts \in Nat
    /\ \A f \in Flaws, l \in SeedLists : MaxSessions(f, Len(l)) \in Nat
    /\ Backend # <<>> /\ Backend \in Seq({"native", "llvm"})
    /\ \A l \in SeedLists : l \in Seq(Int)
    /\ None \notin Outcomes
    /\ None \notin [seeds : SeedLists, status : Outcomes \cup {None}]

VARIABLES
    flaw,     \* what is wrong with the arms
    \* The work directory.
    meta,     \* meta.json: the configuration's seeds and the last status, or None
    used,     \* whether the directory has anything in it
    bin,      \* the store: build -> contents
    blog,     \* builds.tsv
    slog,     \* samples.tsv
    dropped,  \* samples.dropped.tsv
    torn,     \* the logs whose last row was cut short: builds, samples, dropped
    unsynced, \* the logs that _trim opened and nothing has flushed since
    headless, \* the logs that lost their header
    ref,      \* the item's reference output file: "absent", "torn" or "whole"
    \* The driver.
    pc,       \* where it is
    seeds,    \* its --seeds
    plan,     \* its builds, in order
    old,      \* rows of builds.tsv when the session began: build -> contents
    task,     \* build -> its state in the thread pool
    done,     \* rows recorded in this session: build -> contents
    stopping, \* Builder.stopping
    todo,     \* the timed runs, or the rows to drop, still ahead
    keep,     \* the rows samples.tsv keeps
    refs,     \* the reference held in memory
    why,      \* how the session ends
    signal,   \* Ctrl-C was pressed in this session
    session,  \* number of this session
    taken,    \* every sample row ever appended (history)
    lost      \* the sample rows that each cut of a log took (history)

trims == <<torn, unsynced, headless>>
disk == <<meta, used, bin, blog, slog, dropped, trims, ref>>
driver == <<pc, seeds, plan, old, task, done, stopping, todo, keep, refs, why, signal>>
vars == <<flaw, disk, driver, session, taken, lost>>

K == Len(Backend)
Arms == 0..(K - 1)
Native(a) == Backend[a + 1] = "native"

---------------------------------------------------------------------------
(* The builds.                                                             *)

Build(a, kind, s) == [arm |-> a, kind |-> kind, seed |-> s]

\* parse_seeds: no repeats, and none is the unplaced control.
SeedsOk(l) == l # <<>> /\ IsInjective(l) /\ 0 \notin Range(l)

AllSeeds == UNION {Range(l) : l \in {x \in SeedLists : SeedsOk(x)}}
AllBuilds == [arm : Arms, kind : {"seed"}, seed : AllSeeds]
                \cup {Build(a, kind, 0) : a \in {x \in Arms : Native(x)}, kind \in {"seed0", "noflag"}}

\* The first one a link too, as if it were registered before it was looked up.
IsLinkAll(b) == ~Native(b.arm)

\* An LLVM arm's builds after the first are links to the first.
IsLink(b) == ~Native(b.arm) /\ b.seed # seeds[1]
LinkOf(b) == [b EXCEPT !.seed = seeds[1]]

\* The native controls, then seed by seed, the arms in turn and in reverse.
PlanBuilds(l) ==
    LET arms == [i \in 1..K |-> i - 1]
        controls(a) == IF Native(a) THEN <<Build(a, "seed0", 0), Build(a, "noflag", 0)>> ELSE <<>>
        seeded(i) == [j \in 1..K |->
                        Build((IF i % 2 = 1 THEN arms ELSE Reverse(arms))[j], "seed", l[i])]
    IN FlattenSeq([i \in 1..K |-> controls(arms[i])])
         \o FlattenSeq([i \in DOMAIN l |-> seeded(i)])

Planned == Range(plan)
Place(b) == CHOOSE i \in DOMAIN plan : plan[i] = b

\* A binary that is not there, and one of which a part is.
Absent == <<K, "absent">>
Torn == <<K, "torn">>

\* What the compiler under test makes of a build, and what is wrong with it.
Output(b) ==
    CASE ~Native(b.arm) -> <<b.arm, "llvm">>
      [] b.kind = "seed" -> <<b.arm, IF flaw = "no_effect" THEN "plain" ELSE ToString(b.seed)>>
      [] b.kind = "seed0" -> <<b.arm, IF flaw = "seed0" THEN "moved" ELSE "plain">>
      [] OTHER -> <<b.arm, "plain">>

\* Whether layout.py finds the predicted filler, whether the compiler exits 0,
\* whether a binary runs: the arms compute the same, and only a binary or a
\* reference that was cut short gives a bad output.
LayoutOk(b) == ~(flaw = "filler" /\ b.kind = "seed")
Compiles(b) == ~(flaw = "broken" /\ ~Native(b.arm))
RunsRight(contents) == contents \notin {Absent, Torn}

\* Why the builds recorded so far must stop the experiment (abort_reasons, of a
\* plain A/B: under --aa same arms must instead build the same binaries, and
\* --aa salted gives each arm its own placement seed; neither is modelled).
Rejected(rows) ==
    LET seeded(a) == {b \in DOMAIN rows : b.arm = a /\ b.kind = "seed"}
    IN \/ \E a \in Arms : /\ Native(a)
                          /\ \E b, c \in seeded(a) : b # c /\ rows[b] = rows[c]
       \/ \E b \in DOMAIN rows : Native(b.arm) /\ b.kind = "seed" /\ ~LayoutOk(b)
       \/ \E b, c \in DOMAIN rows : /\ b.arm = c.arm /\ b.kind = "seed0" /\ c.kind = "noflag"
                                    /\ rows[b] # rows[c]
       \/ \E b, c \in DOMAIN rows : /\ b.arm # c.arm /\ b.kind = "seed" /\ c.kind = "seed"
                                    /\ b.seed = c.seed /\ rows[b] = rows[c]

---------------------------------------------------------------------------
(* The logs.  A row appended after one cut short runs into it, and is lost *)
(* with it; TsvLog's _trim cuts the remainder when the log is opened.      *)

Garbled == [garbled |-> TRUE]
Append1(log, name, row) == IF name \in torn THEN Append(log, Garbled) ELSE Append(log, row)

\* _trim of a log with a row cut short opens the file, which empties it, and
\* writes the whole rows back without an fsync.  In between it is Emptying:
\* its rows are in the driver's memory only.
Emptied(name) == unsynced' = unsynced \cup (torn \cap {name})
Emptying == torn \cap unsynced
NoTrim(name) == torn
Trim(name) == torn \ {name}

\* An append or a rewrite is fsynced, and with it what _trim wrote.
Flushed(names) == unsynced' = unsynced \ names

\* A log without its header reads as empty until a row takes the header's
\* place; TsvLog and read_tsv then raise.
Refused(name, log) == name \in headless /\ log # <<>>

\* The rows of builds.tsv by path: a later row replaces an earlier one.
ByPath(log) ==
    LET at(b) == {i \in DOMAIN log : log[i] # Garbled /\ log[i].build = b}
        last(b) == CHOOSE i \in at(b) : \A j \in at(b) : j <= i
    IN [b \in {x \in AllBuilds : at(x) # {}} |-> log[last(b)].contents]

Samples(log) == {log[i] : i \in {j \in DOMAIN log : log[j] # Garbled}}

\* The elements of a sequence at some positions.
Sift(s, at) ==
    LET upTo[n \in 0..Len(s)] ==
          IF n = 0 THEN <<>> ELSE IF n \in at THEN Append(upTo[n - 1], s[n]) ELSE upTo[n - 1]
    IN upTo[Len(s)]

\* A round is finished when it has every run, once, with a good output.
RowsAt(log, r) == {i \in DOMAIN log : log[i] # Garbled /\ log[i].run.round = r}
RowsOf(log, r) == Sift(log, RowsAt(log, r))
FinishedIn(log, r) ==
    LET at == RowsAt(log, r)
    IN /\ Cardinality(at) = Reps * K
       /\ Cardinality({<<log[i].run.rep, log[i].run.arm>> : i \in at}) = Reps * K
       /\ \A i \in at : log[i].ok

---------------------------------------------------------------------------
(* Starting a session.                                                     *)

Idle ==
    /\ pc = "idle" /\ old = <<>> /\ done = <<>> /\ todo = <<>> /\ keep = <<>>
    /\ task = [b \in AllBuilds |-> "none"]
    /\ stopping = FALSE /\ refs = "absent" /\ why = None /\ signal = FALSE

Init ==
    /\ flaw \in Flaws
    /\ meta = None /\ used = FALSE /\ bin = [b \in AllBuilds |-> Absent]
    /\ blog = <<>> /\ slog = <<>> /\ dropped = <<>> /\ ref = "absent"
    /\ torn = {} /\ unsynced = {} /\ headless = {}
    /\ Idle /\ seeds = <<>> /\ plan = <<>> /\ session = 0 /\ taken = {} /\ lost = <<>>

Begin(l) ==
    /\ pc = "idle" /\ SeedsOk(l) /\ session < MaxSessions(flaw, Len(l))
    /\ seeds' = l /\ plan' = PlanBuilds(l) /\ session' = session + 1 /\ pc' = "opened" /\ used' = TRUE

\* open_work without --resume: the directory must be empty.
Run(l) ==
    /\ Begin(l) /\ ~used
    /\ UNCHANGED <<flaw, meta, bin, blog, slog, dropped, trims, ref, taken, lost, old, task, done,
                   stopping, todo, keep, refs, why, signal>>

\* open_work with --resume: meta.json says the same, but for more seeds.
Resume(l) ==
    /\ meta # None /\ Begin(l)
    /\ Len(l) >= Len(meta.seeds) /\ SubSeq(l, 1, Len(meta.seeds)) = meta.seeds
    /\ UNCHANGED <<flaw, meta, bin, blog, slog, dropped, trims, ref, taken, lost, old, task, done,
                   stopping, todo, keep, refs, why, signal>>

\* A crash before meta.json was first written leaves a directory that neither
\* starts nor resumes: the user empties it.
Empty ==
    /\ pc = "idle" /\ used /\ meta = None
    /\ used' = FALSE
    /\ UNCHANGED <<flaw, meta, bin, blog, slog, dropped, trims, ref, driver, session, taken, lost>>

\* The main thread's next step, unless Ctrl-C is waiting for it.
Going(phases) == pc \in phases /\ why = None
InPhase(phases) == Going(phases) /\ ~signal

\* experiment up to builds.tsv: meta.json is written (with the last session's
\* status still in it), the log opened, and emptied if it must be trimmed.
Open ==
    /\ pc = "opened"
    /\ meta' = [seeds |-> seeds, status |-> IF meta = None THEN None ELSE meta.status]
    /\ IF Refused("builds", blog)
       THEN why' = "failed" /\ pc' = "leaving" /\ UNCHANGED unsynced
       ELSE pc' = "opening" /\ Emptied("builds") /\ UNCHANGED why
    /\ UNCHANGED <<flaw, used, bin, blog, slog, dropped, torn, headless, ref, seeds, plan, old, task,
                   done, stopping, todo, keep, refs, signal, session, taken, lost>>

\* builds.tsv is written back and read, and the builds are submitted.
ReadBuilds ==
    /\ InPhase({"opening"})
    /\ torn' = Trim("builds")
    /\ old' = ByPath(blog)
    /\ task' = [b \in AllBuilds |->
                  IF b \in Planned THEN IF IsLink(b) THEN "linked" ELSE "queued" ELSE "none"]
    /\ pc' = "building"
    /\ UNCHANGED <<flaw, meta, used, bin, blog, slog, dropped, unsynced, headless, ref, seeds, plan, done,
                   stopping, todo, keep, refs, why, signal, session, taken, lost>>

---------------------------------------------------------------------------
(* The build phase.  A pool worker takes builds in plan order; the main    *)
(* thread records them as they complete, in any order.                     *)

Busy == {b \in AllBuilds : task[b] \in {"claimed", "running"}}

\* A resumed build is reused when its row and its file agree; reusing one by
\* its row alone trusts a file that the crash may have cut short.
ReusableByRow(b) == b \in DOMAIN old
Reusable(b) == b \in DOMAIN old /\ bin[b] = old[b]

Claim(b) ==
    /\ pc = "building" /\ task[b] = "queued" /\ Cardinality(Busy) < Jobs
    /\ \A c \in AllBuilds : task[c] = "queued" =>
          Place(b) <= Place(c)
    /\ task' = [task EXCEPT ![b] = IF Reusable(b) THEN "reused" ELSE "claimed"]
    /\ UNCHANGED <<flaw, disk, pc, seeds, plan, old, done, stopping, todo, keep, refs, why, signal,
                   session, taken, lost>>

\* Under the lock: start the compiler unless the builder is stopping.
Spawn(b) ==
    /\ task[b] = "claimed"
    /\ task' = [task EXCEPT ![b] = IF stopping THEN "cancelled" ELSE "running"]
    /\ bin' = IF stopping THEN bin ELSE [bin EXCEPT ![b] = Torn]
    /\ UNCHANGED <<flaw, meta, used, blog, slog, dropped, trims, ref, pc, seeds, plan, old, done,
                   stopping, todo, keep, refs, why, signal, session, taken, lost>>

\* The compiler (and, for a seeded native build, layout.py) ends.
Built(b) ==
    /\ task[b] = "running"
    /\ bin' = IF Compiles(b) THEN [bin EXCEPT ![b] = Output(b)] ELSE bin
    /\ task' = [task EXCEPT ![b] = IF Compiles(b) THEN "ready" ELSE "broken"]
    /\ UNCHANGED <<flaw, meta, used, blog, slog, dropped, trims, ref, pc, seeds, plan, old, done,
                   stopping, todo, keep, refs, why, signal, session, taken, lost>>

\* A compiler that a signal ended counts as broken, like one that failed.
KilledAsBroken(t) == "broken"

\* A compiler ended by a signal: interrupted, unless the builder itself
\* terminated it.
Killed(t) == IF stopping THEN "cancelled" ELSE "interrupted"

\* Rows with one more.
With(rows, b, row) == [c \in DOMAIN rows \cup {b} |-> IF c = b THEN row ELSE rows[c]]

\* The checks look at the rows this session built only.
RecordedTrusting(b, row, reused) ==
    /\ done' = With(done, b, row)
    /\ blog' = IF reused THEN blog ELSE Append1(blog, "builds", [build |-> b, contents |-> row])
    /\ Flushed(IF reused THEN {} ELSE {"builds"})
    /\ LET rejected == ~reused /\ Rejected(done')
       IN /\ why' = IF rejected THEN "aborted" ELSE None
          /\ pc' = IF rejected THEN "stopping" ELSE pc
          /\ stopping' = rejected
    /\ task' = [task EXCEPT ![b] = "done"]

\* The main thread records a build's row, reused or new, and looks at all the
\* rows so far.
Recorded(b, row, reused) ==
    /\ done' = With(done, b, row)
    /\ blog' = IF reused THEN blog ELSE Append1(blog, "builds", [build |-> b, contents |-> row])
    /\ Flushed(IF reused THEN {} ELSE {"builds"})
    /\ LET rejected == Rejected(done')
       IN /\ why' = IF rejected THEN "aborted" ELSE None
          /\ pc' = IF rejected THEN "stopping" ELSE pc
          /\ stopping' = rejected
    /\ task' = [task EXCEPT ![b] = "done"]

Record(b) ==
    /\ InPhase({"building"}) /\ task[b] \in {"ready", "reused"}
    /\ Recorded(b, IF task[b] = "reused" THEN old[b] ELSE bin[b], task[b] = "reused")
    /\ UNCHANGED <<flaw, meta, used, bin, slog, dropped, torn, headless, ref, seeds, plan, old, todo,
                   keep, refs, signal, session, taken, lost>>

\* A build's exception reaches the main thread.
Raised(b) ==
    /\ Going({"building"}) /\ task[b] \in {"broken", "interrupted"}
    /\ why' = IF task[b] = "broken" THEN "failed" ELSE "interrupted"
    /\ pc' = "stopping" /\ stopping' = TRUE
    /\ UNCHANGED <<flaw, disk, seeds, plan, old, task, done, todo, keep, refs, signal, session, taken, lost>>

\* The links, in plan order, once every direct build is recorded.
LinkBuild(b) ==
    /\ InPhase({"building"}) /\ task[b] = "linked"
    /\ \A c \in Planned : IsLink(c) \/ task[c] = "done"
    /\ \A c \in Planned : task[c] = "linked" =>
          Place(b) <= Place(c)
    /\ bin' = IF Reusable(b) THEN bin ELSE [bin EXCEPT ![b] = bin[LinkOf(b)]]
    /\ Recorded(b, bin'[b], Reusable(b))
    /\ UNCHANGED <<flaw, meta, used, slog, dropped, torn, headless, ref, seeds, plan, old, todo, keep,
                   refs, signal, session, taken, lost>>

\* Every build is recorded: one row per build, in plan order, in a new file
\* that replaces the log whole.
RewriteBuilds ==
    /\ InPhase({"building"}) /\ \A b \in Planned : task[b] = "done"
    /\ blog' = [i \in DOMAIN plan |->
                  [build |-> plan[i], contents |-> done[plan[i]]]]
    /\ torn' = Trim("builds") /\ Flushed({"builds"}) /\ headless' = headless \ {"builds"}
    /\ pc' = "splitting"
    /\ UNCHANGED <<flaw, meta, used, bin, slog, dropped, ref, seeds, plan, old, task, done, stopping,
                   todo, keep, refs, why, signal, session, taken, lost>>

---------------------------------------------------------------------------
(* The timed phase.                                                        *)

Rounds(l) == 0..(Len(l) - 1)

\* Every row is kept, and the round run again all the same.
KeptAlways(r) == TRUE

\* No row is kept.
KeptNever(r) == FALSE

\* Whether a resumed round's rows are kept, or moved away to run it again.
Kept(r) == FinishedIn(slog, r)

\* samples.tsv is read and split, then opened, and emptied if it must be
\* trimmed.
SplitRounds ==
    /\ InPhase({"splitting"})
    /\ IF Refused("samples", slog)
       THEN why' = "failed" /\ pc' = "leaving" /\ UNCHANGED <<unsynced, keep, todo>>
       ELSE /\ LET rows(i) == RowsOf(slog, i - 1)
               IN /\ keep' = FlattenSeq([i \in DOMAIN seeds |-> IF Kept(i - 1) THEN rows(i) ELSE <<>>])
                  /\ todo' = FlattenSeq([i \in DOMAIN seeds |-> IF Kept(i - 1) THEN <<>> ELSE rows(i)])
            /\ pc' = "trimming" /\ Emptied("samples") /\ UNCHANGED why
    /\ UNCHANGED <<flaw, meta, used, bin, blog, slog, dropped, torn, headless, ref, seeds, plan, old, task,
                   done, stopping, refs, signal, session, taken, lost>>

\* samples.tsv is written back; samples.dropped.tsv is opened, and emptied if
\* it must be trimmed, when there are rows to drop.
OpenDropped ==
    /\ InPhase({"trimming"})
    /\ torn' = Trim("samples")
    /\ CASE todo = <<>> -> pc' = "reference" /\ UNCHANGED <<unsynced, why>>
         [] todo # <<>> /\ Refused("dropped", dropped) ->
              why' = "failed" /\ pc' = "leaving" /\ UNCHANGED unsynced
         [] OTHER -> pc' = "dropping" /\ Emptied("dropped") /\ UNCHANGED why
    /\ UNCHANGED <<flaw, meta, used, bin, blog, slog, dropped, headless, ref, seeds, plan, old, task, done,
                   stopping, todo, keep, refs, signal, session, taken, lost>>

\* The log is written back and the rows of unfinished rounds go to it one by
\* one, and only then leave samples.tsv.
DropRow ==
    /\ InPhase({"dropping"}) /\ todo # <<>>
    /\ torn' = Trim("dropped") /\ Flushed({"dropped"})
    /\ dropped' = Append(dropped, Head(todo)) /\ todo' = Tail(todo)
    /\ UNCHANGED <<flaw, meta, used, bin, blog, slog, headless, ref, pc, seeds, plan, old, task, done,
                   stopping, keep, refs, why, signal, session, taken, lost>>

RewriteSamples ==
    /\ InPhase({"dropping"}) /\ todo = <<>>
    /\ slog' = keep /\ pc' = "reference"
    /\ Flushed({"samples"}) /\ headless' = headless \ {"samples"}
    /\ UNCHANGED <<flaw, meta, used, bin, blog, dropped, torn, ref, seeds, plan, old, task, done,
                   stopping, todo, keep, refs, why, signal, session, taken, lost>>

\* The reference is run and its file opened, which empties it...
OpenReference ==
    /\ InPhase({"reference"}) /\ ref = "absent"
    /\ IF RunsRight(bin[Build(0, "seed", seeds[1])])
       THEN ref' = "torn" /\ pc' = "writing" /\ UNCHANGED why
       ELSE why' = "aborted" /\ pc' = "leaving" /\ UNCHANGED ref
    /\ UNCHANGED <<flaw, meta, used, bin, blog, slog, dropped, trims, seeds, plan, old, task, done,
                   stopping, todo, keep, refs, signal, session, taken, lost>>

\* ...and written; or it is read back from an earlier session.
HaveReference ==
    /\ InPhase({"writing", "reference"}) /\ (pc = "reference" => ref # "absent")
    /\ ref' = IF pc = "writing" THEN "whole" ELSE ref
    /\ refs' = ref'
    /\ LET runs == TimedPlan(seeds, K, Reps)
       IN todo' = Sift(runs, {i \in DOMAIN runs : ~FinishedIn(slog, runs[i].round)})
    /\ pc' = "timed"
    /\ UNCHANGED <<flaw, meta, used, bin, blog, slog, dropped, trims, seeds, plan, old, task, done,
                   stopping, keep, why, signal, session, taken, lost>>

OutputOk(run) == refs = "whole" /\ RunsRight(bin[Build(run.arm, "seed", run.seed)])

\* One timed run: its row is appended, and a bad output stops the experiment.
Timed ==
    /\ InPhase({"timed"}) /\ todo # <<>>
    /\ LET row == [run |-> Head(todo), ok |-> OutputOk(Head(todo)), session |-> session]
       IN /\ slog' = Append1(slog, "samples", row)
          /\ Flushed({"samples"})
          /\ taken' = taken \cup {row}
          /\ why' = IF row.ok THEN None ELSE "aborted"
          /\ pc' = IF row.ok THEN "timed" ELSE "leaving"
    /\ todo' = Tail(todo)
    /\ UNCHANGED <<flaw, meta, used, bin, blog, dropped, torn, headless, ref, seeds, plan, old, task, done,
                   stopping, keep, refs, signal, session, lost>>

Finished ==
    /\ InPhase({"timed"}) /\ todo = <<>>
    /\ why' = "done" /\ pc' = "leaving"
    /\ UNCHANGED <<flaw, disk, seeds, plan, old, task, done, stopping, todo, keep, refs, signal,
                   session, taken, lost>>

---------------------------------------------------------------------------
(* Ending a session.                                                       *)

\* Builder.stop under the lock, then the pool waits for its workers: what
\* runs is terminated, what is queued is cancelled.
Terminate(b) ==
    /\ task[b] = "running" /\ (stopping \/ signal)
    /\ task' = [task EXCEPT ![b] = Killed(b)]
    /\ UNCHANGED <<flaw, disk, pc, seeds, plan, old, done, stopping, todo, keep, refs, why, signal,
                   session, taken, lost>>

Stopped ==
    /\ pc = "stopping" /\ Busy = {} /\ pc' = "leaving"
    /\ UNCHANGED <<flaw, disk, seeds, plan, old, task, done, stopping, todo, keep, refs, why, signal,
                   session, taken, lost>>

\* Whether this session may still be cut short: a bound.
MayBeCut ==
    /\ session < MaxSessions(flaw, Len(seeds))
    /\ pc \in {"opened", "opening", "building", "stopping"} =>
          session <= BuildCuts \/ (Emptying # {} /\ Len(seeds) <= TrimCuts)

\* A log is cut to its first n lines: it has its header unless n is 0.
CutTo(log, n) == SubSeq(log, 1, n - 1)
Lines(name, log, names) == IF name \in names THEN 0..(Len(log) + 1) ELSE {0}

\* Some logs are cut, and what samples.tsv and samples.dropped.tsv lose by it
\* is lost for good.
Cut(names, b, s, d) ==
    /\ blog' = IF "builds" \in names THEN CutTo(blog, b) ELSE blog
    /\ slog' = IF "samples" \in names THEN CutTo(slog, s) ELSE slog
    /\ dropped' = IF "dropped" \in names THEN CutTo(dropped, d) ELSE dropped
    /\ headless' = headless \cup
                    {n \in names : [builds |-> b, samples |-> s, dropped |-> d][n] = 0}
    /\ LET rest(log, cut) == Samples(SubSeq(log, Len(cut) + 1, Len(log)))
           took == rest(slog, slog') \cup rest(dropped, dropped')
       IN lost' = IF took = {} THEN lost ELSE Append(lost, took)

\* Ctrl-C reaches the compilers at once, and the main thread at some point.
Interrupt ==
    /\ InPhase({"opening", "building", "splitting", "trimming", "dropping", "reference", "writing",
                "timed"})
    /\ signal' = TRUE /\ MayBeCut
    /\ UNCHANGED <<flaw, disk, pc, seeds, plan, old, task, done, stopping, todo, keep, refs, why,
                   session, taken, lost>>

\* In _trim, before the log is opened, after it is written back, or between
\* the two, which leaves it empty.
Interrupted ==
    /\ signal
    /\ Going({"opening", "building", "splitting", "trimming", "dropping", "reference", "writing", "timed"})
    /\ why' = "interrupted"
    /\ pc' = IF pc = "building" THEN "stopping" ELSE "leaving"
    /\ stopping' = (pc = "building")
    /\ \E opened \in SUBSET Emptying : \E empty \in SUBSET opened :
          /\ torn' = torn \ opened /\ unsynced' = (unsynced \ Emptying) \cup opened
          /\ Cut(empty, 0, 0, 0)
    /\ UNCHANGED <<flaw, meta, used, bin, ref, seeds, plan, old, task, done, todo, keep, refs, signal,
                   session, taken>>

\* Whatever the driver held in memory is gone.
Gone ==
    /\ pc' = "idle" /\ old' = <<>> /\ done' = <<>> /\ todo' = <<>> /\ keep' = <<>>
    /\ task' = [b \in AllBuilds |-> "none"]
    /\ stopping' = FALSE /\ refs' = "absent" /\ why' = None /\ signal' = FALSE

\* main writes the outcome into meta.json.
Leave ==
    /\ pc = "leaving" /\ Gone
    /\ meta' = [meta EXCEPT !.status = why]
    /\ UNCHANGED <<flaw, used, bin, blog, slog, dropped, trims, ref, seeds, plan, session, taken, lost>>

\* The bytes that b's file shares with the links to it.
SameFile(b) == {c \in AllBuilds : c = b \/ (~Native(b.arm) /\ c.arm = b.arm /\ bin[c] # Absent)}

\* The logs that a row is being appended to.
Appending ==
    (IF \E b \in AllBuilds : task[b] = "ready" THEN {"builds"} ELSE {})
      \cup (IF pc = "timed" THEN {"samples"} ELSE {})
      \cup (IF pc = "dropping" /\ todo # <<>> THEN {"dropped"} ELSE {})

\* Power is lost.  Rows are fsynced, so a log loses at most the row being
\* appended, unless _trim has opened it and nothing was flushed since: then any
\* of its lines may go.  A binary's bytes are not fsynced, so the one the last
\* row names may be lost.
Crash ==
    /\ pc # "idle" \/ unsynced # {}
    /\ MayBeCut /\ Gone
    /\ bin' \in {bin} \cup (IF done = <<>> \/ blog = <<>> \/ Last(blog) = Garbled THEN {}
                           ELSE {[c \in AllBuilds |-> IF c \in SameFile(Last(blog).build)
                                                      THEN Torn ELSE bin[c]]})
    /\ \E names \in SUBSET unsynced, more \in SUBSET (Appending \cup unsynced) :
          /\ torn' = (torn \ names) \cup more
          /\ \E b \in Lines("builds", blog, names), s \in Lines("samples", slog, names),
                d \in Lines("dropped", dropped, names) : Cut(names, b, s, d)
    /\ unsynced' = {}
    /\ UNCHANGED <<flaw, meta, used, ref, seeds, plan, session, taken>>

Step ==
    \/ \E b \in AllBuilds : Claim(b) \/ Spawn(b) \/ Built(b) \/ Record(b) \/ Raised(b)
                              \/ LinkBuild(b) \/ Terminate(b)
    \/ Open \/ ReadBuilds \/ RewriteBuilds \/ SplitRounds \/ OpenDropped \/ DropRow \/ RewriteSamples
    \/ OpenReference \/ HaveReference \/ Timed \/ Finished \/ Stopped \/ Leave \/ Interrupted
Start == Empty \/ \E l \in SeedLists : Run(l) \/ Resume(l)
Next == Step \/ Start \/ Interrupt \/ Crash

\* The driver's threads and processes go on; the user starts it again.
Fairness == WF_vars(Step \/ Start)
Spec == Init /\ [][Next]_vars
FairSpec == Spec /\ Fairness

---------------------------------------------------------------------------
(* Properties.                                                             *)

\* When the timed phase begins, builds.tsv holds one row per planned build in
\* plan order, and every binary in the store is the one its row names,
\* whatever was reused, rebuilt, cut short or lost before
\* (ab_build.Builder.run, _reuse).
TimedAsBuilt ==
    pc = "timed" =>
      blog = [i \in DOMAIN plan |->
                [build |-> plan[i], contents |-> bin[plan[i]]]]

\* Builds a check rejects are never timed, in this session or in one resumed
\* after the abort, when a native arm is among the arms
\* (ab_build.abort_reasons).
RejectedNeverTimed ==
    pc = "timed" /\ (\E a \in Arms : Native(a)) =>
      flaw \notin {"seed0", "filler"} /\ (flaw = "no_effect" => Len(seeds) = 1)

\* When a session reports success, every round's rows are its runs in the
\* scheduled order, each once, with good outputs, and all of one session: a
\* round's runs are contiguous in time (ab_timed.split_rounds, Timed.run).
RoundsWhole ==
    why = "done" =>
      \A r \in Rounds(seeds) :
        LET rows == RowsOf(slog, r)
            runs == TimedPlan(seeds, K, Reps)
        IN /\ [i \in DOMAIN rows |-> rows[i].run] = Sift(runs, {i \in DOMAIN runs : runs[i].round = r})
           /\ \A i \in DOMAIN rows : rows[i].ok /\ rows[i].session = rows[1].session

\* Over a full cycle of rounds every arm held every position equally often,
\* and followed every other arm equally often, in the samples kept over all
\* sessions (schedule.williams, round_orders).
PositionsBalanced ==
    (why = "done" /\ Len(seeds) % Cycle(K) = 0) =>
      LET at(a, p) == {i \in DOMAIN slog : slog[i].run.arm = a /\ slog[i].run.pos = p}
          after(a, b) == {i \in 2..Len(slog) :
                            /\ slog[i - 1].run.arm = a /\ slog[i].run.arm = b
                            /\ slog[i].run.pos # 1}
      IN /\ \A a, b \in Arms, p \in 1..K : Cardinality(at(a, p)) = Cardinality(at(b, p))
         /\ \A a, b, c, d \in Arms :
              a # b /\ c # d => Cardinality(after(a, b)) = Cardinality(after(c, d))

\* A sample once appended is in samples.tsv or in samples.dropped.tsv at every
\* later moment, whatever is cut short or moved, unless it was in a log that
\* _trim had opened when Ctrl-C or a power loss cut the driver short
\* (ab.experiment, TsvLog).
NoSampleLost ==
    taken \subseteq Samples(slog) \cup Samples(dropped) \cup UNION Range(lost)

\* What ab_store.py:20-22 says of the logs: an interrupted run loses at most
\* the row being written.
LosesAtMostTheRow == taken \subseteq Samples(slog) \cup Samples(dropped)

\* A session that Ctrl-C ends is never reported as a failed build, even when
\* a compiler the same signal ended is seen first (ab_build.Builder._call).
InterruptNotFailure == signal /\ flaw # "broken" => why # "failed"

\* However the sessions are cut short, the experiment keeps its promise: the
\* rounds completed stay completed, but for those that lose rows in a _trim cut
\* short, and success means all of them.
Promise == INSTANCE Experiment WITH
    asked <- IF meta = None THEN <<>> ELSE meta.seeds,
    finished <- IF meta = None THEN {}
                ELSE {r \in Rounds(meta.seeds) : FinishedIn(slog, r)},
    losses <- [i \in DOMAIN lost |-> {row.run.round : row \in lost[i]}],
    reported <- why = "done"
ImplementsExperiment == Promise!Spec

\* With nothing wrong with the arms, and sessions that stop being cut short,
\* the experiment ends in success; unless the reference file was itself cut
\* short, or a log lost its header, neither of which a later session need
\* repair (ab.main, ab_timed.references, TsvLog._trim).
ExperimentEnds ==
    flaw = "none" => \/ <>(meta # None /\ meta.status = "done")
                     \/ <>[](ref = "torn") \/ <>[](headless # {})
=============================================================================
