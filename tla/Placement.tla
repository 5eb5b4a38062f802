----------------------------- MODULE Placement -----------------------------
(***************************************************************************)
(* Function-placement filler: how a seeded build places its functions      *)
(* (perf/placement/placehash.py), what an ELF link makes of its objects,   *)
(* and the check of the linked text against the prediction (layout.py      *)
(* --expect-seed: layout_seed.py over the tails and pieces of              *)
(* layout_span.py).  An instance of the module places a few functions in a *)
(* few objects; the hash is any function of seed and symbol.               *)
(***************************************************************************)
EXTENDS Integers, Sequences, FiniteSets, SequencesExt, FiniteSetsExt

CONSTANTS
    Span,      \* PLACE_SPAN: the byte period placement works modulo
    Unit,      \* filler granularity, and the alignment of an entry
    Names,     \* the symbols of the Binate functions
    Probes,    \* those that may be probed
    Exported,  \* those whose first entry point is a C alias
    NoProbe,   \* no function is probed
    Hashes,    \* what the hash may give: functions from Names to phases
    Archs,     \* the architectures built for
    Sizes,     \* lengths of a function, in instructions
    Programs   \* the programs: per object, the functions in its order

ASSUME SpanAssumption == Unit \in Nat \ {0} /\ Span \in Nat \ {0} /\ Span % Unit = 0
ASSUME NamesAssumption == Probes \subseteq Names /\ Exported \subseteq Names /\ NoProbe \notin Names
ASSUME ProgramsAssumption == Sizes \subseteq Nat /\ Programs \subseteq Seq(Seq(Names))

VARIABLES
    build,   \* what the build was asked for, and what is checked
    program, \* the modules it compiles
    objects, \* the objects written: the items of their text, at offset 0
    twin,    \* the same objects of a build whose probe has another phase
    plan,    \* the functions of the object being written
    flaw,    \* what a faulty backend did, and to which function
    rows     \* the rows of the check, NotChecked until it ran

vars == <<build, program, objects, twin, plan, flaw, rows>>

Phases == {p \in 0..(Span - 1) : p % Unit = 0}
ASSUME HashesAssumption == Hashes # {} /\ Hashes \subseteq [Names -> Phases]

NotChecked == {}
Sound == [kind |-> "none", object |-> 0, index |-> 0, masked |-> FALSE]

---------------------------------------------------------------------------
(* The formulas of placehash.py, for the build b and its probe phase.      *)

AlignUp(off, unit) == ((off + unit - 1) \div unit) * unit
IsProbe(b, name) == name = b.probe
Placing(b) == b.seed # 0 \/ b.probe # NoProbe

EntryPhase(b, name) == IF IsProbe(b, name) THEN b.phase ELSE b.hash[name]

\* Filler before name at offset off: what brings the aligned offset to the
\* phase, or in shift mode the phase itself; none at seed 0.
FillBefore(b, name, off) ==
    IF ~IsProbe(b, name) /\ b.seed = 0 THEN 0
    ELSE IF ~IsProbe(b, name) /\ b.mode = "shift" THEN EntryPhase(b, name)
    ELSE (EntryPhase(b, name) - AlignUp(off, Unit)) % Span

\* Mutant of FillAfter: no filler after a function that needed none before.
FillAfterMod(b, name, before) == IF IsProbe(b, name) THEN (Span - before) % Span ELSE 0

FillAfter(b, name, before) == IF IsProbe(b, name) THEN Span - before ELSE 0

---------------------------------------------------------------------------
(* Text: items with an address, a size, a class and what they belong to.   *)

Item(a, n, c, of) == [a |-> a, n |-> n, c |-> c, of |-> of]
BodyOf(name) == <<"body", name>>
AliasOf(name) == <<"alias", name>>
CopyOf(name) == <<"copy", name>>    \* a body without a symbol
Descriptor == <<"package", NoProbe>>
Nothing == <<"none", NoProbe>>

EndOf(text) == IF text = <<>> THEN 0 ELSE Last(text).a + Last(text).n
Insn(b) == IF b.arch = "x86_64" THEN 1 ELSE Unit
GapFillIsFiller(b) == b.arch = "x86_64"

\* The text with n more bytes of class c; bytes that look alike are one item.
Put(text, n, c, of) ==
    IF n = 0 THEN text
    ELSE IF text # <<>> /\ c # "CODE" /\ Last(text).c = c
         THEN [text EXCEPT ![Len(text)].n = @ + n]
         ELSE Append(text, Item(EndOf(text), n, c, of))
Aligned(text) == Put(text, AlignUp(EndOf(text), Unit) - EndOf(text), "PAD", Nothing)

\* A function's code: the entry sequence of its alias if it has one, its body.
Code(b, text, fn) ==
    LET lead == IF fn.name \in Exported THEN <<AliasOf(fn.name)>> ELSE <<>>
        parts == lead \o [i \in 1..fn.size |-> BodyOf(fn.name)]
    IN text \o [i \in DOMAIN parts |->
                  Item(EndOf(text) + (i - 1) * Insn(b), Insn(b), "CODE", parts[i])]

\* One function as EmitObject writes it; a flaw of the backend changes the
\* filler around it.
EmitFunc(b, text, fn, kind) ==
    LET fill == FillBefore(b, fn.name, EndOf(text))
        before == CASE kind = "nofill" -> text
                    [] kind = "zeros" -> Put(text, fill, "GAP", Nothing)
                    [] OTHER -> Put(text, fill, "FILL", Nothing)
        post == IF kind = "nopost" THEN 0 ELSE FillAfter(b, fn.name, fill)
    IN Put(Code(b, Aligned(before), fn), post, "FILL", Nothing)

\* An object: its functions, then synthesized code that gets no filler.
EmitObject(b, fns, kind, at) ==
    LET text[i \in 0..Len(fns)] ==
          IF i = 0 THEN <<>> ELSE EmitFunc(b, text[i - 1], fns[i], IF i = at THEN kind ELSE "none")
    IN Put(Aligned(text[Len(fns)]), Insn(b), "CODE", Descriptor)

---------------------------------------------------------------------------
(* The link: objects one after the other, each at its alignment.  Every    *)
(* copy of a function stays, with the symbol of the first one only.        *)

ObjectAlign(b) ==
    IF b.probe # NoProbe \/ (b.seed # 0 /\ b.mode = "phase") THEN Span ELSE Unit

Bodies(text) == {text[i].of : i \in DOMAIN text}

\* The object moved to base, without the symbols an earlier object defines.
Relocated(text, base, known) ==
    [i \in DOMAIN text |->
       LET it == text[i]
           dup == it.of \in known /\ it.of[1] \in {"body", "alias"}
       IN [it EXCEPT !.a = @ + base, !.of = IF dup THEN CopyOf(it.of[2]) ELSE @]]

Link(b, objs) ==
    LET Add(text, obj) ==
          LET base == AlignUp(EndOf(text), ObjectAlign(b))
              gap == IF GapFillIsFiller(b) THEN "FILL" ELSE "GAP"
          IN Put(text, base - EndOf(text), gap, Nothing) \o Relocated(obj, base, Bodies(text))
    IN FoldLeft(Add, <<>>, objs)

---------------------------------------------------------------------------
(* The functions the layout finds: one per symbol, from it to the next.    *)

SymbolAt(text, i) ==
    /\ text[i].of[1] \in {"body", "alias", "package"}
    /\ i = 1 \/ text[i - 1].of # text[i].of

\* Symbol indexes into the text, in address order.
Symbols(text) == SetToSortSeq({i \in DOMAIN text : SymbolAt(text, i)}, <)

Funcs(text) ==
    LET syms == Symbols(text)
    IN [k \in DOMAIN syms |->
          LET lo == syms[k]
              hi == IF k = Len(syms) THEN Len(text) ELSE syms[k + 1] - 1
              own == Max({i \in lo..hi : text[i].of = text[lo].of})
          IN [addr |-> text[lo].a, name |-> text[lo].of[2], role |-> text[lo].of[1],
              end |-> text[own].a + text[own].n, lo |-> lo, own |-> own, hi |-> hi]]

\* Sum of the sizes of the items of text with index in S.
Bytes(text, S) == FoldSet(LAMBDA i, n : n + text[i].n, 0, S)

\* The unsymbolized code of items lo..hi, filler runs splitting it: per piece
\* the filler run before it, where it starts, and the phases of its other items.
Pieces(text, lo, hi) ==
    LET code == {i \in lo..hi : text[i].c = "CODE"}
        Prev(i) == LET js == {j \in code : j < i} IN IF js = {} THEN lo - 1 ELSE Max(js)
        FillsBefore(i) == {j \in (Prev(i) + 1)..(i - 1) : text[j].c = "FILL"}
        heads == {i \in code : Prev(i) = lo - 1 \/ FillsBefore(i) # {}}
        Rest(i) == {j \in code : j > i /\ \A h \in heads : h > i => j < h}
    IN [m \in 1..Cardinality(heads) |->
          LET i == SetToSortSeq(heads, <)[m]  fs == FillsBefore(i)
          IN [runStart |-> IF fs = {} THEN text[i].a ELSE text[Min(fs)].a,
              runLen |-> Bytes(text, fs), start |-> text[i].a,
              phases |-> {text[j].a % Span : j \in Rest(i)}]]

\* The trailing material of items lo..hi, which end at address entry.
Trail(text, lo, own, hi, entry) ==
    LET code == {i \in lo..hi : text[i].c = "CODE"}
        notPad == {i \in lo..hi : text[i].c # "PAD"}
        k == IF notPad = {} THEN lo - 1 ELSE Max(notPad)
        notFill == {i \in lo..k : text[i].c # "FILL"}
        j == IF notFill = {} THEN lo - 1 ELSE Max(notFill)
        fill == Bytes(text, (j + 1)..k)
        start == IF j < hi THEN text[j + 1].a ELSE entry
        body == IF code # {} THEN text[Max(code)].a + text[Max(code)].n
                ELSE IF lo <= hi THEN text[lo].a ELSE entry
    IN [body |-> body, pad |-> Bytes(text, (k + 1)..hi), fill |-> fill, start |-> start,
        gap |-> start - body,
        pieces |-> IF code = {} THEN <<>> ELSE Pieces(text, own + 1, Max(code))]

---------------------------------------------------------------------------
(* The check (layout_seed.expect_seed) of the linked text.                 *)

PlacedFunc(f) == f.role = "body"

\* The trailing material of function k, up to the next symbol; k = 0: of what
\* lies before the first one.
TrailOf(text, fs, k) ==
    LET at == IF k < Len(fs) THEN fs[k + 1].addr ELSE EndOf(text)
    IN IF k = 0 THEN Trail(text, 1, 0, fs[1].lo - 1, at)
       ELSE Trail(text, fs[k].lo, fs[k].own, fs[k].hi, at)

\* The row's subject: function k, where its first entry is (in an alias right
\* before it, if there is one), what trails before that entry, which function
\* that is the extent of, and whether an object may start there.
Entry(text, fs, k) ==
    LET aliased == k > 1 /\ fs[k - 1].role = "alias" /\ fs[k - 1].hi = fs[k - 1].own
        e == IF aliased THEN k - 1 ELSE k
    IN [name |-> fs[k].name, e |-> fs[e].addr, prev |-> e - 1, t |-> TrailOf(text, fs, e - 1),
        first |-> e = 1 \/ ~PlacedFunc(fs[e - 1])]

\* The row of entry n, with post bytes of a probe's trailing filler before it.
Row(b, n, post) ==
    LET t == n.t
        want == post + FillBefore(b, n.name, t.body + post)
        least == FillBefore(b, n.name, 0)
        phased == IsProbe(b, n.name) \/ (b.seed # 0 /\ b.mode = "phase")
        phaseOk == phased => n.e % Span = EntryPhase(b, n.name)
        follows == t.gap = 0 /\ t.fill = want /\ n.e = AlignUp(t.body + want, Unit)
        starts == n.first /\ (least = 0 \/ t.pad = 0) /\ (n.e - least) % Unit = 0
        exactFirst == starts /\ t.fill = least
        merged == /\ GapFillIsFiller(b) /\ starts
                  /\ t.fill > least /\ t.gap = 0 /\ t.fill - least < Span
    IN [name |-> n.name, ok |-> phaseOk /\ (follows \/ exactFirst \/ merged),
        pre |-> IF ~follows /\ (exactFirst \/ merged) THEN least ELSE want]

\* Mutant of CopyPosts: only copies that a filler run delimits.
CopyPostsDelimited(b, n, prevName) ==
    IF b.probe = NoProbe \/ n.t.pieces = <<>> \/ IsProbe(b, prevName) THEN {}
    ELSE LET p == Last(n.t.pieces)
             whole == p.start % Span = b.phase /\ p.runLen = FillBefore(b, b.probe, p.runStart)
         IN IF whole THEN {Span - p.runLen} ELSE {}

\* The trailing fillers an unsymbolized copy of the probed function may have
\* left before the entry's own filler.
CopyPosts(b, n, prevName) ==
    IF b.probe = NoProbe \/ n.t.pieces = <<>> \/ IsProbe(b, prevName) THEN {}
    ELSE LET p == Last(n.t.pieces)
             whole == p.start % Span = b.phase /\ p.runLen = FillBefore(b, b.probe, p.runStart)
         IN (IF whole THEN {Span - p.runLen} ELSE {})
              \cup (IF b.phase \in p.phases THEN {Span} ELSE {})

\* Mutant of AfterProbe: the run is not compared where no code follows it.
AfterProbeLoose(b, f, pre, after) ==
    LET post == Span - pre
        extra == after.pieces[1].runLen - post
    IN after.pieces # <<>> =>
       /\ after.pieces[1].runStart = f.end /\ extra >= 0
       /\ IF b.seed = 0 THEN extra = 0 ELSE extra < Span /\ extra % Unit = 0

\* The filler run right after the probed function f, whose row has pre bytes
\* before it, when no other row's filler covers it.
AfterProbe(b, f, pre, after) ==
    LET post == Span - pre
        extra == after.pieces[1].runLen - post
    IN IF after.pieces # <<>>
       THEN /\ after.pieces[1].runStart = f.end /\ extra >= 0
            /\ IF b.seed = 0 THEN extra = 0 ELSE extra < Span /\ extra % Unit = 0
       ELSE after.gap = 0 /\ after.fill = post

\* All rows: one per function that gets filler.
ExpectSeed(b, text) ==
    LET fs == Funcs(text)
        funcs == {k \in DOMAIN fs : PlacedFunc(fs[k])}
        entry == [k \in funcs |-> Entry(text, fs, k)]
        probed == {k \in funcs : IsProbe(b, fs[k].name)}
        pre == [k \in probed |-> Row(b, entry[k], 0).pre]
        covers == {k \in funcs : entry[k].t.pieces = <<>> /\ entry[k].prev \in probed}
        Posts(k) ==
          LET p == entry[k].prev
          IN IF k \in covers THEN {Span - pre[p]}
             ELSE IF k \in probed \/ p = 0 THEN {0}
             ELSE {0} \cup CopyPosts(b, entry[k], fs[p].name)
        AfterOk(k) ==
          \/ \E c \in covers : entry[c].prev = k
          \/ AfterProbe(b, fs[k], pre[k], TrailOf(text, fs, k))
    IN {[name |-> fs[k].name,
         ok |-> /\ \E post \in Posts(k) : Row(b, entry[k], post).ok
                /\ k \in probed => AfterOk(k)] : k \in funcs}

---------------------------------------------------------------------------
(* A build, function by function.                                          *)

\* What bnc's switches may ask for; at seed 0 neither mode nor hash matters.
Builds ==
    {b \in [arch : Archs, seed : {0, 1}, mode : {"shift", "phase"}, hash : Hashes,
            probe : Probes \cup {NoProbe}, phase : Phases] :
       /\ b.probe = NoProbe => b.phase = 0
       /\ b.seed = 0 => b.mode = "shift" /\ b.hash = CHOOSE x \in Hashes : TRUE}

PlaceInit ==
    /\ build \in Builds /\ program \in Programs
    /\ objects = <<>> /\ twin = <<>> /\ plan = <<>> /\ rows = NotChecked /\ flaw = Sound

\* The functions of the object being written.
Module == program[Len(objects) + 1]

\* The next function of the module is compiled to some length.
AddFunction ==
    /\ Len(objects) < Len(program) /\ Len(plan) < Len(Module)
    /\ \E size \in Sizes : plan' = Append(plan, [name |-> Module[Len(plan) + 1], size |-> size])
    /\ UNCHANGED <<build, program, objects, twin, flaw, rows>>

OtherPhase(b) == [b EXCEPT !.phase = (@ + Unit) % Span]

\* Whether an earlier object has the symbol.
Defined(name) == \E i \in DOMAIN objects : BodyOf(name) \in Bodies(objects[i])

\* Whether a row could not tell a flaw.  After code without a symbol, a copy
\* of the probe may have left its own filler there, or the function may be the
\* first of its object; before an object's first function lld's INT3 is taken
\* for filler; and after the probed function the filler of one whose symbol is
\* gone may stand in.
Masked(kind, at) ==
    \/ kind \in {"nofill", "zeros"} /\ at > 1 /\ Defined(plan[at - 1].name)
    \/ kind = "nofill" /\ at = 1 /\ GapFillIsFiller(build) /\ objects # <<>>
    \/ kind = "nopost" /\ build.seed # 0 /\ at < Len(plan) /\ Defined(plan[at + 1].name)

\* The object is written, by the compiler or by one with a flaw.  Only a
\* function that keeps its symbol has a row of its own that could show it.
WriteObject ==
    /\ Len(objects) < Len(program) /\ Len(plan) = Len(Module)
    /\ \E kind \in {"none", "nofill", "zeros", "nopost"}, at \in DOMAIN plan :
         /\ kind # "none" =>
              /\ flaw = Sound
              /\ ~Defined(plan[at].name)
         /\ objects' = Append(objects, EmitObject(build, plan, kind, at))
         /\ flaw' = IF objects'[Len(objects')] = EmitObject(build, plan, "none", at) THEN flaw
                    ELSE [kind |-> kind, object |-> Len(objects) + 1, index |-> at,
                          masked |-> Masked(kind, at)]
    /\ twin' = Append(twin, EmitObject(OtherPhase(build), plan, "none", 1))
    /\ plan' = <<>>
    /\ UNCHANGED <<build, program, rows>>

\* The link, and the check of the linked text.
Check ==
    /\ rows = NotChecked /\ Len(objects) = Len(program)
    /\ rows' = ExpectSeed(build, Link(build, objects))
    /\ UNCHANGED <<build, program, objects, twin, plan, flaw>>

PlaceNext == AddFunction \/ WriteObject \/ Check

PlaceSpec == PlaceInit /\ [][PlaceNext]_vars
---------------------------------------------------------------------------
(* Properties.                                                             *)

\* An object whose first function is a copy of the probed one without a
\* symbol, after a gap that lld fills with what looks like filler.
CopyAfterGap ==
    /\ GapFillIsFiller(build)
    /\ \E i \in 2..Len(objects) :
         LET own == {j \in DOMAIN objects[i] : objects[i][j].c = "CODE"}
         IN /\ objects[i][Min(own)].of \in {BodyOf(build.probe), AliasOf(build.probe)}
            /\ \E j \in 1..(i - 1) : BodyOf(build.probe) \in Bodies(objects[j])

AllPass == rows # NotChecked /\ flaw = Sound => \A r \in rows : r.ok

\* A build that follows the formulas passes the check, whatever the linker
\* put between the objects and whichever copies lost their symbols
\* (layout_seed.expect_seed raises no false alarm), but for one case: lld's
\* INT3 before a copy of the probed function that starts its object, after
\* which the next function's row fails (layout_seed._copy_posts).
ConformingPasses == ~CopyAfterGap => AllPass

\* A function whose filler is missing or zeroed, or a probe without its
\* trailing filler, fails the check, unless other filler stands in for it.
FlawFails == flaw # Sound /\ ~flaw.masked /\ rows # NotChecked => \E r \in rows : ~r.ok

\* Moving the probe's phase moves nothing but the probed function: all other
\* code of the object stays at its offset (fill_before, fill_after).
ProbeNeutral ==
    build.probe # NoProbe /\ flaw = Sound =>
      \A i \in DOMAIN objects :
        LET OtherItems(text) == {text[j] : j \in {m \in DOMAIN text :
                               text[m].c = "CODE" /\ text[m].of[2] # build.probe}}
        IN OtherItems(objects[i]) = OtherItems(twin[i])
=============================================================================
