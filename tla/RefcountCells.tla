---------------------------- MODULE RefcountCells ----------------------------
(***************************************************************************)
(* The refcount cells of the generated matrices: gen-matrix.py,            *)
(* gen-dispatch-refcount-matrix.py, and the cells of the managed kinds of  *)
(* gen-generic-managed-matrix.py, gen-abi-matrix.py and                    *)
(* gen-type-assert-matrix.py.  A cell moves a value between slots and      *)
(* prints the reference count of one object the value holds.  A program is *)
(* a sequence of what its statements do to the slots: every copy and every *)
(* drop names its site, so that a backend may go wrong at one of them.     *)
(***************************************************************************)
EXTENDS Integers, Sequences, FiniteSets
LOCAL INSTANCE SequencesExt

Nil == "nil"
Observed == "observed"
Slots == {"src", "held", "tgt", "drp", "oth", "v", "x", "res", "lit", "h", "e0", "e1", "e2"}
Elements == {"e0", "e1", "e2"}  \* the slots of the container h
Objects == {Observed, "tgt", "drp", "oth", "h"}

---------------------------------------------------------------------------
(* Statements.                                                             *)

Make(x, o) == <<[do |-> "make", to |-> x, obj |-> o]>>
Copy(site, x, y) == <<[do |-> "copy", to |-> x, from |-> y, site |-> site]>>
Drop(site, x) == <<[do |-> "drop", from |-> x, site |-> site]>>
Count == <<[do |-> "count"]>>
Note == <<[do |-> "note"]>>
Use(x) == <<[do |-> "use", from |-> x]>>
\* Prints yes if the count is n more than when it was noted, else no.
Since(n, yes, no) == <<[do |-> "since", n |-> n, yes |-> yes, no |-> no]>>

Release(flaws, m, o) ==
    LET released == IF o = Nil THEN m ELSE [m EXCEPT !.rc[o] = @ - 1]
        \* A container released for the last time releases its elements.
        empties == o = "h" /\ released.rc["h"] = 0 /\ <<"keep", "dtor">> \notin flaws
        holding == {e \in Elements : m.at[e] = Observed}
    IN IF ~empties THEN released
       ELSE [released EXCEPT !.rc[Observed] = @ - Cardinality(holding),
                             !.at = [s \in Slots |-> IF s \in Elements THEN Nil ELSE m.at[s]]]

Step(flaws, m, s) ==
    LET print(v) == [m EXCEPT !.out = Append(@, v)]
        count == m.rc[Observed]
    IN CASE s.do = "make" -> [m EXCEPT !.at[s.to] = s.obj, !.rc[s.obj] = 1]
         [] s.do = "copy" ->
              LET new == m.at[s.from]
                  old == m.at[s.to]
                  taken == IF new = Nil \/ <<"borrow", s.site>> \in flaws THEN m ELSE [m EXCEPT !.rc[new] = @ + 1]
                  stored == [taken EXCEPT !.at[s.to] = new]
              IN IF <<"keep", s.site>> \in flaws THEN stored ELSE Release(flaws, stored, old)
         [] s.do = "drop" ->
              LET cleared == [m EXCEPT !.at[s.from] = Nil]
              IN IF <<"keep", s.site>> \in flaws THEN cleared ELSE Release(flaws, cleared, m.at[s.from])
         [] s.do = "count" -> print(count)
         [] s.do = "note" -> [m EXCEPT !.noted = count]
         [] s.do = "use" -> print(IF m.at[s.from] = Observed /\ count > 0 THEN m.value ELSE -1)
         [] s.do = "since" -> print(IF count = m.noted + s.n THEN s.yes ELSE s.no)

\* What a backend with these flaws prints for a program whose observed
\* object holds value.
Prints(flaws, value, program) ==
    LET start == [at |-> [s \in Slots |-> Nil], rc |-> [o \in Objects |-> 0], noted |-> 0, value |-> value, out |-> <<>>]
    IN FoldLeft(LAMBDA m, s : Step(flaws, m, s), start, program).out

---------------------------------------------------------------------------
(* The forms of gen-matrix.py.                                             *)

\* baseline 2: a second variable holds the object; fresh: a new value holds
\* an object of its own.
Type(base, use, fresh) == [base |-> base, use |-> use, fresh |-> fresh]
TYPES ==
    [managed_ptr |-> Type(1, 7, TRUE), managed_slice |-> Type(1, 9, TRUE), func_value |-> Type(1, 5, TRUE),
     iface |-> Type(2, 5, TRUE), managed_struct |-> Type(1, 7, FALSE)]

Construct(t) == IF t.base = 2 THEN Make("held", Observed) \o Copy("setup", "src", "held") ELSE Make("src", Observed)
Fresh(t, x) == IF t.fresh THEN Make(x, x) ELSE <<>>

\* A call that returns the value of y: through the parameter into a
\* temporary, which lives to the end of the statement.
Call(y) == Copy("param", "v", y) \o Copy("return", "res", "v") \o Drop("param", "v")
Wrap(y, bind) == Call(y) \o bind \o Drop("temp", "res")

CellProgram(value, program, want) == [value |-> value, program |-> program, want |-> want]

\* Bind src into lv by a form, drop lv; the count rises by one and returns.
Balance(t, bind, lv, drop) ==
    CellProgram(t.use, Construct(t) \o Count \o bind \o Count \o Use(lv) \o drop \o Count,
                <<t.base, t.base + 1, t.use, t.base>>)
Overwrite(t, lv) == Fresh(t, "drp") \o Copy("drop", lv, "drp")

\* Forms and shapes whose target is a variable, a field, an array element
\* or the target of a pointer: a slot, nil before the bind.
SlotForms == {"var-init/ident", "short-var/ident", "assign/selector", "assign/index-array", "assign/index-rawptr", "assign/deref"}
MultiForms == {"multi-short-var/ident", "multi-assign/selector", "multi-assign/index-array", "multi-assign/index-rawptr", "return/value"}

\* Three elements hold src; each iteration copies one and drops the copy.
\* The last drop has a site of its own: a loop may release only once.
ForRangeCell(t, n) ==
    LET elements == SubSeq(<<"e0", "e1", "e2">>, 1, n)
        each(step(_)) == FoldLeft(LAMBDA p, e : p \o step(e), <<>>, elements)
        store(e) == Copy("bind", e, "src")
        body(e) == Copy("iter", "v", e) \o Use("v") \o Drop(IF e = elements[n] THEN "last" ELSE "iter", "v")
    IN CellProgram(t.use, Construct(t) \o Make("h", "h") \o each(store) \o Count \o each(body) \o Count,
                   <<t.base + n>> \o [i \in 1..n |-> t.use] \o <<t.base + n>>)

FormCell(form, t) ==
    LET copy(lv) == Copy("bind", lv, "src")
        result(lv) == Wrap("src", Copy("bind", lv, "res"))
        slice == Make("h", "h")
    IN CASE form \in SlotForms -> Balance(t, copy("tgt"), "tgt", Overwrite(t, "tgt"))
         [] form = "assign/ident" -> Balance(t, Fresh(t, "tgt") \o copy("tgt"), "tgt", Overwrite(t, "tgt"))
         [] form = "assign/index-slice" -> Balance(t, slice \o copy("e0"), "e0", Overwrite(t, "e0"))
         [] form \in MultiForms -> Balance(t, result("tgt"), "tgt", Overwrite(t, "tgt"))
         [] form = "multi-assign/ident" -> Balance(t, Fresh(t, "tgt") \o result("tgt"), "tgt", Overwrite(t, "tgt"))
         [] form = "multi-assign/index-slice" -> Balance(t, slice \o result("e0"), "e0", Overwrite(t, "e0"))
         [] form \in {"composite-lit/elem", "array-lit/elem"} ->
              Balance(t, Copy("field", "lit", "src") \o Copy("bind", "tgt", "lit") \o Drop("literal", "lit"), "tgt",
                      Overwrite(IF form = "array-lit/elem" THEN t ELSE [t EXCEPT !.fresh = FALSE], "tgt"))
         [] form = "mslice-lit/elem" ->
              Balance(t, Fresh(t, "oth") \o slice \o copy("e0") \o Copy("bind", "e1", "oth"), "e0", Overwrite(t, "e0"))
         [] form \in {"assign/blank", "discard/stmt"} ->
              CellProgram(t.use, Construct(t) \o Count \o Wrap("src", <<>>) \o Count, <<t.base, t.base>>)
         [] form = "for-range-value/value" -> ForRangeCell(t, 3)
         [] form = "param/arg" ->
              CellProgram(t.use, Construct(t) \o Count \o Copy("param", "v", "src") \o Count \o Drop("param", "v") \o Count,
                          <<t.base, t.base + 1, t.base>>)

---------------------------------------------------------------------------
(* The other matrices.                                                     *)

Answer == 42

\* gen-dispatch-refcount-matrix.py: a managed result of an indirect call.
DispatchCell(t) ==
    CellProgram(Answer,
        Construct(t) \o Copy("setup", "x", "src") \o Note \o Wrap("x", Copy("bind", "tgt", "res")) \o Since(1, 1, 0)
          \o Use("tgt") \o Overwrite(t, "tgt") \o Since(0, 1, 0),
        <<1, Answer, 1>>)

\* gen-generic-managed-matrix.py: Put stores into the container h, At
\* returns what it holds.
Put == Copy("param", "v", "src") \o Copy("bind", "e0", "v") \o Drop("param", "v")
At0 == Copy("return", "res", "e0") \o Use("res") \o Drop("temp", "res")
HolderCell(t) ==
    CellProgram(Answer,
        Construct(t) \o Make("h", "h") \o Note \o Put \o Since(1, 1, 0) \o At0 \o Drop("drop", "h") \o Since(0, 1, 0),
        <<1, Answer, 1>>)
DestroyPopulatedCell(t) ==
    CellProgram(Answer,
        Construct(t) \o Note \o Copy("param", "x", "src") \o Make("h", "h") \o Put \o Drop("scope", "h")
          \o Drop("param", "x") \o Since(0, 1, 0),
        <<1>>)

\* gen-abi-matrix.py: what a helper thread(x) does with src, and the count
\* after it returned.
Threaded(value, body) ==
    CellProgram(value, Make("src", Observed) \o Copy("param", "x", "src") \o body \o Drop("param", "x") \o Count,
                <<value, 1>>)
ManagedResultCell(value) ==
    Threaded(value, Wrap("x", Copy("bind", "tgt", "res")) \o Use("tgt") \o Drop("scope", "tgt"))
Literal == Copy("field", "lit", "x")
StructReturnCell ==
    Threaded(Answer, Literal \o Copy("return", "res", "lit") \o Drop("literal", "lit") \o Copy("bind", "tgt", "res")
                       \o Drop("temp", "res") \o Use("tgt") \o Drop("scope", "tgt"))
StructParamCell ==
    Threaded(Answer, Literal \o Copy("param", "v", "lit") \o Use("v") \o Drop("param", "v") \o Drop("literal", "lit"))

\* gen-type-assert-matrix.py: an assertion recovers the value, by itself,
\* observed while held, and in each of n iterations of loops.
Recover(x) == Copy("bind", "tgt", x)
RecoverCell ==
    CellProgram(107, Construct(Type(2, 107, TRUE)) \o Note \o Copy("param", "v", "src") \o Recover("v") \o Use("tgt")
                       \o Drop("scope", "tgt") \o Drop("param", "v") \o Since(0, 0, 1),
                <<107, 0>>)
HeldSliceCell ==
    CellProgram(Answer, Make("src", Observed) \o Note \o Recover("src") \o Since(1, 1, 0) \o Use("tgt")
                          \o Drop("scope", "tgt") \o Since(0, 1, 0),
                <<1, Answer, 1>>)
RecoverLoopCell(loops, n) ==
    LET repeat(k, p) == FoldLeft(LAMBDA q, i : q \o p, <<>>, [i \in 1..k |-> i])
    IN CellProgram(0, Make("src", Observed) \o Note
                        \o repeat(loops, repeat(n, Recover("src") \o Drop("iter", "tgt")) \o Since(0, 0, 1)),
                   [i \in 1..loops |-> 0])

---------------------------------------------------------------------------
(* The coordinates, and the flaws their cells are there to show.           *)

Forms == SlotForms \cup MultiForms
           \cup {"assign/ident", "assign/index-slice", "multi-assign/ident", "multi-assign/index-slice",
                 "composite-lit/elem", "array-lit/elem", "mslice-lit/elem", "assign/blank", "discard/stmt",
                 "for-range-value/value", "param/arg"}
Kinds == {[TYPES[n] EXCEPT !.use = Answer] : n \in DOMAIN TYPES}
RefcountCoords ==
    {[form |-> f, type |-> TYPES[n]] : f \in Forms, n \in DOMAIN TYPES}
      \cup {[form |-> f, type |-> t] : f \in {"dispatch", "holder", "destroy-populated"}, t \in Kinds}
      \cup {[form |-> f, type |-> Type(1, Answer, TRUE)] :
              f \in {"managed-result", "struct-return", "struct-param", "recover", "held-slice", "recover-loop", "recover-loops"}}

RefcountCell(c) ==
    CASE c.form \in Forms -> FormCell(c.form, c.type)
      [] c.form = "dispatch" -> DispatchCell(c.type)
      [] c.form = "holder" -> HolderCell(c.type)
      [] c.form = "destroy-populated" -> DestroyPopulatedCell(c.type)
      [] c.form = "managed-result" -> ManagedResultCell(c.type.use)
      [] c.form = "struct-return" -> StructReturnCell
      [] c.form = "struct-param" -> StructParamCell
      [] c.form = "recover" -> RecoverCell
      [] c.form = "held-slice" -> HeldSliceCell
      [] c.form = "recover-loop" -> RecoverLoopCell(1, 3)
      [] c.form = "recover-loops" -> RecoverLoopCell(3, 3)

\* A copy that takes no reference and a drop that releases none, at each
\* site the value passes; where the count is printed while the alias is
\* held, also an alias that neither takes nor releases one.
Sites(program, do) == {s.site : s \in {x \in ToSet(program) : x.do = do}} \ {"setup"}
RefcountClaims(c) ==
    LET p == RefcountCell(c).program
        held == c.form \in (Forms \ {"assign/blank", "discard/stmt", "for-range-value/value", "param/arg"})
                             \cup {"dispatch", "holder", "held-slice"}
    IN {{<<"borrow", s>>} : s \in Sites(p, "copy") \ {"drop"}}
         \cup {{<<"keep", s>>} : s \in Sites(p, "drop") \cup (Sites(p, "copy") \cap {"drop"})}
         \cup (IF held THEN {{<<"borrow", "bind">>, <<"keep", "drop">>, <<"keep", "scope">>}} ELSE {})
         \cup (IF c.form \in {"holder", "destroy-populated"} THEN {{<<"keep", "dtor">>}} ELSE {})
=============================================================================
