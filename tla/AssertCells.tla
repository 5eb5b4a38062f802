----------------------------- MODULE AssertCells -----------------------------
(***************************************************************************)
(* The value cells of gen-type-assert-matrix.py: what a type assertion and *)
(* a type switch recover from an interface value.  An interface value has  *)
(* a dynamic type, or none when unset; the concrete value behind it may be *)
(* nil.  A cell is a sequence of checks, each printing what its operand    *)
(* gives when the recovery hits, or else the marker of a miss; an abort    *)
(* form that misses ends the program.                                      *)
(***************************************************************************)
EXTENDS Integers, Sequences

Unset == "unset"
SomeType == "some type"  \* what present() asks for
Aborted == -99   \* the abort form's panic, and nothing after it

\* The declarations of the cells: the interfaces each type implements, and
\* the interfaces each interface extends.
IMPLS == [Dog |-> {"Animal", "Named"}, Cat |-> {"Animal"}, Fox |-> {"Animal"}, Res |-> {"RC"},
          int |-> {}, bool |-> {}, BoxInt |-> {}, BoxBool |-> {}]
ANCESTORS == [RC |-> {"Reader", "Closer"}, Animal |-> {}, Named |-> {}, Flyer |-> {}, Reader |-> {},
              Closer |-> {}, Writer |-> {}]
\* The generic type an instantiation is of.
INSTANCES == [BoxInt |-> "Box", BoxBool |-> "Box"]

Interface(dyn) == [dyn |-> dyn, nil |-> FALSE]
TypedNil(dyn) == [dyn |-> dyn, nil |-> TRUE]

Satisfies(flaw, dyn, iface) ==
    \/ iface \in IMPLS[dyn]
    \/ flaw # "no_ancestors" /\ \E i \in IMPLS[dyn] : iface \in ANCESTORS[i]

\* Does an assertion of the target type hit?
Hits(flaw, v, target) ==
    CASE v.dyn = Unset -> flaw = "unset_hits"
      [] target = SomeType -> ~(v.nil /\ flaw = "nil_is_unset")
      [] v.nil /\ flaw = "nil_is_unset" -> FALSE
      [] target \in DOMAIN ANCESTORS -> flaw = "any_interface" \/ Satisfies(flaw, v.dyn, target)
      [] OTHER -> \/ v.dyn = target
                  \/ flaw = "any_type"
                  \/ flaw = "one_instantiation" /\ {v.dyn, target} \subseteq DOMAIN INSTANCES /\ INSTANCES[v.dyn] = INSTANCES[target]

---------------------------------------------------------------------------
(* Checks.                                                                 *)

Check(v, targets, yes, no) == [v |-> v, arms |-> <<[targets |-> targets, prints |-> yes]>>, no |-> no]
Abort(v, target, yes) == Check(v, {target}, yes, Aborted)
CommaOk(v, target, yes, no) == Check(v, {target}, yes, no)
Switch(v, arms, default) == [v |-> v, arms |-> arms, no |-> default]
Arm(targets, prints) == [targets |-> targets, prints |-> prints]

\* The first arm one of whose targets hits, as a type switch takes it.
Result(flaw, check) ==
    LET hit == {i \in DOMAIN check.arms : \E t \in check.arms[i].targets : Hits(flaw, check.v, t)}
    IN IF hit = {} THEN check.no
       ELSE check.arms[CHOOSE i \in hit : \A j \in hit : i <= j].prints

\* The lines of a cell, up to the panic of an abort form that misses.
LinesOf(flaw, checks) ==
    LET out == [i \in DOMAIN checks |-> Result(flaw, checks[i])]
        stops == {i \in DOMAIN out : out[i] = Aborted}
    IN IF stops = {} THEN out ELSE SubSeq(out, 1, CHOOSE i \in stops : \A j \in stops : i <= j)

---------------------------------------------------------------------------
(* The cells: checks and the lines wanted.                                 *)

AssertCell(checks, want) == [checks |-> checks, want |-> want]

iface_ok(target) ==
    AssertCell(<<Abort(Interface("Dog"), target, 105), CommaOk(Interface("Dog"), target, 105, -1),
                 CommaOk(Interface("Cat"), target, 1000, 0), CommaOk(Interface(Unset), target, 105, 1)>>,
               <<105, 105, 0, 1>>)
iface_abort(dyn, target) == AssertCell(<<Abort(Interface(dyn), target, 109)>>, <<Aborted>>)
ancestor_ok ==
    AssertCell(<<Abort(Interface("Res"), "Reader", 10), CommaOk(Interface("Res"), "Closer", 11, -1),
                 Abort(Interface("Res"), "RC", 10), CommaOk(Interface("Res"), "Writer", 1000, 0),
                 CommaOk(Interface(Unset), "Reader", 10, 1)>>,
               <<10, 11, 10, 0, 1>>)
any_scalar ==
    AssertCell(<<Abort(Interface("int"), "int", 1), CommaOk(Interface("int"), "int", 2, -2),
                 CommaOk(Interface("int"), "bool", -3, 3), Switch(Interface("int"), <<Arm({"int"}, 4)>>, -4)>>,
               <<1, 2, 3, 4>>)
any_generic_inst ==
    AssertCell(<<Abort(Interface("BoxInt"), "BoxInt", 1), CommaOk(Interface("BoxInt"), "BoxInt", 2, -2),
                 CommaOk(Interface("BoxInt"), "BoxBool", -3, 3)>>,
               <<1, 2, 3>>)
iface_struct_value ==
    AssertCell(<<Abort(Interface("Dog"), "Dog", 7), CommaOk(Interface("Dog"), "Dog", 7, -1),
                 CommaOk(Interface("Dog"), "Cat", 999, 0)>>,
               <<7, 7, 0>>)

classify(v, sound) == Switch(v, <<Arm({"Dog"}, sound + 100), Arm({"Cat"}, sound + 1000)>>, -1)
hasName(v) == Switch(v, <<Arm({"Named"}, 1)>>, 0)
grouped(v, sound) == Switch(v, <<Arm({"Dog", "Cat"}, sound + 10)>>, sound + 20)
narrowing ==
    LET dog == Interface("Dog")
        cat == Interface("Cat")
        fox == Interface("Fox")
    IN AssertCell(<<classify(dog, 5), classify(cat, 4), classify(fox, 3), hasName(dog), hasName(cat),
                    grouped(dog, 5), grouped(fox, 3)>>,
                  <<105, 1004, -1, 1, 0, 15, 23>>)

absent ==
    LET present(v, yes, no) == Check(v, {SomeType}, yes, no)
        absentClassify(v) == Switch(v, <<Arm({"Dog"}, 1), Arm({"Cat"}, 2)>>, -1)
        un == Interface(Unset)
    IN AssertCell(<<present(TypedNil("Dog"), 1, -1), absentClassify(TypedNil("Dog")), present(un, -2, 2), absentClassify(un)>>,
                  <<1, 1, 2, -1>>)

AssertCellOf ==
    [concrete_ok |-> iface_ok("Dog"), iface_ok |-> iface_ok("Named"), ancestor_ok |-> ancestor_ok,
     concrete_abort |-> iface_abort("Cat", "Dog"), iface_abort |-> iface_abort("Cat", "Named"),
     ancestor_abort |-> iface_abort("Res", "Writer"), any_scalar |-> any_scalar,
     generic_inst |-> any_generic_inst, struct_value |-> iface_struct_value,
     narrowing |-> narrowing, absent |-> absent]

AssertClaims(name) ==
    LET when(cells, flaw) == IF name \in cells THEN {flaw} ELSE {}
    IN when({"concrete_ok", "concrete_abort", "any_scalar", "generic_inst", "struct_value", "narrowing"}, "any_type")
         \cup when({"iface_ok", "iface_abort", "ancestor_ok", "ancestor_abort", "narrowing"}, "any_interface")
         \cup when({"ancestor_ok"}, "no_ancestors")
         \cup when({"concrete_ok", "iface_ok", "ancestor_ok", "absent"}, "unset_hits")
         \cup when({"absent"}, "nil_is_unset")
         \cup when({"generic_inst"}, "one_instantiation")
=============================================================================
