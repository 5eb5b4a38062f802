------------------------------- MODULE VMFault -------------------------------
(***************************************************************************)
(* Recoverable faults of the bytecode VM (src/pkg/binate/vm): the frame    *)
(* stack, the cleanup pads that release a frame's managed slots, the       *)
(* destructor frames those releases push, and the re-entrant execFunc runs *)
(* that compiled callees start while an outer execLoop is suspended.       *)
(*                                                                         *)
(* A function body is abstracted to the operations that touch this state,  *)
(* in any order; a managed value is a block with a refcount and at most    *)
(* one managed field.  A block with a field has a VM-side destructor, one  *)
(* without is freed at once.                                               *)
(***************************************************************************)
EXTENDS Integers, Sequences, FiniteSets

CONSTANTS
  Blocks,         \* managed heap blocks
  Nil,            \* the nil reference
  Slots,          \* managed local slots of a user frame (a set 1..n)
  USER_EXTENT,    \* frameExtent of a user function
  DTOR_EXTENT,    \* frameExtent of a destructor or helper function
  TEMP_GROWTH,    \* MaxStmtTempGrowth of a user function
  StackSize,      \* vm.StackSize
  StackRedZone,   \* vm.StackRedZone
  PollReplies,    \* statuses an armed Poll may request
  HelperCalls,    \* TRUE iff a slot may be released by calling a helper
  MaxCallbacks    \* bound: callbacks one compiled callee makes

ASSUME SlotsAssumption ==
  IsFiniteSet(Slots) /\ Slots = 1..Cardinality(Slots) /\ 1 \in Slots
ASSUME NilAssumption == Nil \notin Blocks /\ IsFiniteSet(Blocks)
ASSUME SizesAssumption ==
  /\ {USER_EXTENT, DTOR_EXTENT} \subseteq Nat \ {0}
  /\ {TEMP_GROWTH, StackSize, MaxCallbacks} \subseteq Nat
  /\ StackRedZone \in Int
ASSUME PollAssumption ==
  PollReplies \subseteq {"SUSPENDED", "BROKE"} /\ HelperCalls \in BOOLEAN
\* __init_all and one package initializer fit on any stack a host makes.
ASSUME StackAssumption ==
  2 * (USER_EXTENT + TEMP_GROWTH) <= StackSize - StackRedZone

VARIABLES
  vm,       \* the @VM fields: SP, Status, FaultMsg, FaultRaised, CleanupDepth,
            \* Poll (the host armed one), and abort, the vmPanic that ended the
            \* process ("none": running)
  stack,    \* frames, VM and compiled, in call order; the last one runs
  rc,       \* refcount of each block
  field,    \* managed field of each block
  live,     \* blocks allocated and not freed
  raised,   \* history: a recoverable fault was recorded since the host's call
  lost      \* history: blocks moved into a frame that was pushed and abandoned

vars == <<vm, stack, rc, field, live, raised, lost>>

Refs == Blocks \cup {Nil}
Empty == [s \in Slots |-> Nil]
Only(b) == [Empty EXCEPT ![1] = b]
Top == stack[Len(stack)]
Below == SubSeq(stack, 1, Len(stack) - 1)
Running == stack # <<>> /\ vm.abort = "none"

\* A frame: kind, what it is doing (its body, releasing slots on the way to
\* BC_RETURN, or in a cleanup pad), whether its FaultTable has pads, its slots,
\* the SP it was pushed at (hdr[3]) and the block freed when it pops (hdr[5]).
\* calls belongs to compiled frames: the callbacks made.
Frame(kind, mode, table, slots, base, freeOnPop) ==
  [kind |-> kind, mode |-> mode, table |-> table, slots |-> slots, base |-> base,
   freeOnPop |-> freeOnPop, calls |-> 0]

frameExtent(kind) ==
  IF kind \in {"dtor", "helper"} THEN DTOR_EXTENT ELSE USER_EXTENT
frameReserve(kind) ==
  frameExtent(kind) + IF kind \in {"dtor", "helper"} THEN 0 ELSE TEMP_GROWTH

\* Mutant: cleanup is held to the reduced limit too.
stackLimitAlways(depth) ==
  StackSize - IF StackRedZone < 0 \/ StackRedZone >= StackSize
              THEN 0 ELSE StackRedZone

stackLimit(depth) ==
  IF depth # 0 THEN StackSize
  ELSE StackSize - IF StackRedZone < 0 \/ StackRedZone >= StackSize
                   THEN 0 ELSE StackRedZone

wouldFrameOverflow(v, size) == v.SP + size > stackLimit(v.CleanupDepth)

setFault(v) ==
  IF v.CleanupDepth # 0
  THEN [v EXCEPT !.abort = "cleanup"]
  ELSE [v EXCEPT !.Status = "FAULTED", !.FaultMsg = TRUE, !.FaultRaised = TRUE]

\* Mutant: the pad opens no cleanup context.
consumeFaultToPadUncounted(v, hasPad) ==
  [v EXCEPT !.FaultRaised = FALSE,
            !.abort = IF hasPad \/ @ # "none" THEN @ ELSE "missingPad"]

\* The VM after the fault is dispatched in a frame with or without a pad for it.
consumeFaultToPad(v, hasPad) ==
  [v EXCEPT !.FaultRaised = FALSE, !.CleanupDepth = @ + 1,
            !.abort = IF hasPad \/ @ # "none" THEN @ ELSE "missingPad"]

\* Mutant: only the transient signal is asked, as before re-entrant faults propagated.
callFaultPendingTransient(v) == v.FaultRaised

callFaultPending(v) ==
  v.FaultRaised \/ (v.Status = "FAULTED" /\ v.CleanupDepth = 0)

\* Mutant: only the frame itself must fit, not its statements' temporaries.
pushFrameExtentOnly(v, kind) ==
  IF wouldFrameOverflow(v, frameExtent(kind))
  THEN setFault(v) ELSE [v EXCEPT !.SP = @ + frameExtent(kind)]

pushFrame(v, kind) ==
  IF wouldFrameOverflow(v, frameReserve(kind))
  THEN setFault(v) ELSE [v EXCEPT !.SP = @ + frameExtent(kind)]

Overflowed(v) == v.FaultRaised \/ v.abort # "none"

\* Mutant: the message of an earlier fault lingers.
resetStatusKeepsMessage(v) ==
  [v EXCEPT !.Status = "CONTINUE", !.FaultRaised = FALSE, !.CleanupDepth = 0]

resetStatus(v) ==
  [v EXCEPT !.Status = "CONTINUE", !.FaultMsg = FALSE, !.FaultRaised = FALSE,
            !.CleanupDepth = 0]

vmPollPoint(v) ==
  {v} \cup {[v EXCEPT !.Status = r] : r \in {q \in PollReplies : v.Poll}}

(***************************************************************************)
(* execFunc, entered by the host or by a compiled callee (a trampoline):   *)
(* an entry frame that does not fit is consumed here, no pad runs.         *)
(***************************************************************************)
EntryFrame(v, table) == Frame("entry", "body", table, Empty, v.SP, Nil)

execFunc(v, below, table, history) ==
  LET pushed == pushFrame(v, "entry") IN
  IF Overflowed(pushed)
  THEN /\ vm' = [pushed EXCEPT !.FaultRaised = FALSE]
       /\ stack' = below
       /\ raised' = (history \/ pushed.FaultRaised)
  ELSE /\ vm' = pushed
       /\ stack' = Append(below, EntryFrame(v, table))
       /\ raised' = history

\* CallFunc, CallByVMFunc, CallFuncAggregate and CallIfaceMethod.  The entry
\* function is a user function or the pad-less __init_all dispatcher.
HostCall ==
  /\ stack = <<>> /\ vm.abort = "none"
  /\ \E table \in BOOLEAN : execFunc(resetStatus(vm), <<>>, table, FALSE)
  /\ UNCHANGED <<rc, field, live, lost>>

(***************************************************************************)
(* The body of a user function.                                            *)
(***************************************************************************)
InBody == Running /\ Top.kind \in {"entry", "call"} /\ Top.mode = "body"
UserBody == InBody /\ Top.table
Held == {s \in Slots : Top.slots[s] # Nil}
Free == Slots \ Held
heap == <<rc, field, live>>

SetSlot(s, b) == stack' = Append(Below, [Top EXCEPT !.slots[s] = b])

\* make(T): a block, its managed field nil or a copy of a held reference.
Alloc(s, b, f) ==
  /\ UserBody
  /\ s \in Free /\ b \in Blocks \ live /\ f \in {Nil} \cup {Top.slots[t] : t \in Held}
  /\ live' = live \cup {b}
  /\ field' = [field EXCEPT ![b] = f]
  /\ rc' = [c \in Blocks |-> IF c = b THEN 1 ELSE IF c = f THEN rc[c] + 1 ELSE rc[c]]
  /\ SetSlot(s, b)
  /\ UNCHANGED <<vm, raised, lost>>

\* A local initialised from another one: BC_REFINC_INLINE.
Copy(s, t) ==
  /\ UserBody
  /\ s \in Free /\ t \in Held
  /\ rc' = [rc EXCEPT ![Top.slots[t]] = @ + 1]
  /\ SetSlot(s, Top.slots[t])
  /\ UNCHANGED <<vm, field, live, raised, lost>>

\* An aggregate temporary on the VM stack.
Grow ==
  /\ UserBody
  /\ vm.SP < Top.base + frameReserve(Top.kind)
  /\ vm' = [vm EXCEPT !.SP = @ + 1]
  /\ UNCHANGED <<stack, heap, raised, lost>>

\* BC_SP_RESTORE.
StatementEnd ==
  /\ UserBody
  /\ vm' \in vmPollPoint([vm EXCEPT !.SP = Top.base + frameExtent(Top.kind)])
  /\ UNCHANGED <<stack, heap, raised, lost>>

\* BC_JUMP / BC_BRANCH to a loop head, in a body or in the element walk of a
\* destructor.
BackEdge ==
  /\ Running
  /\ Top.kind \in {"dtor", "helper"} \/ UserBody
  /\ vm' \in vmPollPoint(vm)
  /\ UNCHANGED <<stack, heap, raised, lost>>

\* The running frame f takes the pad of the faulting op.
ToPad(v, f, gone) ==
  /\ vm' = consumeFaultToPad(v, f.table)
  /\ stack' = Append(Below, [f EXCEPT !.mode = "pad"])
  /\ raised' = (raised \/ v.FaultRaised)
  /\ lost' = lost \cup gone

\* A bounds, nil, divide or shift guard of execManagedMemoryOp fails.
GuardFault ==
  /\ UserBody
  /\ ToPad(setFault(vm), Top, {})
  /\ UNCHANGED heap

\* The caller's frame and the callee's, when the reference in slot m of the
\* caller (0: none) is passed by move.
Moved(m) == IF m = 0 THEN Top ELSE [Top EXCEPT !.slots[m] = Nil]
Callee(m) ==
  Frame("call", "body", TRUE, IF m = 0 THEN Empty ELSE Only(Top.slots[m]), vm.SP, Nil)

\* Mutant: no check before the arguments are committed.
stackCheckOmitted == FALSE

\* BC_STACK_CHECK*, run before the call commits its arguments.
stackCheckFails == Top.table /\ wouldFrameOverflow(vm, frameReserve("call"))

\* BC_CALL of a VM function.  The pad of a frame without a FaultTable is missing.
DirectCall ==
  /\ InBody
  /\ \E m \in {0} \cup Held :
       LET pushed == pushFrame(vm, "call") IN
       \/ stackCheckFails /\ ToPad(setFault(vm), Top, {})
       \/ ~stackCheckFails /\ Overflowed(pushed) /\ ToPad(pushed, Moved(m), {})
       \/ /\ ~stackCheckFails /\ ~Overflowed(pushed)
          /\ vm' = pushed
          /\ stack' = Append(Append(Below, Moved(m)), Callee(m))
          /\ UNCHANGED <<raised, lost>>
  /\ UNCHANGED heap

\* BC_CALL_FUNC_VALUE / BC_CALL_IFACE_METHOD of a VM callee: after the push the
\* arm asks callFaultPending, and a fault abandons the pushed frame: its own, or
\* the fault of an earlier callback that the compiled callee below has not yet
\* returned to its caller.
ValueCall ==
  /\ UserBody
  /\ \E m \in {0} \cup Held :
       LET pushed == pushFrame(vm, "call") IN
       \/ stackCheckFails /\ ToPad(setFault(vm), Top, {})
       \/ /\ ~stackCheckFails /\ callFaultPending(pushed)
          /\ ToPad(pushed, Moved(m),
                   IF m = 0 \/ Overflowed(pushed) THEN {} ELSE {Top.slots[m]})
       \/ /\ ~stackCheckFails /\ ~callFaultPending(pushed)
          /\ vm' = pushed
          /\ stack' = Append(Append(Below, Moved(m)), Callee(m))
          /\ UNCHANGED <<raised, lost>>
  /\ UNCHANGED heap

(***************************************************************************)
(* Compiled callees: an extern, a compiled function value, or a method of  *)
(* an injected package.                                                    *)
(***************************************************************************)
CallNative ==
  /\ UserBody
  /\ stack' = Append(stack, Frame("native", "body", FALSE, Empty, vm.SP, Nil))
  /\ UNCHANGED <<vm, heap, raised, lost>>

\* A Trampoline* entry: execFunc with no reset of the VM's status.
Callback ==
  /\ Running /\ Top.kind = "native" /\ Top.calls < MaxCallbacks
  /\ execFunc(vm, Append(Below, [Top EXCEPT !.calls = @ + 1]), TRUE, raised)
  /\ UNCHANGED <<heap, lost>>

\* The callee returns into the call arm of the frame below.
NativeReturn ==
  /\ Running /\ Top.kind = "native"
  /\ LET below == SubSeq(stack, 1, Len(stack) - 2)
         caller == stack[Len(stack) - 1]
     IN IF callFaultPending(vm)
        THEN /\ vm' = consumeFaultToPad(vm, caller.table)
             /\ stack' = Append(below, [caller EXCEPT !.mode = "pad"])
        ELSE UNCHANGED vm /\ stack' = Below
  /\ UNCHANGED <<heap, raised, lost>>

(***************************************************************************)
(* Releases, in slot order, on the way to a return or in a cleanup pad.    *)
(***************************************************************************)
Releasing == Running /\ Top.mode \in {"exit", "pad"}
NextHeld == CHOOSE s \in Held : \A t \in Held : s <= t

BeginExit ==
  /\ InBody
  /\ stack' = Append(Below, [Top EXCEPT !.mode = "exit"])
  /\ UNCHANGED <<vm, heap, raised, lost>>

\* BC_REFDEC_INLINE_FAST and, at zero, execRefDecZeroDtor.
RefDec ==
  /\ Releasing /\ Held # {}
  /\ LET b == Top.slots[NextHeld]
         released == [Top EXCEPT !.slots[NextHeld] = Nil]
         pushed == pushFrame([vm EXCEPT !.CleanupDepth = @ + 1], "dtor")
     IN /\ rc' = [rc EXCEPT ![b] = @ - 1]
        /\ \/ /\ rc[b] > 1
              /\ stack' = Append(Below, released)
              /\ UNCHANGED <<vm, field, live>>
           \/ /\ rc[b] = 1 /\ field[b] = Nil
              /\ live' = live \ {b}
              /\ stack' = Append(Below, released)
              /\ UNCHANGED <<vm, field>>
           \/ /\ rc[b] = 1 /\ field[b] # Nil
              /\ vm' = pushed
              /\ stack' = Append(Append(Below, released),
                                 Frame("dtor", "exit", FALSE, Only(field[b]), vm.SP, b))
              /\ field' = [field EXCEPT ![b] = Nil]
              /\ UNCHANGED live
  /\ UNCHANGED <<raised, lost>>

\* A struct, array or managed-slice local is released by a BC_CALL of a helper,
\* which no pad covers: emitStructDtor, EmitManagedSliceRefDec.
HelperRelease ==
  /\ HelperCalls /\ Releasing /\ Held # {} /\ Top.kind # "helper"
  /\ LET pushed == pushFrame(vm, "helper")
         released == [Top EXCEPT !.slots[NextHeld] = Nil]
     IN /\ vm' = IF pushed.FaultRaised THEN consumeFaultToPad(pushed, FALSE) ELSE pushed
        /\ stack' = Append(Append(Below, released),
                           Frame("helper", "exit", FALSE, Only(Top.slots[NextHeld]), vm.SP, Nil))
        /\ raised' = (raised \/ pushed.FaultRaised)
  /\ UNCHANGED <<heap, lost>>

\* BC_RETURN, and execFunc's own restore of SP when an entry frame returns.
Return ==
  /\ Running /\ Top.mode = "exit" /\ Held = {}
  /\ stack' = Below
  /\ vm' = [vm EXCEPT !.SP = Top.base,
                      !.CleanupDepth = IF Top.freeOnPop = Nil THEN @ ELSE @ - 1]
  /\ live' = live \ {Top.freeOnPop}
  /\ UNCHANGED <<rc, field, raised, lost>>

\* BC_UNWIND_RETURN: pop to the nearest caller with a FaultTable and run its
\* pad, or through an entry frame to execFunc's caller.
UnwindReturn ==
  /\ Running /\ Top.mode = "pad" /\ Held = {}
  /\ LET closed == [vm EXCEPT !.CleanupDepth = @ - 1]
         Stops(i) == stack[i].kind = "entry" \/ (i < Len(stack) /\ stack[i].table)
         to == CHOOSE i \in 1..Len(stack) :
                 Stops(i) /\ \A k \in i + 1..Len(stack) : ~Stops(k)
     IN IF to < Len(stack) /\ stack[to].table
        THEN /\ vm' = [closed EXCEPT !.SP = stack[to + 1].base, !.CleanupDepth = @ + 1]
             /\ stack' = Append(SubSeq(stack, 1, to - 1), [stack[to] EXCEPT !.mode = "pad"])
        ELSE /\ vm' = [closed EXCEPT !.SP = stack[to].base]
             /\ stack' = SubSeq(stack, 1, to - 1)
  /\ UNCHANGED <<heap, raised, lost>>

Init ==
  /\ vm \in {[SP |-> 0, Status |-> "CONTINUE", FaultMsg |-> FALSE, FaultRaised |-> FALSE,
              CleanupDepth |-> 0, Poll |-> armed, abort |-> "none"] : armed \in BOOLEAN}
  /\ stack = <<>>
  /\ rc = [b \in Blocks |-> 0]
  /\ field = [b \in Blocks |-> Nil]
  /\ live = {}
  /\ raised = FALSE
  /\ lost = {}

Body ==
  \/ \E s \in Slots, b \in Blocks, f \in Refs : Alloc(s, b, f)
  \/ \E s, t \in Slots : Copy(s, t)
  \/ Grow \/ StatementEnd \/ BackEdge \/ GuardFault
  \/ DirectCall \/ ValueCall \/ CallNative \/ BeginExit

\* The steps the VM takes by itself once a frame is being left, and the return
\* of a compiled callee.
Unwinding == RefDec \/ HelperRelease \/ Return \/ UnwindReturn \/ NativeReturn

Next == HostCall \/ Body \/ Callback \/ Unwinding

Spec == Init /\ [][Next]_vars

\* The dispatch loop never stops between two ops, and a compiled callee that has
\* no callback left to make returns; a body may loop for ever.
FairSpec == Spec /\ WF_vars(Unwinding)

(***************************************************************************)
(* Properties                                                              *)
(***************************************************************************)
VMs == [SP : Nat, Status : {"CONTINUE", "SUSPENDED", "BROKE", "FAULTED"},
        FaultMsg : BOOLEAN, FaultRaised : BOOLEAN, CleanupDepth : Nat, Poll : BOOLEAN,
        abort : {"none", "cleanup", "missingPad"}]
Frames == [kind : {"entry", "call", "dtor", "helper", "native"},
           mode : {"body", "exit", "pad"}, table : BOOLEAN, slots : [Slots -> Refs],
           base : Nat, freeOnPop : Refs, calls : Nat]

\* Every variable holds a value of its type: in particular CleanupDepth is
\* never decremented below 0 (vm_exec.bn:168, 192).
TypeOK ==
  /\ vm \in VMs /\ stack \in Seq(Frames)
  /\ rc \in [Blocks -> Nat] /\ field \in [Blocks -> Refs]
  /\ live \subseteq Blocks /\ raised \in BOOLEAN /\ lost \subseteq Blocks

\* CleanupDepth counts exactly the cleanup contexts open on the stack: pads being
\* run and destructor frames (vm.bni:348-358).  Too low, and a fault in a
\* destructor starts a second unwind; too high, and the next fault is fatal.
CleanupDepthExact ==
  vm.abort = "none" =>
    vm.CleanupDepth = Cardinality({i \in DOMAIN stack :
                                     stack[i].mode = "pad" \/ stack[i].kind = "dtor"})

\* The slots of the frames and the fields of the blocks that hold b.
Holders(b) ==
  Cardinality({p \in (DOMAIN stack) \X Slots : stack[p[1]].slots[p[2]] = b})
    + Cardinality({c \in live : field[c] = b})

\* Each block's refcount is the number of slots and fields that hold it, and none
\* of them holds a freed block: whatever pads, destructors, polls and moved arguments
\* did, nothing is released twice, used after its release or leaked
\* (vm_fault.bn:69-79).  A block moved into a frame that is abandoned (NothingLost)
\* may have fewer holders than its count says, never more.
RefcountsExact ==
  vm.abort = "none" =>
    \A b \in Blocks :
      LET count == IF b \in live THEN rc[b] ELSE 0
      IN Holders(b) <= count /\ (b \notin lost => Holders(b) = count)

\* The check after a call through a value never fires when the callee's frame was
\* pushed, so the pushed frame and the arguments moved into it are never dropped
\* (vm_exec.bn:315-316).
NothingLost == lost = {}

\* No temporary or frame reaches past the VM stack, and until a cleanup runs the
\* red zone stays free for it (vm.bn:177-201).
StackBounded ==
  /\ vm.SP <= StackSize
  /\ (vm.CleanupDepth = 0 /\ StackRedZone \in 0..StackSize) =>
       vm.SP <= StackSize - StackRedZone

StackSound == TypeOK /\ StackBounded

\* When a host call has returned, by a return or by an unwind through any mix of
\* VM and compiled frames, no block is left allocated (unless one was lost with an
\* abandoned frame), the VM stack is empty, and no fault signal or cleanup context is
\* left open; and the host sees a fault exactly when one was raised during the call,
\* message and status both, unless a poll replied (vm_fault.bn:60-62, 107-114,
\* vm_exec_helpers.bn:52).
HostReturnExact ==
  (stack = <<>> /\ vm.abort = "none") =>
    /\ lost = {} => live = {}
    /\ vm.SP = 0 /\ ~vm.FaultRaised /\ vm.CleanupDepth = 0
    /\ ~vm.Poll => (raised <=> vm.Status = "FAULTED") /\ (raised <=> vm.FaultMsg)

\* While a cleanup pad is being run, and the destructors it pushed, the status is
\* FAULTED (vm_fault.bn:116-117, vm_exec.bn:176-177, vm.bni:342-344).
UnwindKeepsStatus ==
  (\E i \in DOMAIN stack : stack[i].mode = "pad") => vm.Status = "FAULTED"

\* A red zone that covers the deepest destructor cascade keeps a destructor from
\* overflowing, so no cleanup is cut short by the fatal guard (vm.bni:228-234).
\* A cascade pushes at most a destructor and a helper frame per block.
Cascade == Cardinality(Blocks) * DTOR_EXTENT * (IF HelperCalls THEN 2 ELSE 1)
RedZoneSuffices ==
  StackRedZone \in Cascade..StackSize - 1 => vm.abort # "cleanup"

\* Every op that can raise a fault outside a cleanup has a pad (vm_fault.bn:66-67,
\* conformance/1733_stack_overflow_in_eq_helper.bn:6-8).
EveryFaultHasPad == vm.abort # "missingPad"

\* A recorded fault reaches the host: the unwind never stalls, in pads, destructors
\* or compiled frames, when no poll takes the fault's place.  Only a body under a
\* compiled callee, which called back with the fault pending, can hold it up.
UnwindEnds ==
  (raised /\ ~vm.Poll)
    ~> \/ stack = <<>> \/ vm.abort # "none"
       \/ InBody /\ \E i \in DOMAIN stack : stack[i].kind = "native"
=============================================================================
