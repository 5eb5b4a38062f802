---------------------------- MODULE VMFaultProofs ----------------------------
(***************************************************************************)
(* What is proved of the VM's recoverable faults (VMFault), for any set of *)
(* blocks, number of slots, sizes of frames and stack, red zone, polls and *)
(* number of callbacks.                                                    *)
(*                                                                         *)
(* Every step pushes a frame, pops one or two, or changes the top one, so  *)
(* the invariant says of each frame how it sits on the frames below it     *)
(* (OnTop, Built), and every count over the stack (cleanup contexts, slots *)
(* that hold a block, blocks that destructors are about to free) has a     *)
(* lemma on what one more frame adds to it.                                *)
(***************************************************************************)
EXTENDS VMFault, LeastElements, SequenceTheorems

---------------------------------------------------------------------------
(* The inductive invariant.                                                *)

\* The limit outside a cleanup.
L0 == stackLimit(0)

\* What one destructor and the helper it calls take of the stack.
Unit == DTOR_EXTENT * (IF HelperCalls THEN 2 ELSE 1)
Deep(c) == c * Unit

Small(f) == f.kind \in {"dtor", "helper"}
User(f) == f.kind \in {"entry", "call"}

\* The cleanup contexts open in a stack.
Ctx(f) == f.mode = "pad" \/ f.kind = "dtor"
Depth(s) == Cardinality({i \in DOMAIN s : Ctx(s[i])})

\* The blocks that destructor frames free when they are popped.
Dying(s) == {s[i].freeOnPop : i \in DOMAIN s} \ {Nil}

InBodies(s) == \A i \in DOMAIN s : s[i].mode = "body"
Last(s) == s[Len(s)]

\* What holds of a frame by itself.
FrameOk(f) ==
  /\ Small(f) => f.mode = "exit" /\ ~f.table /\ f.base + DTOR_EXTENT <= StackSize
  /\ f.kind = "native" => f.mode = "body" /\ ~f.table /\ f.slots = Empty
  /\ f.kind = "call" => f.table
  /\ f.kind = "entry" /\ ~f.table => f.slots = Empty /\ f.mode # "pad"
  /\ User(f) => f.base + USER_EXTENT + TEMP_GROWTH <= L0
  /\ f.kind = "dtor" <=> f.freeOnPop # Nil
  /\ f.kind = "helper" => HelperCalls

\* What the frame below it must be.
Over(g, f) ==
  /\ f.kind = "entry" => g.kind = "native"
  /\ f.kind = "call" => User(g)
  /\ f.kind = "native" => User(g) /\ g.table
  /\ IF Small(g) THEN f.base = g.base + DTOR_EXTENT ELSE f.base <= L0

\* Frame f on top of stack s.  Only destructors and helpers run above a frame
\* that has left its body; a destructor's place in the stack is paid for by the
\* blocks that are being freed.
OnTop(s, f) ==
  /\ FrameOk(f)
  /\ IF s = <<>> THEN f.kind = "entry" /\ f.base = 0 ELSE Over(Last(s), f)
  /\ ~Small(f) => InBodies(s)
  /\ f.kind = "helper" /\ Depth(s) = 0 => f.base + DTOR_EXTENT <= L0
  /\ f.kind = "dtor" => /\ f.freeOnPop \notin Dying(s)
                        /\ f.base + DTOR_EXTENT <= L0 + Deep(Cardinality(Dying(s)) + 1)
  /\ f.kind = "helper" =>
       f.base + DTOR_EXTENT <= L0 + Deep(Cardinality(Dying(s))) + DTOR_EXTENT

Built(s) == \A i \in DOMAIN s : OnTop(SubSeq(s, 1, i - 1), s[i])

\* The stack pointer: after a destructor or helper frame nothing else is on the
\* stack, and a user frame never grows past the reduced limit.
Fits(v, s) ==
  IF s = <<>> THEN v.SP = 0
  ELSE IF Small(Last(s)) THEN v.SP = Last(s).base + DTOR_EXTENT ELSE v.SP <= L0

\* The holders of a block, in slots and in fields.
SlotCount(s, b) ==
  Cardinality({p \in (DOMAIN s) \X Slots : s[p[1]].slots[p[2]] = b})
FieldCount(fl, lv, b) == Cardinality({c \in lv : fl[c] = b})
Exact(s, r, fl, lv, ls) ==
  \A b \in Blocks :
    LET count == IF b \in lv THEN r[b] ELSE 0
    IN /\ SlotCount(s, b) + FieldCount(fl, lv, b) <= count
       /\ b \notin ls => SlotCount(s, b) + FieldCount(fl, lv, b) = count

\* Blocks with no reference left are those whose destructor runs.
Doomed(s, r, fl, lv) ==
  /\ \A b \in Dying(s) : b \in lv /\ r[b] = 0 /\ fl[b] = Nil
  /\ \A b \in lv : r[b] = 0 => b \in Dying(s)

\* Fields never lead back to the block they are in.
Ranks == [Blocks -> Nat]
Acyclic(fl, lv) ==
  \E rank \in Ranks : \A c \in lv : fl[c] # Nil => rank[fl[c]] < rank[c]

Reported(v, r) ==
  ~v.Poll => (r <=> v.Status = "FAULTED") /\ (r <=> v.FaultMsg)

Sound ==
  /\ ~vm.FaultRaised
  /\ Built(stack)
  /\ vm.CleanupDepth = Depth(stack)
  /\ Fits(vm, stack)
  /\ Exact(stack, rc, field, live, lost)
  /\ Doomed(stack, rc, field, live)
  /\ Acyclic(field, live)
  /\ Reported(vm, raised)

\* The stack pointer stays within bounds even when the VM panics.
InBounds(v) ==
  v.SP <= StackSize /\ (v.CleanupDepth = 0 => v.SP <= L0)

IInv == TypeOK /\ InBounds(vm) /\ RedZoneSuffices /\ (vm.abort = "none" => Sound)

---------------------------------------------------------------------------
(* Constants and stacks.                                                   *)

\* The sizes of frames and stack, and the two values the limit takes (vm.bn:177-201).
LEMMA Sizes ==
  /\ L0 \in Nat /\ L0 <= StackSize /\ StackSize \in Nat
  /\ StackRedZone \in 0 .. StackSize => L0 = StackSize - StackRedZone
  /\ DTOR_EXTENT \in Nat \ {0} /\ USER_EXTENT \in Nat \ {0} /\ TEMP_GROWTH \in Nat
  /\ \A d \in Nat : stackLimit(d) = IF d = 0 THEN L0 ELSE StackSize
  <1>1. /\ DTOR_EXTENT \in Nat \ {0} /\ USER_EXTENT \in Nat \ {0} /\ TEMP_GROWTH \in Nat
        /\ StackSize \in Nat /\ StackRedZone \in Int
    BY SizesAssumption
  <1>2. 0 < 2 * (USER_EXTENT + TEMP_GROWTH)
    BY <1>1
  <1>3. StackSize - StackRedZone > 0
    BY <1>1, <1>2, StackAssumption
  <1> QED BY <1>1, <1>3 DEF L0, stackLimit

\* The room a cascade takes grows by one destructor, and its helper, per block.
LEMMA Deeper ==
  /\ Unit \in Nat /\ (HelperCalls => Unit = DTOR_EXTENT + DTOR_EXTENT)
  /\ ~HelperCalls => Unit = DTOR_EXTENT
  /\ \A c \in Nat : Deep(c) \in Nat /\ Deep(c + 1) = Deep(c) + Unit
  /\ \A c, d \in Nat : c <= d => Deep(c) <= Deep(d)
  /\ Deep(Cardinality(Blocks)) = Cascade /\ Cardinality(Blocks) \in Nat
  <1>1. /\ Unit \in Nat /\ (HelperCalls => Unit = DTOR_EXTENT + DTOR_EXTENT)
        /\ ~HelperCalls => Unit = DTOR_EXTENT
    BY Sizes, PollAssumption DEF Unit
  <1>2. \A c \in Nat : Deep(c) \in Nat /\ Deep(c + 1) = Deep(c) + Unit
    BY <1>1 DEF Deep
  <1>3. ASSUME NEW c \in Nat, NEW d \in Nat, c <= d
        PROVE  Deep(c) <= Deep(d)
    <2>1. PICK e \in Nat : d = c + e
      <3>1. d - c \in Nat /\ d = c + (d - c)
        BY <1>3
      <3> QED BY <3>1
    <2>2. (c + e) * Unit = c * Unit + e * Unit /\ e * Unit \in Nat /\ c * Unit \in Nat
      BY <1>1
    <2> QED BY <2>1, <2>2 DEF Deep
  <1>4. Cardinality(Blocks) \in Nat
    BY NilAssumption, FS_CardinalityType
  <1>5. Deep(Cardinality(Blocks)) = Cascade
    <2> DEFINE n == Cardinality(Blocks)
    <2>1. n \in Nat
      BY <1>4
    <2> HIDE DEF n
    <2>2. n * (DTOR_EXTENT * 2) = (n * DTOR_EXTENT) * 2 /\ n * (DTOR_EXTENT * 1) = (n * DTOR_EXTENT) * 1
      BY <2>1, Sizes
    <2>3. n * Unit = (n * DTOR_EXTENT) * (IF HelperCalls THEN 2 ELSE 1)
      BY <2>2, PollAssumption DEF Unit
    <2> QED BY <2>3 DEF n, Deep, Cascade
  <1> QED BY <1>1, <1>2, <1>3, <1>4, <1>5

\* A stack with one more frame.
LEMMA Appended ==
  ASSUME NEW s \in Seq(Frames), NEW f \in Frames
  PROVE  /\ Append(s, f) \in Seq(Frames) /\ Append(s, f) # <<>>
         /\ Len(Append(s, f)) = Len(s) + 1 /\ Len(s) \in Nat
         /\ DOMAIN s = 1 .. Len(s) /\ DOMAIN Append(s, f) = 1 .. Len(s) + 1
         /\ Append(s, f)[Len(s) + 1] = f
         /\ \A i \in 1 .. Len(s) : Append(s, f)[i] = s[i]
         /\ Last(Append(s, f)) = f
         /\ SubSeq(Append(s, f), 1, Len(s)) = s
         /\ \A i \in 1 .. Len(s) : SubSeq(Append(s, f), 1, i - 1) = SubSeq(s, 1, i - 1)
  <1>1. /\ Append(s, f) \in Seq(Frames) /\ Append(s, f) # <<>>
        /\ Len(Append(s, f)) = Len(s) + 1 /\ Len(s) \in Nat
        /\ DOMAIN s = 1 .. Len(s) /\ DOMAIN Append(s, f) = 1 .. Len(s) + 1
        /\ Append(s, f)[Len(s) + 1] = f
        /\ \A i \in 1 .. Len(s) : Append(s, f)[i] = s[i]
    OBVIOUS
  <1>2. ASSUME NEW n \in 0 .. Len(s)
        PROVE  SubSeq(Append(s, f), 1, n) = SubSeq(s, 1, n)
    <2> DEFINE t == SubSeq(Append(s, f), 1, n)
               u == SubSeq(s, 1, n)
    <2>1. \A i \in 1 .. n : Append(s, f)[i] \in Frames /\ s[i] \in Frames /\ Append(s, f)[i] = s[i]
      BY <1>1
    <2>2. t \in Seq(Frames) /\ Len(t) = n /\ \A i \in 1 .. n : t[i] = Append(s, f)[i]
      BY <2>1, SubSeqProperties
    <2>3. u \in Seq(Frames) /\ Len(u) = n /\ \A i \in 1 .. n : u[i] = s[i]
      BY <2>1, SubSeqProperties
    <2>4. \A i \in 1 .. Len(t) : t[i] = u[i]
      BY <2>1, <2>2, <2>3
    <2> HIDE DEF t, u
    <2>5. t = u
      BY <2>2, <2>3, <2>4, SeqEqual
    <2> QED BY <2>5 DEF t, u
  <1>3. SubSeq(s, 1, Len(s)) = s
    BY SubSeqFull
  <1>4. Last(Append(s, f)) = f
    BY <1>1 DEF Last
  <1>5. \A i \in 1 .. Len(s) : SubSeq(Append(s, f), 1, i - 1) = SubSeq(s, 1, i - 1)
    BY <1>2, <1>1
  <1>6. SubSeq(Append(s, f), 1, Len(s)) = s
    BY <1>2, <1>3, <1>1
  <1> QED BY <1>1, <1>4, <1>5, <1>6

\* A stack that is not empty is its top frame on the rest.
Split(s, rest) ==
  /\ rest \in Seq(Frames) /\ Last(s) \in Frames
  /\ s = Append(rest, Last(s)) /\ Len(rest) = Len(s) - 1

\* Every stack with a frame splits.
LEMMA TakenApart ==
  ASSUME NEW s \in Seq(Frames), s # <<>>
  PROVE  Split(s, SubSeq(s, 1, Len(s) - 1))
  <1> DEFINE n == Len(s)
             rest == SubSeq(s, 1, n - 1)
  <1>1. n \in Nat \ {0} /\ \A i \in 1 .. n : s[i] \in Frames
    BY EmptySeq, ElementOfSeq
  <1>2. Last(s) \in Frames
    BY <1>1 DEF Last
  <1>3. rest \in Seq(Frames) /\ Len(rest) = n - 1 /\ \A i \in 1 .. n - 1 : rest[i] = s[i]
    <2>1. \A i \in 1 .. n - 1 : s[i] \in Frames
      BY <1>1
    <2>2. /\ rest \in Seq(Frames) /\ Len(rest) = IF 1 <= n - 1 THEN n - 1 - 1 + 1 ELSE 0
          /\ \A i \in 1 .. n - 1 - 1 + 1 : rest[i] = s[1 + i - 1]
      <3>1. 1 \in Int /\ n - 1 \in Int
        BY <1>1
      <3> QED BY <2>1, <3>1, SubSeqProperties
    <2>3. \A i \in 1 .. n - 1 : i \in 1 .. n - 1 - 1 + 1 /\ 1 + i - 1 = i
      BY <1>1
    <2> HIDE DEF n, rest
    <2>4. n \in Int /\ n >= 1
      BY <1>1
    <2>5. (IF 1 <= n - 1 THEN n - 1 - 1 + 1 ELSE 0) = n - 1
      BY <2>4
    <2> QED BY <2>2, <2>3, <2>5
  <1> HIDE DEF n, rest
  <1>4. s = Append(rest, Last(s))
    <2>1. Append(rest, Last(s)) \in Seq(Frames) /\ Len(Append(rest, Last(s))) = n
      BY <1>1, <1>2, <1>3
    <2>2. \A i \in 1 .. n : Append(rest, Last(s))[i] = s[i]
      BY <1>1, <1>2, <1>3 DEF Last, n
    <2> QED BY <2>1, <2>2, SeqEqual DEF n
  <1> QED BY <1>2, <1>3, <1>4 DEF Split, n, rest

---------------------------------------------------------------------------
(* What one more frame adds to what is counted over a stack.               *)

\* A frame adds one cleanup context, or none.
LEMMA DepthAppended ==
  /\ Depth(<<>>) = 0
  /\ \A s \in Seq(Frames) : Depth(s) \in Nat
  /\ \A s \in Seq(Frames), f \in Frames :
       Depth(Append(s, f)) = IF Ctx(f) THEN Depth(s) + 1 ELSE Depth(s)
  <1> DEFINE C(s) == {i \in DOMAIN s : Ctx(s[i])}
  <1>1. ASSUME NEW s \in Seq(Frames)
        PROVE  C(s) \subseteq 1 .. Len(s) /\ IsFiniteSet(C(s)) /\ Cardinality(C(s)) \in Nat
    <2>1. Len(s) \in Nat /\ DOMAIN s = 1 .. Len(s)
      BY LenProperties
    <2>2. IsFiniteSet(1 .. Len(s))
      BY <2>1, FS_Interval
    <2>3. C(s) \in SUBSET (1 .. Len(s))
      BY <2>1
    <2> QED BY <2>2, <2>3, FS_Subset, FS_CardinalityType
  <1>2. ASSUME NEW s \in Seq(Frames), NEW f \in Frames
        PROVE  Cardinality(C(Append(s, f))) =
                 IF Ctx(f) THEN Cardinality(C(s)) + 1 ELSE Cardinality(C(s))
    <2>1. C(Append(s, f)) = IF Ctx(f) THEN C(s) \cup {Len(s) + 1} ELSE C(s)
      <3>1. /\ Len(s) \in Nat /\ DOMAIN s = 1 .. Len(s) /\ DOMAIN Append(s, f) = 1 .. Len(s) + 1
            /\ Append(s, f)[Len(s) + 1] = f /\ \A i \in 1 .. Len(s) : Append(s, f)[i] = s[i]
        BY Appended
      <3>2. 1 .. Len(s) + 1 = (1 .. Len(s)) \cup {Len(s) + 1}
        BY <3>1
      <3> QED BY <3>1, <3>2
    <2>2. Len(s) + 1 \notin C(s) /\ IsFiniteSet(C(s))
      BY <1>1, LenProperties
    <2>3. Cardinality(C(s) \cup {Len(s) + 1}) = Cardinality(C(s)) + 1
      <3> HIDE DEF C
      <3> QED BY <2>2, FS_AddElement
    <2> HIDE DEF C
    <2> QED BY <2>1, <2>3
  <1>3. Cardinality(C(<<>>)) = 0
    <2>1. C(<<>>) = {}
      OBVIOUS
    <2> QED BY <2>1, FS_EmptySet
  <1>4. \A s : Depth(s) = Cardinality(C(s))
    BY DEF Depth
  <1> HIDE DEF C
  <1> QED BY <1>1, <1>2, <1>3, <1>4

\* A frame adds the block it frees when it is popped, if any.
LEMMA DyingAppended ==
  /\ Dying(<<>>) = {}
  /\ \A s \in Seq(Frames) : Dying(s) \in SUBSET Blocks
  /\ \A s \in Seq(Frames), f \in Frames :
       Dying(Append(s, f)) = IF f.freeOnPop = Nil THEN Dying(s) ELSE Dying(s) \cup {f.freeOnPop}
  <1>1. Dying(<<>>) = {}
    BY DEF Dying
  <1>2. ASSUME NEW s \in Seq(Frames)
        PROVE  Dying(s) \in SUBSET Blocks
    <2>1. \A i \in DOMAIN s : s[i].freeOnPop \in Refs
      <3>1. \A i \in DOMAIN s : s[i] \in Frames
        BY LenProperties, ElementOfSeq
      <3> QED BY <3>1 DEF Frames
    <2> QED BY <2>1 DEF Dying, Refs
  <1>3. ASSUME NEW s \in Seq(Frames), NEW f \in Frames
        PROVE  Dying(Append(s, f)) =
                 IF f.freeOnPop = Nil THEN Dying(s) ELSE Dying(s) \cup {f.freeOnPop}
    <2>1. /\ Len(s) \in Nat /\ DOMAIN s = 1 .. Len(s) /\ DOMAIN Append(s, f) = 1 .. Len(s) + 1
          /\ Append(s, f)[Len(s) + 1] = f /\ \A i \in 1 .. Len(s) : Append(s, f)[i] = s[i]
      BY Appended
    <2>2. 1 .. Len(s) + 1 = (1 .. Len(s)) \cup {Len(s) + 1}
      BY <2>1
    <2>3. {Append(s, f)[i].freeOnPop : i \in DOMAIN Append(s, f)}
            = {s[i].freeOnPop : i \in DOMAIN s} \cup {f.freeOnPop}
      BY <2>1, <2>2
    <2> QED BY <2>3 DEF Dying
  <1> QED BY <1>1, <1>2, <1>3

\* No more blocks are being freed than there are.
LEMMA DyingFinite ==
  ASSUME NEW s \in Seq(Frames)
  PROVE  /\ IsFiniteSet(Dying(s)) /\ Cardinality(Dying(s)) \in Nat
         /\ Cardinality(Dying(s)) <= Cardinality(Blocks)
         /\ \A b \in Blocks \ Dying(s) :
              /\ Cardinality(Dying(s)) + 1 <= Cardinality(Blocks)
              /\ Cardinality(Dying(s) \cup {b}) = Cardinality(Dying(s)) + 1
  <1> DEFINE D == Dying(s)
  <1>1. D \in SUBSET Blocks /\ IsFiniteSet(Blocks)
    BY DyingAppended, NilAssumption
  <1> HIDE DEF D
  <1>2. IsFiniteSet(D) /\ Cardinality(D) \in Nat /\ Cardinality(D) <= Cardinality(Blocks)
    BY <1>1, FS_Subset, FS_CardinalityType
  <1>3. ASSUME NEW b \in Blocks \ D
        PROVE  /\ Cardinality(D) + 1 <= Cardinality(Blocks)
               /\ Cardinality(D \cup {b}) = Cardinality(D) + 1
    <2>1. Cardinality(D \cup {b}) = Cardinality(D) + 1
      BY <1>2, FS_AddElement
    <2>2. D \cup {b} \in SUBSET Blocks
      BY <1>1
    <2>3. Cardinality(D \cup {b}) <= Cardinality(Blocks)
      BY <2>2, <1>1, FS_Subset
    <2> QED BY <2>1, <2>3
  <1> QED BY <1>2, <1>3 DEF D

\* Every frame is in its body when the rest are and the new one is.
LEMMA BodiesAppended ==
  /\ InBodies(<<>>)
  /\ \A s \in Seq(Frames), f \in Frames :
       InBodies(Append(s, f)) <=> InBodies(s) /\ f.mode = "body"
  <1>1. InBodies(<<>>)
    BY DEF InBodies
  <1>2. ASSUME NEW s \in Seq(Frames), NEW f \in Frames
        PROVE  InBodies(Append(s, f)) <=> InBodies(s) /\ f.mode = "body"
    <2>1. /\ Len(s) \in Nat /\ DOMAIN s = 1 .. Len(s) /\ DOMAIN Append(s, f) = 1 .. Len(s) + 1
          /\ Append(s, f)[Len(s) + 1] = f /\ \A i \in 1 .. Len(s) : Append(s, f)[i] = s[i]
      BY Appended
    <2>2. 1 .. Len(s) + 1 = (1 .. Len(s)) \cup {Len(s) + 1}
      BY <2>1
    <2> QED BY <2>1, <2>2 DEF InBodies
  <1> QED BY <1>1, <1>2

\* A stack is built frame by frame.
LEMMA BuiltAppended ==
  /\ Built(<<>>)
  /\ \A s \in Seq(Frames), f \in Frames :
       Built(Append(s, f)) <=> Built(s) /\ OnTop(s, f)
  <1>1. Built(<<>>)
    BY DEF Built
  <1>2. ASSUME NEW s \in Seq(Frames), NEW f \in Frames
        PROVE  Built(Append(s, f)) <=> Built(s) /\ OnTop(s, f)
    <2> DEFINE t == Append(s, f)
    <2>1. /\ Len(s) \in Nat /\ DOMAIN s = 1 .. Len(s) /\ DOMAIN t = 1 .. Len(s) + 1
          /\ t[Len(s) + 1] = f /\ \A i \in 1 .. Len(s) : t[i] = s[i]
          /\ SubSeq(t, 1, Len(s)) = s
          /\ \A i \in 1 .. Len(s) : SubSeq(t, 1, i - 1) = SubSeq(s, 1, i - 1)
      BY Appended
    <2>2. 1 .. Len(s) + 1 = (1 .. Len(s)) \cup {Len(s) + 1}
      BY <2>1
    <2> HIDE DEF t
    <2>3. SubSeq(t, 1, (Len(s) + 1) - 1) = s
      <3>1. (Len(s) + 1) - 1 = Len(s)
        BY <2>1
      <3> QED BY <2>1, <3>1
    <2>4. \A i \in 1 .. Len(s) : OnTop(SubSeq(t, 1, i - 1), t[i]) <=> OnTop(SubSeq(s, 1, i - 1), s[i])
      BY <2>1
    <2>5. OnTop(SubSeq(t, 1, (Len(s) + 1) - 1), t[Len(s) + 1]) <=> OnTop(s, f)
      BY <2>1, <2>3
    <2>6. Built(t) <=> \A i \in (1 .. Len(s)) \cup {Len(s) + 1} : OnTop(SubSeq(t, 1, i - 1), t[i])
      BY <2>1, <2>2 DEF Built
    <2>7. Built(s) <=> \A i \in 1 .. Len(s) : OnTop(SubSeq(s, 1, i - 1), s[i])
      BY <2>1 DEF Built
    <2>8. Built(t) <=> Built(s) /\ OnTop(s, f)
      BY <2>4, <2>5, <2>6, <2>7
    <2> QED BY <2>8 DEF t
  <1> QED BY <1>1, <1>2

\* Where every frame is in its body no cleanup context is open.
LEMMA BodiesAreQuiet ==
  ASSUME NEW s \in Seq(Frames), Built(s), InBodies(s)
  PROVE  Depth(s) = 0
  <1>1. \A i \in DOMAIN s : FrameOk(s[i]) /\ s[i].mode = "body"
    BY DEF Built, OnTop, InBodies
  <1>2. \A i \in DOMAIN s : ~Ctx(s[i])
    BY <1>1 DEF FrameOk, Ctx, Small
  <1>3. {i \in DOMAIN s : Ctx(s[i])} = {}
    BY <1>2
  <1> QED BY <1>3, FS_EmptySet DEF Depth

---------------------------------------------------------------------------
(* The holders of a block.                                                 *)

\* The slots of one frame that hold b.
Holding(slots, b) == Cardinality({x \in Slots : slots[x] = b})

\* A frame adds its own slots to the holders of a block.
LEMMA SlotsAppended ==
  /\ \A b : SlotCount(<<>>, b) = 0
  /\ \A s \in Seq(Frames), b \in Blocks : SlotCount(s, b) \in Nat
  /\ \A s \in Seq(Frames), f \in Frames, b \in Blocks :
       SlotCount(Append(s, f), b) = SlotCount(s, b) + Holding(f.slots, b)
  <1> DEFINE P(s, b) == {p \in (DOMAIN s) \X Slots : s[p[1]].slots[p[2]] = b}
             H(f, b) == {x \in Slots : f.slots[x] = b}
  <1>1. ASSUME NEW b
        PROVE  Cardinality(P(<<>>, b)) = 0
    <2>1. P(<<>>, b) = {}
      OBVIOUS
    <2> QED BY <2>1, FS_EmptySet
  <1>2. ASSUME NEW s \in Seq(Frames), NEW b
        PROVE  IsFiniteSet(P(s, b)) /\ Cardinality(P(s, b)) \in Nat
    <2>1. Len(s) \in Nat /\ DOMAIN s = 1 .. Len(s)
      BY LenProperties
    <2>2. IsFiniteSet(DOMAIN s) /\ IsFiniteSet(Slots)
      BY <2>1, FS_Interval, SlotsAssumption
    <2>3. IsFiniteSet((DOMAIN s) \X Slots)
      BY <2>2, FS_Product
    <2>4. P(s, b) \in SUBSET ((DOMAIN s) \X Slots)
      OBVIOUS
    <2> HIDE DEF P
    <2> QED BY <2>3, <2>4, FS_Subset, FS_CardinalityType
  <1>3. ASSUME NEW s \in Seq(Frames), NEW f \in Frames, NEW b
        PROVE  Cardinality(P(Append(s, f), b)) = Cardinality(P(s, b)) + Cardinality(H(f, b))
    <2> DEFINE n == Len(s)
               t == Append(s, f)
               B == {p \in {n + 1} \X Slots : f.slots[p[2]] = b}
    <2>1. /\ n \in Nat /\ DOMAIN s = 1 .. n /\ DOMAIN t = 1 .. n + 1
          /\ t[n + 1] = f /\ \A i \in 1 .. n : t[i] = s[i]
      BY Appended
    <2>2. 1 .. n + 1 = (1 .. n) \cup {n + 1} /\ n + 1 \notin 1 .. n
      BY <2>1
    <2>3. P(t, b) = P(s, b) \cup B
      <3> HIDE DEF n, t
      <3>1. ASSUME NEW p
            PROVE  p \in P(t, b) <=> p \in P(s, b) \cup B
        <4>1. p \in P(t, b) <=> p \in ((1 .. n) \cup {n + 1}) \X Slots /\ t[p[1]].slots[p[2]] = b
          BY <2>1, <2>2
        <4>2. p \in P(s, b) <=> p \in (1 .. n) \X Slots /\ s[p[1]].slots[p[2]] = b
          BY <2>1
        <4>3. p \in B <=> p \in {n + 1} \X Slots /\ f.slots[p[2]] = b
          OBVIOUS
        <4>4. p \in (1 .. n) \X Slots => t[p[1]] = s[p[1]]
          BY <2>1
        <4>5. p \in {n + 1} \X Slots => t[p[1]] = f
          BY <2>1
        <4>6. p \in ((1 .. n) \cup {n + 1}) \X Slots
                <=> p \in (1 .. n) \X Slots \/ p \in {n + 1} \X Slots
          OBVIOUS
        <4> HIDE DEF P, B
        <4> QED BY <4>1, <4>2, <4>3, <4>4, <4>5, <4>6
      <3> HIDE DEF P, B
      <3> QED BY <3>1
    <2>4. P(s, b) \cap B = {}
      BY <2>1, <2>2
    <2>5. IsFiniteSet(H(f, b)) /\ IsFiniteSet(B) /\ Cardinality(B) = Cardinality(H(f, b))
      <3>1. H(f, b) \in SUBSET Slots /\ IsFiniteSet(Slots)
        BY SlotsAssumption
      <3>2. IsFiniteSet(H(f, b))
        <4> HIDE DEF H
        <4> QED BY <3>1, FS_Subset
      <3>3. ExistsBijection(H(f, b), B)
        <4> DEFINE F == [x \in H(f, b) |-> <<n + 1, x>>]
        <4>1. F \in [H(f, b) -> B]
          OBVIOUS
        <4>2. \A x, y \in H(f, b) : F[x] = F[y] => x = y
          OBVIOUS
        <4>3. \A p \in B : \E x \in H(f, b) : F[x] = p
          <5> SUFFICES ASSUME NEW p \in B PROVE \E x \in H(f, b) : F[x] = p
            OBVIOUS
          <5>1. p[2] \in H(f, b) /\ p = <<n + 1, p[2]>>
            OBVIOUS
          <5> QED BY <5>1
        <4> HIDE DEF F, H, B
        <4>4. F \in Bijection(H(f, b), B)
          BY <4>1, <4>2, <4>3 DEF Bijection, Injection, Surjection, IsInjective
        <4> QED BY <4>4 DEF ExistsBijection
      <3> HIDE DEF H, B
      <3> QED BY <3>2, <3>3, FS_Bijection
    <2>6. IsFiniteSet(P(s, b)) /\ Cardinality(P(s, b)) \in Nat
      BY <1>2
    <2>7. Cardinality(P(s, b) \cap B) = 0
      BY <2>4, FS_EmptySet
    <2>8. Cardinality(B) \in Nat
      BY <2>5, FS_CardinalityType
    <2> HIDE DEF P, B, H, t
    <2>9. Cardinality(P(s, b) \cup B) = Cardinality(P(s, b)) + Cardinality(B) - Cardinality(P(s, b) \cap B)
      BY <2>5, <2>6, FS_Union
    <2>10. Cardinality(P(t, b)) = Cardinality(P(s, b)) + Cardinality(H(f, b))
      BY <2>3, <2>5, <2>6, <2>7, <2>8, <2>9
    <2> QED BY <2>10 DEF t
  <1>4. \A s, b : SlotCount(s, b) = Cardinality(P(s, b))
    BY DEF SlotCount
  <1>5. \A f, b : Holding(f.slots, b) = Cardinality(H(f, b))
    BY DEF Holding
  <1> HIDE DEF P, H
  <1> QED BY <1>1, <1>2, <1>3, <1>4, <1>5

\* What a change of one slot does to the count of a frame.
One(b, c) == IF b = c THEN 1 ELSE 0

\* What a slot may hold.
LEMMA RefsAre == Nil \in Refs /\ Nil \notin Blocks /\ \A b \in Blocks : b \in Refs
  BY NilAssumption DEF Refs

\* Empty slots hold no block.
LEMMA EmptyHolds ==
  /\ Empty \in [Slots -> Refs]
  /\ \A b \in Blocks : Holding(Empty, b) = 0
  <1>1. Empty \in [Slots -> Refs]
    BY DEF Empty, Refs
  <1>2. ASSUME NEW b \in Blocks
        PROVE  Holding(Empty, b) = 0
    <2>1. {x \in Slots : Empty[x] = b} = {}
      BY NilAssumption DEF Empty
    <2> QED BY <2>1, FS_EmptySet DEF Holding
  <1> QED BY <1>1, <1>2

\* new is slots with slot x set to c.
Sets(new, slots, x, c) == new = [slots EXCEPT ![x] = c]

\* A frame holds a block finitely often.
LEMMA HoldingNat ==
  ASSUME NEW slots, NEW b
  PROVE  IsFiniteSet({x \in Slots : slots[x] = b}) /\ Holding(slots, b) \in Nat
  <1> DEFINE H == {x \in Slots : slots[x] = b}
  <1>1. H \in SUBSET Slots
    OBVIOUS
  <1>2. Holding(slots, b) = Cardinality(H)
    BY DEF Holding
  <1> HIDE DEF H
  <1>3. IsFiniteSet(H) /\ Cardinality(H) \in Nat
    BY <1>1, SlotsAssumption, FS_Subset, FS_CardinalityType
  <1> QED BY <1>2, <1>3 DEF H

\* Filling an empty slot adds a holder, emptying one takes a holder away.
LEMMA HoldingChanged ==
  ASSUME NEW slots \in [Slots -> Refs], NEW new, NEW c \in Refs, NEW x \in Slots,
         Sets(new, slots, x, c)
  PROVE  /\ new \in [Slots -> Refs]
         /\ slots[x] = Nil =>
              \A b \in Blocks : Holding(new, b) = Holding(slots, b) + One(b, c)
         /\ c = Nil =>
              \A b \in Blocks : Holding(new, b) = Holding(slots, b) - One(b, slots[x])
  <1> DEFINE H(sl, b) == {z \in Slots : sl[z] = b}
  <1>1. \A sl, b : IsFiniteSet(H(sl, b))
    BY HoldingNat
  <1>2. \A sl, b : Holding(sl, b) = Cardinality(H(sl, b)) /\ Holding(sl, b) \in Nat
    BY HoldingNat DEF Holding
  <1>3. new \in [Slots -> Refs]
    BY DEF Sets
  <1>4. ASSUME slots[x] = Nil, NEW b \in Blocks
        PROVE  Holding(new, b) = Holding(slots, b) + One(b, c)
    <2>1. H(new, b) = IF b = c THEN H(slots, b) \cup {x} ELSE H(slots, b)
      BY <1>4, NilAssumption DEF Sets
    <2>2. x \notin H(slots, b)
      BY <1>4, NilAssumption
    <2> HIDE DEF H
    <2>3. Cardinality(H(slots, b) \cup {x}) = Cardinality(H(slots, b)) + 1
      BY <1>1, <2>2, FS_AddElement
    <2>4. Holding(new, b) = Cardinality(H(new, b)) /\ Holding(slots, b) = Cardinality(H(slots, b))
      BY <1>2
    <2>5. Holding(slots, b) \in Nat
      BY <1>2
    <2> QED BY <2>1, <2>3, <2>4, <2>5 DEF One
  <1>5. ASSUME c = Nil, NEW b \in Blocks
        PROVE  Holding(new, b) = Holding(slots, b) - One(b, slots[x])
    <2>1. H(new, b) = H(slots, b) \ {x}
      BY <1>5, NilAssumption DEF Sets
    <2>2. x \in H(slots, b) <=> b = slots[x]
      OBVIOUS
    <2> HIDE DEF H
    <2>3. Cardinality(H(slots, b) \ {x})
            = IF x \in H(slots, b) THEN Cardinality(H(slots, b)) - 1 ELSE Cardinality(H(slots, b))
      BY <1>1, FS_RemoveElement
    <2>4. Holding(new, b) = Cardinality(H(new, b)) /\ Holding(slots, b) = Cardinality(H(slots, b))
      BY <1>2
    <2>5. Holding(slots, b) \in Nat
      BY <1>2
    <2> QED BY <2>1, <2>2, <2>3, <2>4, <2>5 DEF One
  <1> QED BY <1>3, <1>4, <1>5

\* The slots that a callee starts with hold what it was given and nothing else.
LEMMA OnlyHolds ==
  ASSUME NEW c \in Refs
  PROVE  /\ Only(c) \in [Slots -> Refs]
         /\ \A b \in Blocks : Holding(Only(c), b) = One(b, c)
  <1>1. Empty \in [Slots -> Refs] /\ \A b \in Blocks : Holding(Empty, b) = 0
    BY EmptyHolds
  <1>2. 1 \in Slots /\ Empty[1] = Nil
    BY SlotsAssumption DEF Empty
  <1>3. Sets(Only(c), Empty, 1, c)
    BY DEF Sets, Only
  <1>4. /\ Only(c) \in [Slots -> Refs]
        /\ \A b \in Blocks : Holding(Only(c), b) = Holding(Empty, b) + One(b, c)
    BY <1>1, <1>2, <1>3, HoldingChanged
  <1> QED BY <1>1, <1>4 DEF One

\* Only blocks that a slot holds are counted.
LEMMA HeldCounts ==
  ASSUME NEW slots \in [Slots -> Refs]
  PROVE  /\ \A x \in Slots : slots[x] \in Blocks => Holding(slots, slots[x]) >= 1
         /\ (\A x \in Slots : slots[x] = Nil) => \A b \in Blocks : Holding(slots, b) = 0
  <1>1. ASSUME NEW x \in Slots, slots[x] \in Blocks
        PROVE  Holding(slots, slots[x]) >= 1
    <2>1. PICK new : Sets(new, slots, x, Nil)
      BY DEF Sets
    <2>2. /\ new \in [Slots -> Refs]
          /\ Holding(new, slots[x]) = Holding(slots, slots[x]) - One(slots[x], slots[x])
      BY <1>1, <2>1, HoldingChanged, RefsAre
    <2>3. Holding(new, slots[x]) \in Nat /\ Holding(slots, slots[x]) \in Nat
      BY HoldingNat
    <2> QED BY <2>2, <2>3 DEF One
  <1>2. ASSUME \A x \in Slots : slots[x] = Nil, NEW b \in Blocks
        PROVE  Holding(slots, b) = 0
    <2>1. slots = Empty
      BY <1>2 DEF Empty
    <2> QED BY <2>1, EmptyHolds
  <1> QED BY <1>1, <1>2

\* What allocating, freeing and emptying a block do to the holders in fields.
LEMMA FieldsChanged ==
  ASSUME NEW fl \in [Blocks -> Refs], NEW lv \in SUBSET Blocks, NEW b \in Blocks
  PROVE  /\ \A x : FieldCount(fl, lv, x) \in Nat
         \* a new block b whose field is c
         /\ \A new, lv2 : \A c \in Refs :
              (b \notin lv /\ Sets(new, fl, b, c) /\ lv2 = lv \cup {b}) =>
                \A x \in Blocks : FieldCount(new, lv2, x) = FieldCount(fl, lv, x) + One(x, c)
         \* b is freed, its field empty
         /\ \A lv2 : (fl[b] = Nil /\ lv2 = lv \ {b}) =>
                \A x \in Blocks : FieldCount(fl, lv2, x) = FieldCount(fl, lv, x)
         \* b's field is emptied
         /\ \A new : (b \in lv /\ Sets(new, fl, b, Nil)) =>
                \A x \in Blocks : FieldCount(new, lv, x) = FieldCount(fl, lv, x) - One(x, fl[b])
  <1> DEFINE C(g, l, x) == {c \in l : g[c] = x}
  <1>1. \A g, x : \A l \in SUBSET Blocks : IsFiniteSet(C(g, l, x)) /\ Cardinality(C(g, l, x)) \in Nat
    <2> SUFFICES ASSUME NEW g, NEW x, NEW l \in SUBSET Blocks
                 PROVE  IsFiniteSet(C(g, l, x)) /\ Cardinality(C(g, l, x)) \in Nat
      OBVIOUS
    <2>1. C(g, l, x) \in SUBSET Blocks
      OBVIOUS
    <2> HIDE DEF C
    <2> QED BY <2>1, NilAssumption, FS_Subset, FS_CardinalityType
  <1>2. \A g, l, x : FieldCount(g, l, x) = Cardinality(C(g, l, x))
    BY DEF FieldCount
  <1>3. ASSUME NEW new, NEW lv2, NEW c \in Refs, NEW x \in Blocks,
               b \notin lv, Sets(new, fl, b, c), lv2 = lv \cup {b}
        PROVE  FieldCount(new, lv2, x) = FieldCount(fl, lv, x) + One(x, c)
    <2>1. C(new, lv2, x) = IF x = c THEN C(fl, lv, x) \cup {b} ELSE C(fl, lv, x)
      BY <1>3 DEF Sets
    <2>2. b \notin C(fl, lv, x)
      BY <1>3
    <2>3. FieldCount(new, lv2, x) = Cardinality(C(new, lv2, x)) /\ FieldCount(fl, lv, x) = Cardinality(C(fl, lv, x))
      BY <1>2
    <2> HIDE DEF C
    <2>4. Cardinality(C(fl, lv, x) \cup {b}) = Cardinality(C(fl, lv, x)) + 1
      BY <1>1, <2>2, FS_AddElement
    <2>5. Cardinality(C(fl, lv, x)) \in Nat
      BY <1>1
    <2> QED BY <2>1, <2>3, <2>4, <2>5 DEF One
  <1>4. ASSUME NEW lv2, NEW x \in Blocks, fl[b] = Nil, lv2 = lv \ {b}
        PROVE  FieldCount(fl, lv2, x) = FieldCount(fl, lv, x)
    <2>1. C(fl, lv2, x) = C(fl, lv, x)
      BY <1>4, RefsAre
    <2> QED BY <2>1, <1>2
  <1>5. ASSUME NEW new, NEW x \in Blocks, b \in lv, Sets(new, fl, b, Nil)
        PROVE  FieldCount(new, lv, x) = FieldCount(fl, lv, x) - One(x, fl[b])
    <2>1. C(new, lv, x) = C(fl, lv, x) \ {b}
      BY <1>5, RefsAre DEF Sets
    <2>2. b \in C(fl, lv, x) <=> x = fl[b]
      BY <1>5
    <2>3. FieldCount(new, lv, x) = Cardinality(C(new, lv, x)) /\ FieldCount(fl, lv, x) = Cardinality(C(fl, lv, x))
      BY <1>2
    <2> HIDE DEF C
    <2>4. Cardinality(C(fl, lv, x) \ {b})
            = IF b \in C(fl, lv, x) THEN Cardinality(C(fl, lv, x)) - 1 ELSE Cardinality(C(fl, lv, x))
      BY <1>1, FS_RemoveElement
    <2>5. Cardinality(C(fl, lv, x)) \in Nat
      BY <1>1
    <2> QED BY <2>1, <2>2, <2>3, <2>4, <2>5 DEF One
  <1>6. \A x : FieldCount(fl, lv, x) \in Nat
    BY <1>1, <1>2
  <1> HIDE DEF C
  <1> QED BY <1>3, <1>4, <1>5, <1>6

---------------------------------------------------------------------------
(* What the helpers of the VM do to its fields.                            *)

Same(w, v) == w.CleanupDepth = v.CleanupDepth /\ w.Poll = v.Poll

\* w is v after a fault was recorded in it.
Faulted(w, v) ==
  /\ w \in VMs /\ Same(w, v) /\ w.SP = v.SP
  /\ IF v.CleanupDepth = 0
     THEN w.Status = "FAULTED" /\ w.FaultMsg /\ w.FaultRaised /\ w.abort = "none"
     ELSE w.abort = "cleanup" /\ ~w.FaultRaised

\* w is v after a frame was pushed.
Room(v, kind) ==
  v.SP + frameReserve(kind) <= IF v.CleanupDepth = 0 THEN L0 ELSE StackSize
Advanced(w, v, kind) ==
  /\ w \in VMs /\ Same(w, v) /\ w.SP = v.SP + frameExtent(kind)
  /\ w.Status = v.Status /\ w.FaultMsg = v.FaultMsg /\ w.abort = "none" /\ ~w.FaultRaised

\* setFault records the fault and its message (vm_fault.bn).
LEMMA FaultRecorded ==
  ASSUME NEW v \in VMs, v.abort = "none", ~v.FaultRaised
  PROVE  Faulted(setFault(v), v)
  <1>1. CASE v.CleanupDepth = 0
    <2>1. setFault(v) = [v EXCEPT !.Status = "FAULTED", !.FaultMsg = TRUE, !.FaultRaised = TRUE]
      BY <1>1 DEF setFault
    <2> QED BY <1>1, <2>1 DEF Faulted, Same, VMs
  <1>2. CASE v.CleanupDepth # 0
    <2>1. setFault(v) = [v EXCEPT !.abort = "cleanup"]
      BY <1>2 DEF setFault
    <2> QED BY <1>2, <2>1 DEF Faulted, Same, VMs
  <1> QED BY <1>1, <1>2

\* pushFrame advances the stack pointer, or faults when there is no room.
LEMMA FramePushed ==
  ASSUME NEW v \in VMs, v.abort = "none", ~v.FaultRaised,
         NEW kind \in {"entry", "call", "dtor", "helper"}
  PROVE  /\ frameExtent(kind) \in Nat /\ frameReserve(kind) \in Nat
         /\ Overflowed(pushFrame(v, kind)) <=> ~Room(v, kind)
         /\ wouldFrameOverflow(v, frameReserve(kind)) <=> ~Room(v, kind)
         /\ Room(v, kind) => Advanced(pushFrame(v, kind), v, kind)
         /\ ~Room(v, kind) => Faulted(pushFrame(v, kind), v)
  <1>1. frameExtent(kind) \in Nat /\ frameReserve(kind) \in Nat
    BY Sizes DEF frameExtent, frameReserve
  <1>2. wouldFrameOverflow(v, frameReserve(kind)) <=> ~Room(v, kind)
    <2>1. stackLimit(v.CleanupDepth) = IF v.CleanupDepth = 0 THEN L0 ELSE StackSize
      BY Sizes DEF VMs
    <2>2. v.SP \in Nat
      BY DEF VMs
    <2> QED BY <1>1, <2>1, <2>2, Sizes DEF wouldFrameOverflow, Room
  <1>3. CASE Room(v, kind)
    <2>1. pushFrame(v, kind) = [v EXCEPT !.SP = @ + frameExtent(kind)]
      BY <1>2, <1>3 DEF pushFrame
    <2>2. Advanced(pushFrame(v, kind), v, kind)
      BY <1>1, <2>1 DEF Advanced, Same, VMs
    <2> QED BY <1>1, <1>2, <1>3, <2>2 DEF Overflowed, Advanced
  <1>4. CASE ~Room(v, kind)
    <2>1. pushFrame(v, kind) = setFault(v)
      BY <1>2, <1>4 DEF pushFrame
    <2>2. Faulted(pushFrame(v, kind), v)
      BY <2>1, FaultRecorded
    <2> QED BY <1>1, <1>2, <1>4, <2>2 DEF Overflowed, Faulted
  <1> QED BY <1>3, <1>4

\* What each kind of frame takes and asks for.
LEMMA FrameSizes ==
  /\ frameExtent("entry") = USER_EXTENT /\ frameExtent("call") = USER_EXTENT
  /\ frameExtent("dtor") = DTOR_EXTENT /\ frameExtent("helper") = DTOR_EXTENT
  /\ frameReserve("entry") = USER_EXTENT + TEMP_GROWTH
  /\ frameReserve("call") = USER_EXTENT + TEMP_GROWTH
  /\ frameReserve("dtor") = DTOR_EXTENT /\ frameReserve("helper") = DTOR_EXTENT
  BY Sizes DEF frameExtent, frameReserve

\* w is v after its fault was consumed.
Consumed(w, v, table) ==
  /\ w \in VMs /\ w.CleanupDepth = v.CleanupDepth + 1 /\ w.Poll = v.Poll /\ w.SP = v.SP
  /\ w.Status = v.Status /\ w.FaultMsg = v.FaultMsg /\ ~w.FaultRaised
  /\ v.abort = "none" => w.abort = IF table THEN "none" ELSE "missingPad"
  /\ v.abort # "none" => w.abort = v.abort

\* consumeFaultToPad clears the signal and opens the context of the pad.
LEMMA FaultConsumed ==
  ASSUME NEW v \in VMs, NEW table \in BOOLEAN
  PROVE  Consumed(consumeFaultToPad(v, table), v, table)
  <1> DEFINE a == IF table \/ v.abort # "none" THEN v.abort ELSE "missingPad"
             w == [v EXCEPT !.FaultRaised = FALSE, !.CleanupDepth = v.CleanupDepth + 1,
                            !.abort = a]
  <1>1. consumeFaultToPad(v, table) = w
    BY DEF consumeFaultToPad, VMs
  <1>2. /\ a \in {"none", "cleanup", "missingPad"}
        /\ v.abort = "none" => a = IF table THEN "none" ELSE "missingPad"
        /\ v.abort # "none" => a = v.abort
    BY DEF VMs
  <1> HIDE DEF a
  <1>3. w \in VMs
    <2>1. [v EXCEPT !.FaultRaised = FALSE] \in VMs
      BY DEF VMs
    <2>2. v.CleanupDepth + 1 \in Nat
      BY DEF VMs
    <2>3. [[v EXCEPT !.FaultRaised = FALSE] EXCEPT !.CleanupDepth = v.CleanupDepth + 1] \in VMs
      BY <2>1, <2>2, Zenon DEF VMs
    <2> QED BY <1>2, <2>3, Zenon DEF VMs
  <1>4. /\ w.CleanupDepth = v.CleanupDepth + 1 /\ w.Poll = v.Poll /\ w.SP = v.SP
        /\ w.Status = v.Status /\ w.FaultMsg = v.FaultMsg /\ w.FaultRaised = FALSE
        /\ w.abort = a
    BY DEF VMs
  <1> HIDE DEF w
  <1> QED BY <1>1, <1>2, <1>3, <1>4 DEF Consumed

---------------------------------------------------------------------------
(* The top of the stack.                                                   *)

Standing(s, rest, top) ==
  /\ rest \in Seq(Frames) /\ top \in Frames /\ s = Append(rest, top)
  /\ Len(rest) = Len(s) - 1 /\ Len(s) \in Nat /\ Len(s) > 0
  /\ Built(rest) /\ OnTop(rest, top) /\ Depth(rest) \in Nat
  /\ Depth(s) = IF Ctx(top) THEN Depth(rest) + 1 ELSE Depth(rest)
  /\ Last(s) = top

\* What the top frame of a built stack says of itself and of the frames below it.
LEMMA Stands ==
  ASSUME NEW s \in Seq(Frames), s # <<>>, Built(s)
  PROVE  Standing(s, SubSeq(s, 1, Len(s) - 1), Last(s))
  <1> DEFINE rest == SubSeq(s, 1, Len(s) - 1)
             top == Last(s)
  <1>1. Split(s, rest)
    BY TakenApart
  <1>2. Len(s) \in Nat /\ Len(s) > 0
    BY EmptySeq
  <1> HIDE DEF rest
  <1>3. rest \in Seq(Frames) /\ top \in Frames /\ s = Append(rest, top) /\ Len(rest) = Len(s) - 1
    BY <1>1 DEF Split
  <1> HIDE DEF top
  <1>4. Built(rest) /\ OnTop(rest, top)
    BY <1>3, BuiltAppended
  <1>5. /\ Depth(rest) \in Nat
        /\ Depth(s) = IF Ctx(top) THEN Depth(rest) + 1 ELSE Depth(rest)
    BY <1>3, DepthAppended
  <1>6. Standing(s, rest, top)
    BY <1>2, <1>3, <1>4, <1>5 DEF Standing, top
  <1> QED BY <1>6 DEF rest, top

\* A stack pointer that fits its stack is within bounds.
LEMMA Within ==
  ASSUME NEW v \in VMs, NEW s \in Seq(Frames), Built(s),
         v.CleanupDepth = Depth(s), Fits(v, s)
  PROVE  InBounds(v)
  <1>1. CASE s = <<>>
    BY <1>1, Sizes DEF Fits, InBounds
  <1>2. CASE s # <<>>
    <2> DEFINE rest == SubSeq(s, 1, Len(s) - 1)
               top == Last(s)
    <2>1. Standing(s, rest, top)
      BY <1>2, Stands
    <2> HIDE DEF rest, top
    <2>2. OnTop(rest, top) /\ FrameOk(top) /\ Last(s) = top /\ top \in Frames
      BY <2>1 DEF Standing, OnTop
    <2>3. CASE ~Small(top)
      <3>1. v.SP <= L0
        BY <1>2, <2>2, <2>3 DEF Fits
      <3> QED BY <3>1, Sizes DEF InBounds, VMs
    <2>4. CASE Small(top)
      <3>1. v.SP = top.base + DTOR_EXTENT
        BY <1>2, <2>2, <2>4 DEF Fits
      <3>2. top.base + DTOR_EXTENT <= StackSize
        BY <2>2, <2>4 DEF FrameOk
      <3>3. ASSUME v.CleanupDepth = 0
            PROVE  v.SP <= L0
        <4>1. Depth(rest) = 0 /\ ~Ctx(top)
          BY <2>1, <3>3 DEF Standing
        <4>2. top.kind = "helper"
          BY <2>4, <4>1 DEF Small, Ctx
        <4> QED BY <2>2, <3>1, <4>1, <4>2 DEF OnTop
      <3> QED BY <3>1, <3>2, <3>3 DEF InBounds
    <2> QED BY <2>3, <2>4
  <1> QED BY <1>1, <1>2

\* The top frame with other slots or in another mode.
Redone(new, top) ==
  /\ new \in Frames /\ new.kind = top.kind /\ new.table = top.table
  /\ new.base = top.base /\ new.freeOnPop = top.freeOnPop

\* A frame that is redone sits on the stack where the old one did.
LEMMA Retopped ==
  ASSUME NEW rest \in Seq(Frames), NEW top \in Frames, OnTop(rest, top),
         NEW new, Redone(new, top),
         Small(top) => new.mode = "exit",
         top.kind = "native" => new.mode = "body" /\ new.slots = Empty,
         top.kind = "entry" /\ ~top.table => new.slots = Empty /\ new.mode # "pad"
  PROVE  /\ OnTop(rest, new)
         /\ Dying(Append(rest, new)) = Dying(Append(rest, top))
  <1>1. FrameOk(new)
    BY DEF Redone, OnTop, FrameOk, Small, User
  <1>2. OnTop(rest, new)
    BY <1>1 DEF Redone, OnTop, Over, Small, User
  <1>3. Dying(Append(rest, new)) = Dying(Append(rest, top))
    BY DyingAppended DEF Redone
  <1> QED BY <1>2, <1>3

\* A frame with another mode, or another reference in one of its slots.
Remoded(new, top, mode) == new = [top EXCEPT !.mode = mode]
Reslotted(new, top, x, c) == new = [top EXCEPT !.slots[x] = c]

\* Changing the mode, or one slot, of a frame redoes it.
LEMMA FrameChanged ==
  ASSUME NEW top \in Frames, NEW new
  PROVE  /\ \A mode \in {"body", "exit", "pad"} : Remoded(new, top, mode) =>
              Redone(new, top) /\ new.slots = top.slots /\ new.mode = mode
         /\ \A x \in Slots, c \in Refs : Reslotted(new, top, x, c) =>
              Redone(new, top) /\ Sets(new.slots, top.slots, x, c) /\ new.mode = top.mode
  <1>1. ASSUME NEW mode \in {"body", "exit", "pad"}, Remoded(new, top, mode)
        PROVE  Redone(new, top) /\ new.slots = top.slots /\ new.mode = mode
    <2>1. new \in Frames
      BY <1>1 DEF Remoded, Frames
    <2> QED BY <1>1, <2>1 DEF Remoded, Redone, Frames
  <1>2. ASSUME NEW x \in Slots, NEW c \in Refs, Reslotted(new, top, x, c)
        PROVE  Redone(new, top) /\ Sets(new.slots, top.slots, x, c) /\ new.mode = top.mode
    <2>1. [top.slots EXCEPT ![x] = c] \in [Slots -> Refs]
      BY DEF Frames
    <2> DEFINE sl == [top.slots EXCEPT ![x] = c]
    <2>2. new = [top EXCEPT !.slots = sl]
      BY <1>2 DEF Reslotted
    <2>3. sl \in [Slots -> Refs]
      BY <2>1
    <2>4. Sets(sl, top.slots, x, c)
      BY DEF Sets
    <2> HIDE DEF sl
    <2>5. new \in Frames
      BY <2>2, <2>3 DEF Frames
    <2>6. new.slots = sl /\ new.mode = top.mode
      BY <2>2 DEF Frames
    <2>7. Redone(new, top)
      BY <2>2, <2>5 DEF Redone, Frames
    <2> QED BY <2>4, <2>6, <2>7
  <1> QED BY <1>1, <1>2

\* A new frame is as it was asked for.
LEMMA FrameMade ==
  ASSUME NEW kind \in {"entry", "call", "dtor", "helper", "native"},
         NEW mode \in {"body", "exit"}, NEW table \in BOOLEAN,
         NEW slots \in [Slots -> Refs], NEW base \in Nat, NEW free \in Refs,
         NEW f, f = Frame(kind, mode, table, slots, base, free)
  PROVE  /\ f \in Frames /\ f.kind = kind /\ f.mode = mode /\ f.table = table
         /\ f.slots = slots /\ f.base = base /\ f.freeOnPop = free
  BY DEF Frame, Frames

---------------------------------------------------------------------------
(* Steps that leave the heap alone.                                        *)

\* Stack s2 holds every block as often as s does, those lost apart.
Kept(s2, s, ls2, ls) ==
  /\ ls \subseteq ls2 /\ Dying(s2) = Dying(s)
  /\ \A b \in Blocks : /\ SlotCount(s2, b) <= SlotCount(s, b)
                       /\ b \notin ls2 => SlotCount(s2, b) = SlotCount(s, b)

\* Steps that leave the heap alone keep its counts when no holder appears or goes.
LEMMA Keeps ==
  ASSUME NEW s \in Seq(Frames), NEW s2 \in Seq(Frames), NEW r \in [Blocks -> Nat],
         NEW fl \in [Blocks -> Refs], NEW lv \in SUBSET Blocks, NEW ls, NEW ls2,
         Exact(s, r, fl, lv, ls), Doomed(s, r, fl, lv), Kept(s2, s, ls2, ls)
  PROVE  Exact(s2, r, fl, lv, ls2) /\ Doomed(s2, r, fl, lv)
  <1>1. Doomed(s2, r, fl, lv)
    BY DEF Doomed, Kept
  <1>2. ASSUME NEW b \in Blocks
        PROVE  LET count == IF b \in lv THEN r[b] ELSE 0
               IN /\ SlotCount(s2, b) + FieldCount(fl, lv, b) <= count
                  /\ b \notin ls2 => SlotCount(s2, b) + FieldCount(fl, lv, b) = count
    <2>1. SlotCount(s, b) \in Nat /\ SlotCount(s2, b) \in Nat /\ FieldCount(fl, lv, b) \in Nat
      BY SlotsAppended, FieldsChanged
    <2>2. /\ SlotCount(s2, b) <= SlotCount(s, b)
          /\ b \notin ls2 => b \notin ls /\ SlotCount(s2, b) = SlotCount(s, b)
      BY DEF Kept
    <2> DEFINE count == IF b \in lv THEN r[b] ELSE 0
    <2>3. count \in Nat
      OBVIOUS
    <2>4. /\ SlotCount(s, b) + FieldCount(fl, lv, b) <= count
          /\ b \notin ls => SlotCount(s, b) + FieldCount(fl, lv, b) = count
      BY DEF Exact
    <2> HIDE DEF count
    <2>5. /\ SlotCount(s2, b) + FieldCount(fl, lv, b) <= count
          /\ b \notin ls2 => SlotCount(s2, b) + FieldCount(fl, lv, b) = count
      BY <2>1, <2>2, <2>3, <2>4
    <2> QED BY <2>5 DEF count
  <1>3. Exact(s2, r, fl, lv, ls2)
    BY <1>2 DEF Exact
  <1> QED BY <1>1, <1>3

\* The stack stays as it is, gains or loses a frame that holds nothing, or its
\* top frame changes its mode.
LEMMA KeptByShape ==
  ASSUME NEW rest \in Seq(Frames), NEW top \in Frames, NEW ls
  PROVE  /\ Kept(rest, rest, ls, ls)
         /\ (top.freeOnPop = Nil /\ \A b \in Blocks : Holding(top.slots, b) = 0) =>
              Kept(Append(rest, top), rest, ls, ls) /\ Kept(rest, Append(rest, top), ls, ls)
         /\ \A new \in Frames : (Redone(new, top) /\ new.slots = top.slots) =>
              Kept(Append(rest, new), Append(rest, top), ls, ls)
  <1>1. \A b \in Blocks : SlotCount(rest, b) \in Nat /\ Holding(top.slots, b) \in Nat
    BY SlotsAppended, HoldingNat
  <1>2. \A b \in Blocks : SlotCount(Append(rest, top), b) = SlotCount(rest, b) + Holding(top.slots, b)
    BY SlotsAppended
  <1>3. Kept(rest, rest, ls, ls)
    BY <1>1 DEF Kept
  <1>4. ASSUME top.freeOnPop = Nil, \A b \in Blocks : Holding(top.slots, b) = 0
        PROVE  Kept(Append(rest, top), rest, ls, ls) /\ Kept(rest, Append(rest, top), ls, ls)
    <2>1. Dying(Append(rest, top)) = Dying(rest)
      BY <1>4, DyingAppended
    <2>2. \A b \in Blocks : SlotCount(Append(rest, top), b) = SlotCount(rest, b)
      BY <1>1, <1>2, <1>4
    <2> QED BY <1>1, <2>1, <2>2 DEF Kept
  <1>5. ASSUME NEW new \in Frames, Redone(new, top), new.slots = top.slots
        PROVE  Kept(Append(rest, new), Append(rest, top), ls, ls)
    <2>1. Dying(Append(rest, new)) = Dying(Append(rest, top))
      BY <1>5, DyingAppended DEF Redone
    <2>2. \A b \in Blocks : SlotCount(Append(rest, new), b) = SlotCount(Append(rest, top), b)
      BY <1>2, <1>5, SlotsAppended
    <2>3. \A b \in Blocks : SlotCount(Append(rest, top), b) \in Nat
      BY <1>1, <1>2
    <2> QED BY <2>1, <2>2, <2>3 DEF Kept
  <1> QED BY <1>3, <1>4, <1>5

\* A reference moves from the top frame into a frame pushed on it, or is dropped
\* with that frame.
LEMMA KeptByMove ==
  ASSUME NEW rest \in Seq(Frames), NEW top \in Frames, NEW ls,
         NEW m \in Slots, NEW new \in Frames, Redone(new, top),
         Sets(new.slots, top.slots, m, Nil)
  PROVE  /\ \A f \in Frames : (f.slots = Only(top.slots[m]) /\ f.freeOnPop = Nil) =>
              Kept(Append(Append(rest, new), f), Append(rest, top), ls, ls)
         /\ Kept(Append(rest, new), Append(rest, top), ls \cup {top.slots[m]}, ls)
  <1>1. top.slots \in [Slots -> Refs] /\ top.slots[m] \in Refs
    BY DEF Frames
  <1>2. \A b \in Blocks : Holding(new.slots, b) = Holding(top.slots, b) - One(b, top.slots[m])
    BY <1>1, HoldingChanged, RefsAre
  <1>3. \A b \in Blocks : Holding(Only(top.slots[m]), b) = One(b, top.slots[m])
    BY <1>1, OnlyHolds
  <1>4. \A b \in Blocks : /\ SlotCount(rest, b) \in Nat /\ Holding(top.slots, b) \in Nat
                          /\ Holding(new.slots, b) \in Nat
    BY SlotsAppended, HoldingNat
  <1>5. \A b \in Blocks :
          /\ SlotCount(Append(rest, top), b) = SlotCount(rest, b) + Holding(top.slots, b)
          /\ SlotCount(Append(rest, new), b) = SlotCount(rest, b) + Holding(new.slots, b)
    BY SlotsAppended
  <1>6. Dying(Append(rest, new)) = Dying(Append(rest, top))
    BY DyingAppended DEF Redone
  <1>7. ASSUME NEW f \in Frames, f.slots = Only(top.slots[m]), f.freeOnPop = Nil
        PROVE  Kept(Append(Append(rest, new), f), Append(rest, top), ls, ls)
    <2>1. Append(rest, new) \in Seq(Frames)
      BY Appended
    <2>2. Dying(Append(Append(rest, new), f)) = Dying(Append(rest, top))
      BY <1>6, <1>7, <2>1, DyingAppended
    <2>3. \A b \in Blocks : SlotCount(Append(Append(rest, new), f), b)
                              = SlotCount(Append(rest, new), b) + Holding(f.slots, b)
      BY <2>1, SlotsAppended
    <2>4. \A b \in Blocks : SlotCount(Append(Append(rest, new), f), b) = SlotCount(Append(rest, top), b)
      BY <1>2, <1>3, <1>4, <1>5, <1>7, <2>3 DEF One
    <2>5. \A b \in Blocks : SlotCount(Append(rest, top), b) \in Nat
      BY <1>4, <1>5
    <2> QED BY <2>2, <2>4, <2>5 DEF Kept
  <1>8. Kept(Append(rest, new), Append(rest, top), ls \cup {top.slots[m]}, ls)
    <2>1. \A b \in Blocks : /\ SlotCount(Append(rest, new), b) <= SlotCount(Append(rest, top), b)
                            /\ b # top.slots[m] =>
                                 SlotCount(Append(rest, new), b) = SlotCount(Append(rest, top), b)
      <3> TAKE b \in Blocks
      <3>1. Holding(new.slots, b) = Holding(top.slots, b) - One(b, top.slots[m])
        BY <1>2
      <3>2. One(b, top.slots[m]) \in Nat /\ (b # top.slots[m] => One(b, top.slots[m]) = 0)
        BY DEF One
      <3> QED BY <1>4, <1>5, <3>1, <3>2
    <2> QED BY <1>6, <2>1 DEF Kept
  <1> QED BY <1>7, <1>8

---------------------------------------------------------------------------
(* The steps.                                                              *)

\* What is known of a running frame.
LEMMA Here ==
  ASSUME IInv, stack # <<>>, vm.abort = "none"
  PROVE  /\ Standing(stack, Below, Top) /\ FrameOk(Top) /\ Top \in Frames /\ Top.base \in Nat
         /\ Sound /\ vm \in VMs /\ vm.SP \in Nat /\ Below \in Seq(Frames)
         /\ vm.CleanupDepth \in Nat /\ Top.slots \in [Slots -> Refs] /\ Top.table \in BOOLEAN
         /\ vm.CleanupDepth = IF Ctx(Top) THEN Depth(Below) + 1 ELSE Depth(Below)
         /\ IF Small(Top) THEN vm.SP = Top.base + DTOR_EXTENT ELSE vm.SP <= L0
         /\ ~Small(Top) => InBodies(Below) /\ Depth(Below) = 0
  <1>1. Sound /\ stack \in Seq(Frames) /\ vm \in VMs
    BY DEF IInv, TypeOK
  <1>2. Standing(stack, Below, Top)
    <2>1. Standing(stack, SubSeq(stack, 1, Len(stack) - 1), Last(stack))
      BY <1>1, Stands DEF Sound
    <2> QED BY <2>1 DEF Below, Top, Last
  <1>3. /\ Top \in Frames /\ OnTop(Below, Top) /\ Built(Below) /\ Below \in Seq(Frames)
        /\ Last(stack) = Top /\ Depth(stack) = IF Ctx(Top) THEN Depth(Below) + 1 ELSE Depth(Below)
    BY <1>2 DEF Standing
  <1>4. FrameOk(Top) /\ (~Small(Top) => InBodies(Below))
    BY <1>3 DEF OnTop
  <1>5. InBodies(Below) => Depth(Below) = 0
    BY <1>3, BodiesAreQuiet
  <1>6. IF Small(Top) THEN vm.SP = Top.base + DTOR_EXTENT ELSE vm.SP <= L0
    BY <1>1, <1>3 DEF Sound, Fits
  <1>7. /\ Top.base \in Nat /\ Top.slots \in [Slots -> Refs] /\ Top.table \in BOOLEAN
        /\ vm.SP \in Nat /\ vm.CleanupDepth \in Nat
    BY <1>1, <1>3 DEF Frames, VMs
  <1>8. vm.CleanupDepth = IF Ctx(Top) THEN Depth(Below) + 1 ELSE Depth(Below)
    BY <1>1, <1>3 DEF Sound
  <1> QED BY <1>1, <1>2, <1>3, <1>4, <1>5, <1>6, <1>7, <1>8

\* A step that leaves the heap alone and the VM running.
LEMMA Arrives ==
  ASSUME IInv, vm.abort = "none", UNCHANGED heap,
         vm' \in VMs, stack' \in Seq(Frames), raised' \in BOOLEAN, lost' \in SUBSET Blocks,
         vm'.abort = "none", ~vm'.FaultRaised,
         Built(stack'), vm'.CleanupDepth = Depth(stack'), Fits(vm', stack'),
         Kept(stack', stack, lost', lost), Reported(vm', raised')
  PROVE  IInv'
  <1>1. /\ stack \in Seq(Frames) /\ rc \in [Blocks -> Nat] /\ field \in [Blocks -> Refs]
        /\ live \in SUBSET Blocks
        /\ Sound
    BY DEF IInv, TypeOK
  <1>2. rc' = rc /\ field' = field /\ live' = live
    BY DEF heap
  <1>3. TypeOK'
    BY <1>1, <1>2 DEF TypeOK
  <1>4. InBounds(vm')
    BY Within
  <1>5. Exact(stack', rc, field, live, lost') /\ Doomed(stack', rc, field, live)
    BY <1>1, Keeps DEF Sound
  <1>6. Sound'
    BY <1>1, <1>2, <1>5 DEF Sound
  <1>7. RedZoneSuffices'
    BY DEF RedZoneSuffices
  <1> QED BY <1>3, <1>4, <1>6, <1>7 DEF IInv

\* A step on which the VM panics.
LEMMA Stopped ==
  ASSUME IInv, vm.abort = "none", TypeOK', vm'.abort # "none",
         vm'.SP = vm.SP, vm'.CleanupDepth # 0,
         StackRedZone \in Cascade .. StackSize - 1 => vm'.abort # "cleanup"
  PROVE  IInv'
  <1>1. InBounds(vm')
    BY DEF InBounds, IInv
  <1>2. RedZoneSuffices'
    BY DEF RedZoneSuffices
  <1> QED BY <1>1, <1>2 DEF IInv

\* The same stack, or another stack pointer of a user frame, and a poll's reply.
LEMMA Polled ==
  ASSUME IInv, stack # <<>>, vm.abort = "none", NEW v \in VMs, NEW w \in vmPollPoint(v)
  PROVE  /\ w \in VMs /\ Same(w, v) /\ w.SP = v.SP /\ w.abort = v.abort
         /\ w.FaultRaised = v.FaultRaised
         /\ \A r : Reported(v, r) => Reported(w, r)
  <1>1. CASE w = v
    BY <1>1 DEF Same
  <1>2. ASSUME NEW r \in {q \in PollReplies : v.Poll}, w = [v EXCEPT !.Status = r]
        PROVE  /\ w \in VMs /\ Same(w, v) /\ w.SP = v.SP /\ w.abort = v.abort
               /\ w.FaultRaised = v.FaultRaised /\ w.Poll
    <2>1. r \in {"SUSPENDED", "BROKE"} /\ v.Poll
      BY <1>2, PollAssumption
    <2>2. w \in VMs
      BY <1>2, <2>1 DEF VMs
    <2> QED BY <1>2, <2>1, <2>2 DEF VMs, Same
  <1> QED BY <1>1, <1>2 DEF vmPollPoint, Reported

\* A step within the running frame keeps the invariant.
LEMMA StepsOver ==
  ASSUME IInv, Running, UNCHANGED <<stack, heap, raised, lost>>,
         vm' \in VMs, vm'.abort = "none", ~vm'.FaultRaised, Same(vm', vm),
         vm'.SP = vm.SP \/ (~Small(Top) /\ vm'.SP <= L0),
         Reported(vm', raised)
  PROVE  IInv'
  <1>1. stack # <<>> /\ vm.abort = "none"
    BY DEF Running
  <1>2. Sound /\ stack \in Seq(Frames) /\ raised \in BOOLEAN /\ lost \in SUBSET Blocks
    BY <1>1 DEF IInv, TypeOK
  <1>3. Last(stack) = Top
    BY DEF Last, Top
  <1>4. Fits(vm', stack)
    BY <1>1, <1>2, <1>3 DEF Fits, Sound
  <1>5. Kept(stack, stack, lost, lost)
    <2>1. Top \in Frames
      BY <1>1, Here
    <2> QED BY <1>2, <2>1, KeptByShape
  <1>6. stack' = stack /\ raised' = raised /\ lost' = lost /\ UNCHANGED heap
    OBVIOUS
  <1>7. Built(stack') /\ vm'.CleanupDepth = Depth(stack') /\ Fits(vm', stack')
    BY <1>2, <1>4, <1>6 DEF Sound, Same
  <1>8. Kept(stack', stack, lost', lost) /\ Reported(vm', raised')
    BY <1>5, <1>6
  <1>9. stack' \in Seq(Frames) /\ raised' \in BOOLEAN /\ lost' \in SUBSET Blocks
    BY <1>2, <1>6
  <1> QED BY <1>1, <1>6, <1>7, <1>8, <1>9, Arrives

\* A temporary moves the stack pointer, within the room that was checked.
LEMMA GrowStep ==
  ASSUME IInv, Grow
  PROVE  IInv'
  <1>1. /\ Running /\ User(Top) /\ vm.SP < Top.base + frameReserve(Top.kind)
        /\ vm' = [vm EXCEPT !.SP = @ + 1] /\ UNCHANGED <<stack, heap, raised, lost>>
    BY DEF Grow, UserBody, InBody, User
  <1>2. stack # <<>> /\ vm.abort = "none"
    BY <1>1 DEF Running
  <1>3. /\ FrameOk(Top) /\ Top.base \in Nat /\ Sound /\ vm \in VMs /\ vm.SP \in Nat
    BY <1>2, Here
  <1>4. frameReserve(Top.kind) = USER_EXTENT + TEMP_GROWTH /\ ~Small(Top)
    BY <1>1, FrameSizes DEF User, Small
  <1>5. Top.base + USER_EXTENT + TEMP_GROWTH <= L0
    BY <1>1, <1>3 DEF FrameOk
  <1>6. vm.SP + 1 <= L0
    BY <1>1, <1>3, <1>4, <1>5, Sizes
  <1>7. /\ vm' \in VMs /\ vm'.SP = vm.SP + 1 /\ vm'.abort = "none" /\ ~vm'.FaultRaised
        /\ Same(vm', vm) /\ Reported(vm', raised)
    <2>1. vm' \in VMs
      BY <1>1, <1>3 DEF VMs
    <2> QED BY <1>1, <1>2, <1>3, <2>1 DEF VMs, Sound, Same, Reported
  <1> QED BY <1>1, <1>4, <1>6, <1>7, StepsOver

\* The temporaries of a statement are popped at its end.
LEMMA StatementEndStep ==
  ASSUME IInv, StatementEnd
  PROVE  IInv'
  <1> DEFINE v == [vm EXCEPT !.SP = Top.base + frameExtent(Top.kind)]
  <1>1. /\ Running /\ User(Top) /\ vm' \in vmPollPoint(v)
        /\ UNCHANGED <<stack, heap, raised, lost>>
    BY DEF StatementEnd, UserBody, InBody, User
  <1>2. stack # <<>> /\ vm.abort = "none"
    BY <1>1 DEF Running
  <1>3. /\ FrameOk(Top) /\ Top.base \in Nat /\ Sound /\ vm \in VMs /\ vm.SP \in Nat
    BY <1>2, Here
  <1>4. frameExtent(Top.kind) = USER_EXTENT /\ ~Small(Top)
    BY <1>1, FrameSizes DEF User, Small
  <1>5. Top.base + USER_EXTENT + TEMP_GROWTH <= L0
    BY <1>1, <1>3 DEF FrameOk
  <1>6. v \in VMs /\ v.SP = Top.base + USER_EXTENT /\ Same(v, vm) /\ Reported(v, raised)
        /\ v.abort = "none" /\ ~v.FaultRaised
    <2>1. v = [vm EXCEPT !.SP = Top.base + USER_EXTENT]
      BY <1>4
    <2>2. Top.base + USER_EXTENT \in Nat
      BY <1>3, Sizes
    <2>3. v \in VMs
      BY <1>3, <2>1, <2>2 DEF VMs
    <2> QED BY <1>2, <1>3, <2>1, <2>3 DEF VMs, Sound, Same, Reported
  <1>7. v.SP <= L0
    BY <1>3, <1>5, <1>6, Sizes
  <1> HIDE DEF v
  <1>8. /\ vm' \in VMs /\ Same(vm', v) /\ vm'.SP = v.SP /\ vm'.abort = v.abort
        /\ vm'.FaultRaised = v.FaultRaised /\ Reported(vm', raised)
    BY <1>1, <1>2, <1>6, Polled
  <1> QED BY <1>1, <1>4, <1>6, <1>7, <1>8, StepsOver DEF Same

\* A poll at a back edge leaves the stack as it is.
LEMMA BackEdgeStep ==
  ASSUME IInv, BackEdge
  PROVE  IInv'
  <1>1. Running /\ vm' \in vmPollPoint(vm) /\ UNCHANGED <<stack, heap, raised, lost>>
    BY DEF BackEdge
  <1>2. stack # <<>> /\ vm.abort = "none"
    BY <1>1 DEF Running
  <1>3. Sound /\ vm \in VMs
    BY <1>2, Here
  <1>4. /\ vm' \in VMs /\ Same(vm', vm) /\ vm'.SP = vm.SP /\ vm'.abort = vm.abort
        /\ vm'.FaultRaised = vm.FaultRaised /\ Reported(vm', raised)
    BY <1>1, <1>2, <1>3, Polled DEF Sound
  <1> QED BY <1>1, <1>2, <1>3, <1>4, StepsOver DEF Sound

\* Two steps that keep the holders keep them together.
LEMMA KeptTwice ==
  ASSUME NEW a \in Seq(Frames), NEW b \in Seq(Frames), NEW c \in Seq(Frames),
         NEW l1, NEW l2, NEW l3, Kept(c, b, l3, l2), Kept(b, a, l2, l1)
  PROVE  Kept(c, a, l3, l1)
  <1>1. l1 \subseteq l3 /\ Dying(c) = Dying(a)
    BY DEF Kept
  <1>2. ASSUME NEW x \in Blocks
        PROVE  /\ SlotCount(c, x) <= SlotCount(a, x)
               /\ x \notin l3 => SlotCount(c, x) = SlotCount(a, x)
    <2>1. SlotCount(a, x) \in Nat /\ SlotCount(b, x) \in Nat /\ SlotCount(c, x) \in Nat
      BY SlotsAppended
    <2>2. SlotCount(c, x) <= SlotCount(b, x) /\ SlotCount(b, x) <= SlotCount(a, x)
      BY DEF Kept
    <2>3. x \notin l3 => SlotCount(c, x) = SlotCount(a, x)
      BY DEF Kept
    <2> QED BY <2>1, <2>2, <2>3
  <1> QED BY <1>1, <1>2 DEF Kept

\* The running frame is in the body of a user function: no cleanup is open.
LEMMA AtBody ==
  ASSUME IInv, InBody
  PROVE  /\ stack # <<>> /\ vm.abort = "none" /\ User(Top) /\ ~Small(Top) /\ ~Ctx(Top)
         /\ Top.kind # "native" /\ Top.mode = "body" /\ Top.freeOnPop = Nil
         /\ vm.CleanupDepth = 0 /\ Depth(Below) = 0 /\ InBodies(Below) /\ vm.SP <= L0
         /\ (~Top.table => Top.slots = Empty)
         /\ ~vm.FaultRaised /\ Reported(vm, raised)
         /\ stack = Append(Below, Top) /\ Built(Below) /\ OnTop(Below, Top)
  <1>1. stack # <<>> /\ vm.abort = "none" /\ User(Top) /\ Top.mode = "body"
    BY DEF InBody, Running, User
  <1>2. ~Small(Top) /\ ~Ctx(Top) /\ Top.kind # "native"
    BY <1>1 DEF User, Small, Ctx
  <1>3. /\ vm.CleanupDepth = 0 /\ Depth(Below) = 0 /\ InBodies(Below) /\ vm.SP <= L0
        /\ FrameOk(Top) /\ Sound /\ Standing(stack, Below, Top)
    BY <1>1, <1>2, Here
  <1>4. (~Top.table => Top.slots = Empty) /\ Top.freeOnPop = Nil
    BY <1>1, <1>2, <1>3 DEF FrameOk, User
  <1> QED BY <1>1, <1>2, <1>3, <1>4 DEF Standing, Sound

\* What a user frame in its body may become.
LEMMA BodyChanged ==
  ASSUME IInv, InBody, NEW f, Redone(f, Top), Top.table \/ (f.slots = Empty /\ f.mode # "pad")
  PROVE  /\ f \in Frames /\ OnTop(Below, f) /\ Append(Below, f) \in Seq(Frames)
         /\ Built(Append(Below, f)) /\ ~Small(f) /\ User(f)
         /\ Depth(Append(Below, f)) = (IF f.mode = "pad" THEN 1 ELSE 0)
         /\ (f.mode = "body" => InBodies(Append(Below, f)))
         /\ Append(Below, f) # <<>> /\ Last(Append(Below, f)) = f
  <1>1. /\ User(Top) /\ ~Small(Top) /\ Top.kind # "native" /\ Depth(Below) = 0
        /\ InBodies(Below) /\ Built(Below) /\ OnTop(Below, Top) /\ stack # <<>> /\ vm.abort = "none"
    BY AtBody
  <1>2. Below \in Seq(Frames) /\ Top \in Frames
    BY <1>1, Here
  <1>3. OnTop(Below, f)
    BY <1>1, <1>2, Retopped
  <1>4. f \in Frames /\ ~Small(f) /\ User(f) /\ (Ctx(f) <=> f.mode = "pad")
    BY <1>1 DEF Redone, Small, User, Ctx
  <1>5. Depth(Append(Below, f)) = (IF f.mode = "pad" THEN 1 ELSE 0)
    BY <1>1, <1>2, <1>4, DepthAppended
  <1>6. f.mode = "body" => InBodies(Append(Below, f))
    BY <1>1, <1>2, <1>4, BodiesAppended
  <1>7. /\ Append(Below, f) \in Seq(Frames) /\ Append(Below, f) # <<>>
        /\ Last(Append(Below, f)) = f
    BY <1>2, <1>4, Appended
  <1>8. Built(Append(Below, f))
    BY <1>1, <1>2, <1>3, <1>4, BuiltAppended
  <1> QED BY <1>3, <1>4, <1>5, <1>6, <1>7, <1>8

\* A frame that faults goes to its landing pad, or leaves when it has none.
LEMMA ToPadStep ==
  ASSUME IInv, InBody, UNCHANGED heap,
         NEW v \in VMs, v.abort = "none", v.CleanupDepth = 0, v.Poll = vm.Poll, v.SP <= L0,
         v.SP = vm.SP \/ Top.table,
         NEW f, Redone(f, Top), Top.table \/ f.slots = Empty,
         NEW gone \in SUBSET Blocks, Kept(Append(Below, f), stack, lost \cup gone, lost),
         IF v.FaultRaised THEN v.Status = "FAULTED" /\ v.FaultMsg ELSE Reported(v, raised),
         ToPad(v, f, gone)
  PROVE  IInv'
  <1> DEFINE new == [f EXCEPT !.mode = "pad"]
  <1>1. /\ vm' = consumeFaultToPad(v, f.table) /\ stack' = Append(Below, new)
        /\ raised' = (raised \/ v.FaultRaised) /\ lost' = lost \cup gone
    BY DEF ToPad
  <1>2. f \in Frames /\ f.table = Top.table /\ Top.table \in BOOLEAN
    BY DEF Redone, Frames
  <1>3. Redone(new, f) /\ new.slots = f.slots /\ new.mode = "pad"
    BY <1>2, FrameChanged DEF Remoded
  <1> HIDE DEF new
  <1>4. Redone(new, Top)
    BY <1>3 DEF Redone
  <1>5. /\ stack # <<>> /\ vm.abort = "none" /\ raised \in BOOLEAN /\ lost \in SUBSET Blocks
        /\ v.FaultRaised \in BOOLEAN /\ stack \in Seq(Frames)
    BY AtBody DEF IInv, TypeOK, VMs
  <1>6. Below \in Seq(Frames)
    BY <1>5, Here
  <1>7. stack' \in Seq(Frames) /\ raised' \in BOOLEAN /\ lost' \in SUBSET Blocks
    BY <1>1, <1>3, <1>5, <1>6, Appended DEF Redone
  <1>8. /\ vm' \in VMs /\ vm'.CleanupDepth = 1 /\ vm'.Poll = v.Poll /\ vm'.SP = v.SP
        /\ vm'.Status = v.Status /\ vm'.FaultMsg = v.FaultMsg /\ ~vm'.FaultRaised
        /\ vm'.abort = IF Top.table THEN "none" ELSE "missingPad"
    <2>1. Consumed(vm', v, Top.table)
      BY <1>1, <1>2, FaultConsumed
    <2> QED BY <2>1 DEF Consumed
  <1>9. CASE Top.table
    <2>1. /\ Built(stack') /\ Depth(stack') = 1 /\ ~Small(new)
          /\ stack' # <<>> /\ Last(stack') = new
      BY <1>1, <1>3, <1>4, <1>9, BodyChanged
    <2>2. Fits(vm', stack')
      BY <1>8, <2>1 DEF Fits
    <2>3. Kept(stack', stack, lost', lost)
      <3>1. Kept(Append(Below, new), Append(Below, f), lost', lost')
        BY <1>2, <1>3, <1>6, KeptByShape DEF Redone
      <3>2. Append(Below, f) \in Seq(Frames) /\ Append(Below, new) \in Seq(Frames)
        BY <1>1, <1>2, <1>6, <1>7, Appended
      <3>3. Kept(Append(Below, f), stack, lost', lost)
        BY <1>1
      <3> QED BY <1>1, <1>5, <3>1, <3>2, <3>3, KeptTwice
    <2>4. Reported(vm', raised')
      BY <1>1, <1>8 DEF Reported
    <2> QED BY <1>5, <1>7, <1>8, <1>9, <2>1, <2>2, <2>3, <2>4, Arrives
  <1>10. CASE ~Top.table
    <2>1. TypeOK'
      BY <1>7, <1>8 DEF IInv, TypeOK, heap
    <2> QED BY <1>5, <1>8, <1>10, <2>1, Stopped
  <1> QED BY <1>9, <1>10

\* An op of the body faults: nil, bounds, division or a missing method.
LEMMA GuardFaultStep ==
  ASSUME IInv, GuardFault
  PROVE  IInv'
  <1>1. InBody /\ Top.table /\ ToPad(setFault(vm), Top, {}) /\ UNCHANGED heap
    BY DEF GuardFault, UserBody
  <1>2. /\ vm.abort = "none" /\ vm.CleanupDepth = 0 /\ vm.SP <= L0 /\ ~vm.FaultRaised
        /\ stack # <<>> /\ stack = Append(Below, Top)
    BY <1>1, AtBody
  <1>3. vm \in VMs /\ Top \in Frames /\ Below \in Seq(Frames)
    BY <1>2, Here
  <1>4. Faulted(setFault(vm), vm)
    BY <1>2, <1>3, FaultRecorded
  <1>5. Redone(Top, Top)
    BY <1>3 DEF Redone
  <1>6. Kept(Append(Below, Top), stack, lost \cup {}, lost)
    <2>1. Kept(Append(Below, Top), Append(Below, Top), lost, lost)
      BY <1>3, <1>5, KeptByShape
    <2>2. lost \cup {} = lost
      OBVIOUS
    <2> QED BY <1>2, <2>1, <2>2
  <1> DEFINE v == setFault(vm)
  <1>7. /\ v \in VMs /\ v.abort = "none" /\ v.CleanupDepth = 0 /\ v.Poll = vm.Poll
        /\ v.SP = vm.SP /\ v.FaultRaised /\ v.Status = "FAULTED" /\ v.FaultMsg
    BY <1>2, <1>4 DEF Faulted, Same
  <1>8. ToPad(v, Top, {})
    BY <1>1
  <1> HIDE DEF v
  <1>9. v.SP <= L0
    BY <1>2, <1>7
  <1> QED BY <1>1, <1>5, <1>6, <1>7, <1>8, <1>9, ToPadStep

\* An argument that is moved leaves its slot before the call is made.
LEMMA Moving ==
  ASSUME IInv, InBody, NEW m \in {0} \cup Held
  PROVE  /\ Redone(Moved(m), Top) /\ Moved(m).mode = "body"
         /\ Top.table \/ (m = 0 /\ Moved(m).slots = Empty)
         /\ m = 0 => Moved(m) = Top
         /\ m # 0 => /\ m \in Slots /\ Top.slots[m] \in Blocks
                     /\ Sets(Moved(m).slots, Top.slots, m, Nil)
  <1>1. stack # <<>> /\ vm.abort = "none" /\ Top.mode = "body" /\ (~Top.table => Top.slots = Empty)
    BY AtBody
  <1>2. Top \in Frames /\ Top.slots \in [Slots -> Refs]
    BY <1>1, Here
  <1>3. Held = {s \in Slots : Top.slots[s] # Nil}
    BY DEF Held
  <1>4. CASE m = 0
    <2>1. Moved(m) = Top
      BY <1>4 DEF Moved
    <2>2. 0 \notin Slots
      <3>1. Cardinality(Slots) \in Nat
        BY SlotsAssumption, FS_CardinalityType
      <3> QED BY <3>1, SlotsAssumption
    <2> QED BY <1>1, <1>2, <1>4, <2>1, <2>2 DEF Redone
  <1>5. CASE m # 0
    <2>1. m \in Slots /\ Top.slots[m] # Nil
      BY <1>3, <1>5
    <2>2. Top.slots[m] \in Blocks
      BY <1>2, <2>1 DEF Refs
    <2>3. Top.table
      BY <1>1, <2>1 DEF Empty
    <2>4. Reslotted(Moved(m), Top, m, Nil)
      BY <1>5 DEF Moved, Reslotted
    <2>5. Redone(Moved(m), Top) /\ Sets(Moved(m).slots, Top.slots, m, Nil) /\ Moved(m).mode = Top.mode
      BY <1>2, <2>1, <2>4, FrameChanged, RefsAre
    <2> QED BY <1>1, <1>5, <2>1, <2>2, <2>3, <2>5
  <1> QED BY <1>4, <1>5

\* The room a call needs is what BC_STACK_CHECK asks for.
LEMMA CallRoom ==
  ASSUME IInv, InBody
  PROVE  /\ Overflowed(pushFrame(vm, "call")) <=> ~Room(vm, "call")
         /\ stackCheckFails <=> Top.table /\ ~Room(vm, "call")
         /\ Room(vm, "call") <=> vm.SP + USER_EXTENT + TEMP_GROWTH <= L0
         /\ Room(vm, "call") => Advanced(pushFrame(vm, "call"), vm, "call")
         /\ ~Room(vm, "call") => Faulted(pushFrame(vm, "call"), vm)
         /\ Faulted(setFault(vm), vm)
  <1>1. stack # <<>> /\ vm.abort = "none" /\ vm.CleanupDepth = 0 /\ ~vm.FaultRaised
    BY AtBody
  <1>2. vm \in VMs /\ vm.SP \in Nat
    BY <1>1, Here
  <1>3. /\ Overflowed(pushFrame(vm, "call")) <=> ~Room(vm, "call")
        /\ wouldFrameOverflow(vm, frameReserve("call")) <=> ~Room(vm, "call")
        /\ Room(vm, "call") => Advanced(pushFrame(vm, "call"), vm, "call")
        /\ ~Room(vm, "call") => Faulted(pushFrame(vm, "call"), vm)
    BY <1>1, <1>2, FramePushed
  <1>4. Room(vm, "call") <=> vm.SP + USER_EXTENT + TEMP_GROWTH <= L0
    BY <1>1, <1>2, FrameSizes, Sizes DEF Room
  <1> QED BY <1>1, <1>2, <1>3, <1>4, FaultRecorded DEF stackCheckFails

\* A fault of the running frame's op, its own or the callee's push.
LEMMA FaultStep ==
  ASSUME IInv, InBody, UNCHANGED heap, NEW v, Faulted(v, vm), ToPad(v, Top, {})
  PROVE  IInv'
  <1>1. /\ vm.abort = "none" /\ vm.CleanupDepth = 0 /\ vm.SP <= L0
        /\ stack # <<>> /\ stack = Append(Below, Top) /\ (~Top.table => Top.slots = Empty)
    BY AtBody
  <1>2. vm \in VMs /\ Top \in Frames /\ Below \in Seq(Frames) /\ Top.table \in BOOLEAN
    BY <1>1, Here
  <1>3. Redone(Top, Top)
    BY <1>2 DEF Redone
  <1>4. Kept(Append(Below, Top), stack, lost \cup {}, lost)
    <2>1. Kept(Append(Below, Top), Append(Below, Top), lost, lost)
      BY <1>2, <1>3, KeptByShape
    <2>2. lost \cup {} = lost
      OBVIOUS
    <2> QED BY <1>1, <2>1, <2>2
  <1>5. /\ v \in VMs /\ v.abort = "none" /\ v.CleanupDepth = 0 /\ v.Poll = vm.Poll
        /\ v.SP = vm.SP /\ v.FaultRaised /\ v.Status = "FAULTED" /\ v.FaultMsg
    BY <1>1 DEF Faulted, Same
  <1>6. v.SP <= L0 /\ (Top.table \/ Top.slots = Empty)
    BY <1>1, <1>2, <1>5
  <1> QED BY <1>3, <1>4, <1>5, <1>6, ToPadStep

\* The callee's frame is pushed.
LEMMA CallStep ==
  ASSUME IInv, InBody, UNCHANGED <<heap, raised, lost>>, NEW m \in {0} \cup Held,
         Room(vm, "call"), vm' = pushFrame(vm, "call"),
         stack' = Append(Append(Below, Moved(m)), Callee(m))
  PROVE  IInv'
  <1>1. /\ vm.abort = "none" /\ vm.CleanupDepth = 0 /\ vm.SP <= L0 /\ stack # <<>>
        /\ stack = Append(Below, Top) /\ Reported(vm, raised)
    BY AtBody
  <1>2. /\ vm \in VMs /\ vm.SP \in Nat /\ Top \in Frames /\ Below \in Seq(Frames)
        /\ Top.slots \in [Slots -> Refs]
    BY <1>1, Here
  <1>3. /\ Redone(Moved(m), Top) /\ Moved(m).mode = "body"
        /\ Top.table \/ (m = 0 /\ Moved(m).slots = Empty)
        /\ m = 0 => Moved(m) = Top
        /\ m # 0 => /\ m \in Slots /\ Top.slots[m] \in Blocks
                    /\ Sets(Moved(m).slots, Top.slots, m, Nil)
    BY Moving
  <1> DEFINE g == Moved(m)
             f == Callee(m)
             s == Append(Below, g)
  <1>4. /\ g \in Frames /\ s \in Seq(Frames) /\ Built(s) /\ ~Small(g) /\ User(g)
        /\ Depth(s) = 0 /\ InBodies(s) /\ s # <<>> /\ Last(s) = g
    <2>1. Top.table \/ (g.slots = Empty /\ g.mode # "pad")
      BY <1>3
    <2>2. Redone(g, Top) /\ g.mode = "body"
      BY <1>3
    <2> HIDE DEF g
    <2> QED BY <2>1, <2>2, BodyChanged
  <1>5. /\ f \in Frames /\ f.kind = "call" /\ f.mode = "body" /\ f.table /\ f.base = vm.SP
        /\ f.slots = (IF m = 0 THEN Empty ELSE Only(Top.slots[m])) /\ f.freeOnPop = Nil
    <2> DEFINE sl == IF m = 0 THEN Empty ELSE Only(Top.slots[m])
    <2>1. sl \in [Slots -> Refs]
      BY <1>3, EmptyHolds, OnlyHolds, RefsAre
    <2>2. f = Frame("call", "body", TRUE, sl, vm.SP, Nil)
      BY DEF Callee
    <2> HIDE DEF sl, f
    <2>3. /\ f \in Frames /\ f.kind = "call" /\ f.mode = "body" /\ f.table = TRUE /\ f.base = vm.SP
          /\ f.slots = sl /\ f.freeOnPop = Nil
      BY <1>2, <2>1, <2>2, RefsAre DEF Frame, Frames
    <2> QED BY <2>3 DEF sl, f
  <1>6. vm.SP + USER_EXTENT + TEMP_GROWTH <= L0 /\ Advanced(vm', vm, "call")
    BY CallRoom
  <1>7. stack' = Append(s, f)
    OBVIOUS
  <1> HIDE DEF s, f, g
  <1>8. OnTop(s, f)
    <2>1. FrameOk(f)
      BY <1>5, <1>6 DEF FrameOk, Small, User
    <2>2. Over(Last(s), f)
      BY <1>1, <1>4, <1>5 DEF Over
    <2> QED BY <1>4, <1>5, <2>1, <2>2 DEF OnTop, Small
  <1>9. stack' \in Seq(Frames) /\ stack' # <<>> /\ Last(stack') = f
    BY <1>4, <1>5, <1>7, Appended
  <1>10. Built(stack')
    BY <1>4, <1>5, <1>7, <1>8, BuiltAppended
  <1>11. Depth(stack') = 0
    <2>1. ~Ctx(f)
      BY <1>5 DEF Ctx
    <2> QED BY <1>4, <1>5, <1>7, <2>1, DepthAppended
  <1>12. /\ vm' \in VMs /\ vm'.CleanupDepth = 0 /\ vm'.abort = "none" /\ ~vm'.FaultRaised
         /\ vm'.SP = vm.SP + USER_EXTENT /\ Reported(vm', raised)
    BY <1>1, <1>6, FrameSizes DEF Advanced, Same, Reported
  <1>13. Fits(vm', stack')
    BY <1>2, <1>5, <1>6, <1>9, <1>12, Sizes DEF Fits, Small
  <1>14. Kept(stack', stack, lost, lost)
    <2>1. CASE m = 0
      <3>1. g = Top /\ f.slots = Empty
        BY <1>3, <1>5, <2>1 DEF g
      <3>2. s = stack
        BY <1>1, <3>1 DEF s
      <3>3. \A b \in Blocks : Holding(f.slots, b) = 0
        BY <3>1, EmptyHolds
      <3> QED BY <1>4, <1>5, <1>7, <3>2, <3>3, KeptByShape
    <2>2. CASE m # 0
      <3>1. m \in Slots /\ Sets(g.slots, Top.slots, m, Nil) /\ Redone(g, Top)
        BY <1>3, <2>2 DEF g
      <3>2. f.slots = Only(Top.slots[m])
        BY <1>5, <2>2
      <3>3. Kept(Append(Append(Below, g), f), Append(Below, Top), lost, lost)
        BY <1>2, <1>4, <1>5, <3>1, <3>2, KeptByMove
      <3> QED BY <1>1, <1>7, <3>3 DEF s
    <2> QED BY <2>1, <2>2
  <1>15. raised' \in BOOLEAN /\ lost' \in SUBSET Blocks /\ raised' = raised /\ lost' = lost
    BY DEF IInv, TypeOK
  <1>16. Kept(stack', stack, lost', lost) /\ Reported(vm', raised') /\ UNCHANGED heap
    BY <1>12, <1>14, <1>15
  <1>17. vm'.CleanupDepth = Depth(stack')
    BY <1>11, <1>12
  <1> HIDE DEF s, f, g
  <1> QED BY <1>1, <1>9, <1>10, <1>12, <1>13, <1>15, <1>16, <1>17, Arrives

\* BC_CALL pushes the callee, which takes what was moved, or faults.
LEMMA DirectCallStep ==
  ASSUME IInv, DirectCall
  PROVE  IInv'
  <1> DEFINE pushed == pushFrame(vm, "call")
  <1>1. InBody /\ UNCHANGED heap
    BY DEF DirectCall
  <1>2. PICK m \in {0} \cup Held :
          \/ stackCheckFails /\ ToPad(setFault(vm), Top, {})
          \/ ~stackCheckFails /\ Overflowed(pushed) /\ ToPad(pushed, Moved(m), {})
          \/ /\ ~stackCheckFails /\ ~Overflowed(pushed) /\ vm' = pushed
             /\ stack' = Append(Append(Below, Moved(m)), Callee(m))
             /\ UNCHANGED <<raised, lost>>
    BY DEF DirectCall
  <1>3. CASE stackCheckFails /\ ToPad(setFault(vm), Top, {})
    BY <1>1, <1>3, CallRoom, FaultStep
  <1>4. CASE ~stackCheckFails /\ Overflowed(pushed) /\ ToPad(pushed, Moved(m), {})
    <2>1. Faulted(pushed, vm) /\ ~Top.table
      BY <1>1, <1>4, CallRoom
    <2>2. Moved(m) = Top
      BY <1>1, <2>1, Moving
    <2>3. ToPad(pushed, Top, {})
      BY <1>4, <2>2
    <2> QED BY <1>1, <2>1, <2>3, FaultStep
  <1>5. CASE /\ ~stackCheckFails /\ ~Overflowed(pushed) /\ vm' = pushed
             /\ stack' = Append(Append(Below, Moved(m)), Callee(m))
             /\ UNCHANGED <<raised, lost>>
    BY <1>1, <1>5, CallRoom, CallStep
  <1> QED BY <1>2, <1>3, <1>4, <1>5

\* A call through a value pushes the callee, which faults after the arguments moved.
LEMMA ValueCallStep ==
  ASSUME IInv, ValueCall
  PROVE  IInv'
  <1> DEFINE pushed == pushFrame(vm, "call")
             dropped(m) == IF m = 0 \/ Overflowed(pushed) THEN {} ELSE {Top.slots[m]}
  <1>1. InBody /\ Top.table /\ UNCHANGED heap
    BY DEF ValueCall, UserBody
  <1>2. PICK m \in {0} \cup Held :
          \/ stackCheckFails /\ ToPad(setFault(vm), Top, {})
          \/ /\ ~stackCheckFails /\ callFaultPending(pushed)
             /\ ToPad(pushed, Moved(m), dropped(m))
          \/ /\ ~stackCheckFails /\ ~callFaultPending(pushed) /\ vm' = pushed
             /\ stack' = Append(Append(Below, Moved(m)), Callee(m))
             /\ UNCHANGED <<raised, lost>>
    BY DEF ValueCall
  <1>3. CASE stackCheckFails /\ ToPad(setFault(vm), Top, {})
    BY <1>1, <1>3, CallRoom, FaultStep
  <1>4. CASE /\ ~stackCheckFails /\ callFaultPending(pushed)
             /\ ToPad(pushed, Moved(m), dropped(m))
    <2>1. /\ Room(vm, "call") /\ ~Overflowed(pushed) /\ Advanced(pushed, vm, "call")
          /\ vm.SP + USER_EXTENT + TEMP_GROWTH <= L0
      BY <1>1, <1>4, CallRoom
    <2>2. /\ stack # <<>> /\ vm.abort = "none" /\ vm.CleanupDepth = 0 /\ Reported(vm, raised)
          /\ stack = Append(Below, Top)
      BY <1>1, AtBody
    <2>3. /\ vm.SP \in Nat /\ vm \in VMs /\ Top \in Frames /\ Below \in Seq(Frames)
      BY <2>2, Here
    <2> HIDE DEF pushed
    <2>4. /\ pushed \in VMs /\ pushed.abort = "none" /\ pushed.CleanupDepth = 0
          /\ pushed.Poll = vm.Poll /\ pushed.SP = vm.SP + USER_EXTENT /\ ~pushed.FaultRaised
          /\ Reported(pushed, raised)
      BY <2>1, <2>2, FrameSizes DEF Advanced, Same, Reported
    <2>5. pushed.SP <= L0
      BY <2>1, <2>3, <2>4, Sizes
    <2>6. /\ Redone(Moved(m), Top)
          /\ m = 0 => Moved(m) = Top
          /\ m # 0 => /\ m \in Slots /\ Top.slots[m] \in Blocks
                      /\ Sets(Moved(m).slots, Top.slots, m, Nil)
      BY <1>1, Moving
    <2>7. dropped(m) \in SUBSET Blocks
      BY <2>6
    <2>8. Kept(Append(Below, Moved(m)), stack, lost \cup dropped(m), lost)
      <3>1. CASE m = 0
        <4>1. lost \cup dropped(m) = lost /\ Append(Below, Moved(m)) = Append(Below, Top)
          BY <2>6, <3>1
        <4>2. Kept(Append(Below, Top), Append(Below, Top), lost, lost)
          BY <2>3, <2>6, <3>1, KeptByShape
        <4> QED BY <2>2, <4>1, <4>2
      <3>2. CASE m # 0
        <4>1. dropped(m) = {Top.slots[m]} /\ Moved(m) \in Frames
          BY <2>1, <2>6, <3>2 DEF Redone
        <4>2. Kept(Append(Below, Moved(m)), Append(Below, Top), lost \cup {Top.slots[m]}, lost)
          BY <2>3, <2>6, <3>2, <4>1, KeptByMove
        <4> QED BY <2>2, <4>1, <4>2
      <3> QED BY <3>1, <3>2
    <2> HIDE DEF dropped
    <2> QED BY <1>1, <1>4, <2>4, <2>5, <2>6, <2>7, <2>8, ToPadStep
  <1>5. CASE /\ ~stackCheckFails /\ ~callFaultPending(pushed) /\ vm' = pushed
             /\ stack' = Append(Append(Below, Moved(m)), Callee(m))
             /\ UNCHANGED <<raised, lost>>
    <2>1. Room(vm, "call")
      <3>1. ~Room(vm, "call") => Top.table /\ stackCheckFails
        BY <1>1, CallRoom
      <3> QED BY <1>5, <3>1
    <2> QED BY <1>1, <1>5, <2>1, CallStep
  <1> QED BY <1>2, <1>3, <1>4, <1>5

\* A frame that reached its return begins to release its slots.
LEMMA BeginExitStep ==
  ASSUME IInv, BeginExit
  PROVE  IInv'
  <1> DEFINE new == [Top EXCEPT !.mode = "exit"]
  <1>1. InBody /\ stack' = Append(Below, new) /\ UNCHANGED <<vm, heap, raised, lost>>
    BY DEF BeginExit
  <1>2. /\ stack # <<>> /\ vm.abort = "none" /\ ~Small(Top) /\ stack = Append(Below, Top)
        /\ (~Top.table => Top.slots = Empty) /\ vm.CleanupDepth = 0 /\ vm.SP <= L0
        /\ ~vm.FaultRaised /\ Reported(vm, raised)
    BY <1>1, AtBody
  <1>3. /\ Top \in Frames /\ Below \in Seq(Frames) /\ vm \in VMs /\ Sound
    BY <1>2, Here
  <1>4. Redone(new, Top) /\ new.slots = Top.slots /\ new.mode = "exit"
    BY <1>3, FrameChanged DEF Remoded
  <1> HIDE DEF new
  <1>5. /\ stack' \in Seq(Frames) /\ Built(stack') /\ ~Small(new) /\ Depth(stack') = 0
        /\ stack' # <<>> /\ Last(stack') = new
    BY <1>1, <1>2, <1>4, BodyChanged
  <1>6. Fits(vm, stack')
    BY <1>2, <1>5 DEF Fits
  <1>7. Kept(stack', stack, lost, lost)
    BY <1>1, <1>2, <1>3, <1>4, KeptByShape DEF Redone
  <1>8. /\ vm' = vm /\ raised' = raised /\ lost' = lost /\ UNCHANGED heap
        /\ raised \in BOOLEAN /\ lost \in SUBSET Blocks
    BY <1>1 DEF IInv, TypeOK
  <1>9. /\ vm' \in VMs /\ raised' \in BOOLEAN /\ lost' \in SUBSET Blocks /\ vm'.abort = "none"
        /\ ~vm'.FaultRaised /\ vm'.CleanupDepth = Depth(stack') /\ Fits(vm', stack')
        /\ Kept(stack', stack, lost', lost) /\ Reported(vm', raised')
    BY <1>2, <1>3, <1>5, <1>6, <1>7, <1>8
  <1> QED BY <1>2, <1>5, <1>8, <1>9, Arrives

\* A call of compiled code pushes the frame of a native one.
LEMMA CallNativeStep ==
  ASSUME IInv, CallNative
  PROVE  IInv'
  <1> DEFINE f == Frame("native", "body", FALSE, Empty, vm.SP, Nil)
  <1>1. /\ InBody /\ Top.table /\ stack' = Append(stack, f)
        /\ UNCHANGED <<vm, heap, raised, lost>>
    BY DEF CallNative, UserBody
  <1>2. /\ stack # <<>> /\ vm.abort = "none" /\ ~Small(Top) /\ User(Top) /\ Top.mode = "body"
        /\ stack = Append(Below, Top) /\ vm.CleanupDepth = 0 /\ vm.SP <= L0
        /\ ~vm.FaultRaised /\ Reported(vm, raised) /\ Depth(Below) = 0 /\ InBodies(Below)
        /\ ~Ctx(Top)
    BY <1>1, AtBody
  <1>3. /\ Top \in Frames /\ Below \in Seq(Frames) /\ vm \in VMs /\ vm.SP \in Nat /\ Sound
    BY <1>2, Here
  <1>4. stack \in Seq(Frames) /\ raised \in BOOLEAN /\ lost \in SUBSET Blocks
    BY DEF IInv, TypeOK
  <1>5. /\ f \in Frames /\ f.kind = "native" /\ f.mode = "body" /\ f.table = FALSE
        /\ f.slots = Empty /\ f.base = vm.SP /\ f.freeOnPop = Nil
    BY <1>3, EmptyHolds, RefsAre DEF Frame, Frames
  <1> HIDE DEF f
  <1>6. Last(stack) = Top /\ InBodies(stack) /\ Depth(stack) = 0 /\ Built(stack)
    BY <1>2, <1>3, BodiesAppended, DepthAppended DEF Last, Top, Sound
  <1>7. OnTop(stack, f)
    <2>1. FrameOk(f)
      BY <1>5 DEF FrameOk, Small, User
    <2>2. Over(Last(stack), f)
      BY <1>1, <1>2, <1>5, <1>6 DEF Over
    <2> QED BY <1>2, <1>5, <1>6, <2>1, <2>2 DEF OnTop, Small
  <1>8. stack' \in Seq(Frames) /\ stack' # <<>> /\ Last(stack') = f
    BY <1>1, <1>4, <1>5, Appended
  <1>9. Built(stack')
    BY <1>1, <1>4, <1>5, <1>6, <1>7, BuiltAppended
  <1>10. Depth(stack') = 0
    <2>1. ~Ctx(f)
      BY <1>5 DEF Ctx
    <2> QED BY <1>1, <1>4, <1>5, <1>6, <2>1, DepthAppended
  <1>11. Fits(vm, stack')
    BY <1>2, <1>5, <1>8 DEF Fits, Small
  <1>12. Kept(stack', stack, lost, lost)
    <2>1. \A b \in Blocks : Holding(f.slots, b) = 0
      BY <1>5, EmptyHolds
    <2> QED BY <1>1, <1>4, <1>5, <2>1, KeptByShape
  <1>13. vm' = vm /\ raised' = raised /\ lost' = lost /\ UNCHANGED heap
    BY <1>1
  <1>14. /\ vm' \in VMs /\ raised' \in BOOLEAN /\ lost' \in SUBSET Blocks /\ vm'.abort = "none"
         /\ ~vm'.FaultRaised /\ vm'.CleanupDepth = Depth(stack') /\ Fits(vm', stack')
         /\ Kept(stack', stack, lost', lost) /\ Reported(vm', raised')
    BY <1>2, <1>3, <1>4, <1>10, <1>11, <1>12, <1>13
  <1> QED BY <1>2, <1>8, <1>9, <1>13, <1>14, Arrives

\* execFunc on a stack whose frames are all in their bodies.
LEMMA Enters ==
  ASSUME IInv, vm.abort = "none", UNCHANGED <<heap, lost>>,
         NEW v \in VMs, v.abort = "none", ~v.FaultRaised, v.CleanupDepth = 0, v.SP <= L0,
         NEW below \in Seq(Frames), Built(below), InBodies(below), Fits(v, below),
         below = <<>> \/ Last(below).kind = "native", Kept(below, stack, lost, lost),
         NEW table \in BOOLEAN, NEW history \in BOOLEAN, Reported(v, history),
         execFunc(v, below, table, history)
  PROVE  IInv'
  <1> DEFINE pushed == pushFrame(v, "entry")
             f == EntryFrame(v, table)
  <1>1. /\ frameExtent("entry") = USER_EXTENT
        /\ Overflowed(pushed) <=> ~Room(v, "entry")
        /\ Room(v, "entry") => Advanced(pushed, v, "entry")
        /\ ~Room(v, "entry") => Faulted(pushed, v)
    BY FramePushed, FrameSizes
  <1>2. Room(v, "entry") <=> v.SP + USER_EXTENT + TEMP_GROWTH <= L0
    BY FrameSizes, Sizes DEF Room, VMs
  <1>3. Depth(below) = 0
    BY BodiesAreQuiet
  <1>4. lost' = lost /\ lost \in SUBSET Blocks /\ UNCHANGED heap
    BY DEF IInv, TypeOK
  <1>5. CASE Overflowed(pushed)
    <2>1. /\ vm' = [pushed EXCEPT !.FaultRaised = FALSE] /\ stack' = below
          /\ raised' = (history \/ pushed.FaultRaised)
      BY <1>5 DEF execFunc
    <2>2. Faulted(pushed, v)
      BY <1>1, <1>5
    <2> HIDE DEF pushed
    <2>3. /\ pushed \in VMs /\ pushed.CleanupDepth = 0 /\ pushed.SP = v.SP
          /\ pushed.Status = "FAULTED" /\ pushed.FaultMsg /\ pushed.FaultRaised
          /\ pushed.abort = "none"
      BY <2>2 DEF Faulted, Same
    <2>4. /\ vm' \in VMs /\ vm'.CleanupDepth = 0 /\ vm'.SP = v.SP /\ ~vm'.FaultRaised
          /\ vm'.Status = "FAULTED" /\ vm'.FaultMsg /\ vm'.abort = "none"
      <3>1. vm' \in VMs
        BY <2>1, <2>3 DEF VMs
      <3> QED BY <2>1, <2>3, <3>1 DEF VMs
    <2>5. raised' /\ raised' \in BOOLEAN
      BY <2>1, <2>3 DEF VMs
    <2>6. Reported(vm', raised')
      BY <2>4, <2>5 DEF Reported
    <2>7. /\ stack' \in Seq(Frames) /\ Built(stack') /\ vm'.CleanupDepth = Depth(stack')
          /\ Fits(vm', stack') /\ Kept(stack', stack, lost', lost)
      BY <1>3, <1>4, <2>1, <2>4 DEF Fits
    <2> QED BY <1>4, <2>4, <2>5, <2>6, <2>7, Arrives
  <1>6. CASE ~Overflowed(pushed)
    <2>1. vm' = pushed /\ stack' = Append(below, f) /\ raised' = history
      BY <1>6 DEF execFunc
    <2>2. /\ Advanced(pushed, v, "entry") /\ v.SP + USER_EXTENT + TEMP_GROWTH <= L0
      BY <1>1, <1>2, <1>6
    <2>3. /\ f \in Frames /\ f.kind = "entry" /\ f.mode = "body"
          /\ f.slots = Empty /\ f.base = v.SP /\ f.freeOnPop = Nil
      BY EmptyHolds, RefsAre DEF EntryFrame, Frame, Frames, VMs
    <2> HIDE DEF pushed, f
    <2>4. /\ vm' \in VMs /\ vm'.CleanupDepth = 0 /\ vm'.SP = v.SP + USER_EXTENT
          /\ vm'.abort = "none" /\ ~vm'.FaultRaised /\ Reported(vm', raised')
      BY <1>1, <2>1, <2>2 DEF Advanced, Same, Reported
    <2>5. OnTop(below, f)
      <3>1. FrameOk(f)
        BY <2>2, <2>3 DEF FrameOk, Small, User
      <3>2. below = <<>> => f.base = 0
        BY <2>3 DEF Fits
      <3>3. below # <<>> => Over(Last(below), f)
        BY <2>3 DEF Over, Small
      <3> QED BY <2>3, <3>1, <3>2, <3>3 DEF OnTop, Small
    <2>6. stack' \in Seq(Frames) /\ stack' # <<>> /\ Last(stack') = f
      BY <2>1, <2>3, Appended
    <2>7. Built(stack')
      BY <2>1, <2>3, <2>5, BuiltAppended
    <2>8. Depth(stack') = 0
      <3>1. ~Ctx(f)
        BY <2>3 DEF Ctx
      <3> QED BY <1>3, <2>1, <2>3, <3>1, DepthAppended
    <2>9. Fits(vm', stack')
      <3>1. v.SP \in Nat
        BY DEF VMs
      <3> QED BY <2>2, <2>3, <2>4, <2>6, <3>1, Sizes DEF Fits, Small
    <2>10. Kept(stack', stack, lost, lost)
      <3>1. \A b \in Blocks : Holding(f.slots, b) = 0
        BY <2>3, EmptyHolds
      <3>2. Kept(stack', below, lost, lost)
        BY <2>1, <2>3, <3>1, KeptByShape
      <3>3. stack \in Seq(Frames)
        BY DEF IInv, TypeOK
      <3> QED BY <2>6, <3>2, <3>3, KeptTwice
    <2>11. Kept(stack', stack, lost', lost) /\ vm'.CleanupDepth = Depth(stack') /\ raised' \in BOOLEAN
      BY <1>4, <2>1, <2>4, <2>8, <2>10
    <2> QED BY <1>4, <2>4, <2>6, <2>7, <2>9, <2>11, Arrives
  <1> QED BY <1>5, <1>6

\* The host calls a function on the empty stack.
LEMMA HostCallStep ==
  ASSUME IInv, HostCall
  PROVE  IInv'
  <1> DEFINE v == resetStatus(vm)
  <1>1. stack = <<>> /\ vm.abort = "none" /\ UNCHANGED <<heap, lost>>
    BY DEF HostCall, heap
  <1>2. PICK table \in BOOLEAN : execFunc(v, <<>>, table, FALSE)
    BY DEF HostCall
  <1>3. vm \in VMs /\ Sound /\ lost \in SUBSET Blocks
    BY <1>1 DEF IInv, TypeOK
  <1>4. vm.SP = 0
    BY <1>1, <1>3 DEF Sound, Fits
  <1>5. v \in VMs /\ v.SP = 0 /\ v.abort = "none" /\ ~v.FaultRaised /\ v.CleanupDepth = 0
        /\ v.Status = "CONTINUE" /\ ~v.FaultMsg
    <2>1. v \in VMs
      BY <1>3 DEF VMs, resetStatus
    <2> QED BY <1>1, <1>3, <1>4, <2>1 DEF VMs, resetStatus
  <1> HIDE DEF v
  <1>6. <<>> \in Seq(Frames) /\ Built(<<>>) /\ InBodies(<<>>) /\ v.SP <= L0
    BY <1>5, BuiltAppended, BodiesAppended, Sizes
  <1>7. Fits(v, <<>>) /\ Reported(v, FALSE)
    BY <1>5 DEF Fits, Reported
  <1>8. Kept(<<>>, stack, lost, lost)
    <2>1. \A b \in Blocks : SlotCount(<<>>, b) \in Nat
      BY <1>6, SlotsAppended
    <2> QED BY <1>1, <2>1 DEF Kept
  <1> QED BY <1>1, <1>2, <1>5, <1>6, <1>7, <1>8, Enters

\* Compiled code calls back into the VM on the same stack.
LEMMA CallbackStep ==
  ASSUME IInv, Callback
  PROVE  IInv'
  <1> DEFINE new == [Top EXCEPT !.calls = @ + 1]
             below == Append(Below, new)
  <1>1. /\ Running /\ Top.kind = "native" /\ execFunc(vm, below, TRUE, raised)
        /\ UNCHANGED <<heap, lost>>
    BY DEF Callback
  <1>2. stack # <<>> /\ vm.abort = "none" /\ ~Small(Top)
    BY <1>1 DEF Running, Small
  <1>3. /\ Standing(stack, Below, Top) /\ FrameOk(Top) /\ Top \in Frames /\ Sound /\ vm \in VMs
        /\ vm.SP <= L0 /\ InBodies(Below) /\ Below \in Seq(Frames)
    BY <1>2, Here
  <1>4. Top.mode = "body" /\ Top.slots = Empty
    BY <1>1, <1>3 DEF FrameOk
  <1>5. Redone(new, Top) /\ new.slots = Top.slots /\ new.mode = Top.mode
    <2>1. Top.calls + 1 \in Nat
      BY <1>3 DEF Frames
    <2>2. new \in Frames
      BY <1>3, <2>1 DEF Frames
    <2> QED BY <1>3, <2>2 DEF Redone, Frames
  <1> HIDE DEF new
  <1>6. new \in Frames /\ new.kind = "native" /\ new.mode = "body" /\ new.slots = Empty
    BY <1>1, <1>4, <1>5 DEF Redone
  <1>7. OnTop(Below, new)
    <2>1. OnTop(Below, Top)
      BY <1>3 DEF Standing
    <2> QED BY <1>1, <1>2, <1>3, <1>5, <1>6, <2>1, Retopped
  <1>8. below \in Seq(Frames) /\ Last(below) = new /\ below # <<>>
    BY <1>3, <1>6, Appended
  <1>9. Built(below) /\ InBodies(below)
    <2>1. Built(Below)
      BY <1>3 DEF Standing
    <2> QED BY <1>3, <1>6, <1>7, <2>1, BuiltAppended, BodiesAppended
  <1>10. Kept(below, stack, lost, lost)
    <2>1. stack = Append(Below, Top)
      BY <1>3 DEF Standing
    <2> QED BY <1>3, <1>5, <1>6, <2>1, KeptByShape
  <1> HIDE DEF below
  <1>11. Fits(vm, below)
    BY <1>3, <1>6, <1>8 DEF Fits, Small
  <1>12. /\ ~vm.FaultRaised /\ Reported(vm, raised) /\ raised \in BOOLEAN /\ vm.CleanupDepth = 0
    <2>1. ~Ctx(Top) /\ vm.CleanupDepth = IF Ctx(Top) THEN Depth(Below) + 1 ELSE Depth(Below)
      BY <1>1, <1>2, <1>4, Here DEF Ctx
    <2>2. Depth(Below) = 0
      BY <1>2, Here
    <2> QED BY <1>3, <2>1, <2>2 DEF Sound, IInv, TypeOK
  <1>13. Last(below).kind = "native" /\ TRUE \in BOOLEAN
    BY <1>6, <1>8
  <1>14. PICK table \in BOOLEAN : execFunc(vm, below, table, raised)
    BY <1>1
  <1> QED BY <1>1, <1>2, <1>3, <1>8, <1>9, <1>10, <1>11, <1>12, <1>13, <1>14, Enters

\* What a popped frame leaves.
LEMMA Popped ==
  ASSUME NEW s \in Seq(Frames), NEW f \in Frames, OnTop(s, f), NEW v, v.SP = f.base
  PROVE  Fits(v, s)
  BY DEF OnTop, Over, Fits

\* A frame with no held slot counts for no block.
LEMMA NothingHeld ==
  ASSUME NEW f \in Frames, \A x \in Slots : f.slots[x] = Nil
  PROVE  \A b \in Blocks : Holding(f.slots, b) = 0
  <1>1. f.slots \in [Slots -> Refs]
    BY DEF Frames
  <1> QED BY <1>1, HeldCounts

\* A frame with nothing left to release is popped, and its block freed.
LEMMA ReturnStep ==
  ASSUME IInv, Return
  PROVE  IInv'
  <1>1. /\ Running /\ Top.mode = "exit" /\ Held = {} /\ stack' = Below
        /\ vm' = [vm EXCEPT !.SP = Top.base,
                            !.CleanupDepth = IF Top.freeOnPop = Nil THEN @ ELSE @ - 1]
        /\ live' = live \ {Top.freeOnPop} /\ UNCHANGED <<rc, field, raised, lost>>
    BY DEF Return
  <1>2. stack # <<>> /\ vm.abort = "none"
    BY <1>1 DEF Running
  <1>3. /\ Standing(stack, Below, Top) /\ FrameOk(Top) /\ Top \in Frames /\ Sound /\ vm \in VMs
        /\ Below \in Seq(Frames) /\ Top.base \in Nat /\ vm.CleanupDepth \in Nat
        /\ vm.CleanupDepth = IF Ctx(Top) THEN Depth(Below) + 1 ELSE Depth(Below)
    BY <1>2, Here
  <1>4. /\ stack = Append(Below, Top) /\ OnTop(Below, Top) /\ Built(Below) /\ Depth(Below) \in Nat
    BY <1>3 DEF Standing
  <1>5. Ctx(Top) <=> Top.freeOnPop # Nil
    BY <1>1, <1>3 DEF FrameOk, Ctx
  <1>6. /\ rc \in [Blocks -> Nat] /\ field \in [Blocks -> Refs] /\ live \in SUBSET Blocks
        /\ raised \in BOOLEAN /\ lost \in SUBSET Blocks /\ stack \in Seq(Frames)
    BY DEF IInv, TypeOK
  <1> DEFINE d == IF Top.freeOnPop = Nil THEN vm.CleanupDepth ELSE vm.CleanupDepth - 1
  <1>7. d = Depth(Below) /\ d \in Nat
    BY <1>3, <1>4, <1>5
  <1> HIDE DEF d
  <1>8. /\ vm' \in VMs /\ vm'.SP = Top.base /\ vm'.CleanupDepth = Depth(Below)
        /\ vm'.abort = "none" /\ ~vm'.FaultRaised /\ Reported(vm', raised)
    <2>1. vm' = [vm EXCEPT !.SP = Top.base, !.CleanupDepth = d]
      BY <1>1 DEF d
    <2>2. vm' \in VMs
      BY <1>3, <1>7, <2>1 DEF VMs
    <2> QED BY <1>2, <1>3, <1>7, <2>1, <2>2 DEF VMs, Sound, Reported
  <1>9. Fits(vm', Below)
    BY <1>3, <1>4, <1>8, Popped
  <1>10. \A b \in Blocks : Holding(Top.slots, b) = 0
    <2>1. \A x \in Slots : Top.slots[x] = Nil
      BY <1>1 DEF Held
    <2> QED BY <1>3, <2>1, NothingHeld
  <1>11. \A b \in Blocks : SlotCount(Below, b) = SlotCount(stack, b)
    <2>1. \A b \in Blocks : SlotCount(Below, b) \in Nat
      BY <1>3, SlotsAppended
    <2> QED BY <1>3, <1>4, <1>10, <2>1, SlotsAppended
  <1>12. CASE Top.freeOnPop = Nil
    <2>1. live' = live /\ UNCHANGED heap /\ raised' = raised /\ lost' = lost
      BY <1>1, <1>6, <1>12, RefsAre DEF heap
    <2>2. Kept(Below, stack, lost, lost)
      BY <1>3, <1>4, <1>10, <1>12, KeptByShape
    <2>3. /\ stack' \in Seq(Frames) /\ raised' \in BOOLEAN /\ lost' \in SUBSET Blocks
          /\ Built(stack') /\ vm'.CleanupDepth = Depth(stack') /\ Fits(vm', stack')
          /\ Kept(stack', stack, lost', lost) /\ Reported(vm', raised')
      BY <1>1, <1>3, <1>4, <1>6, <1>8, <1>9, <2>1, <2>2
    <2> QED BY <1>2, <1>8, <2>1, <2>3, Arrives
  <1>13. CASE Top.freeOnPop # Nil
    <2> DEFINE b == Top.freeOnPop
    <2>1. b \in Blocks
      BY <1>3, <1>13 DEF Frames, Refs
    <2>2. b \notin Dying(Below)
      BY <1>3, <1>4, <1>13 DEF OnTop, FrameOk
    <2>3. Dying(stack) = Dying(Below) \cup {b}
      BY <1>3, <1>4, <1>13, DyingAppended
    <2>4. b \in live /\ rc[b] = 0 /\ field[b] = Nil
      BY <1>3, <2>3 DEF Sound, Doomed
    <2>5. live' = live \ {b} /\ rc' = rc /\ field' = field /\ raised' = raised /\ lost' = lost
      BY <1>1
    <2> HIDE DEF b
    <2>6. live' \in SUBSET Blocks
      BY <1>6, <2>5
    <2>7. TypeOK'
      BY <1>1, <1>3, <1>6, <1>8, <2>5, <2>6 DEF TypeOK
    <2>8. \A x \in Blocks : FieldCount(field, live', x) = FieldCount(field, live, x)
      <3>1. \A lv2 : (field[b] = Nil /\ lv2 = live \ {b}) =>
               \A x \in Blocks : FieldCount(field, lv2, x) = FieldCount(field, live, x)
        BY <1>6, <2>1, FieldsChanged
      <3> QED BY <2>4, <2>5, <3>1
    <2>9. Exact(Below, rc, field, live', lost)
      <3>1. ASSUME NEW x \in Blocks
            PROVE  LET count == IF x \in live' THEN rc[x] ELSE 0
                   IN /\ SlotCount(Below, x) + FieldCount(field, live', x) <= count
                      /\ x \notin lost => SlotCount(Below, x) + FieldCount(field, live', x) = count
        <4>1. (IF x \in live' THEN rc[x] ELSE 0) = (IF x \in live THEN rc[x] ELSE 0)
          BY <2>4, <2>5
        <4>2. LET count == IF x \in live THEN rc[x] ELSE 0
              IN /\ SlotCount(stack, x) + FieldCount(field, live, x) <= count
                 /\ x \notin lost => SlotCount(stack, x) + FieldCount(field, live, x) = count
          BY <1>3 DEF Sound, Exact
        <4> QED BY <1>11, <2>8, <4>1, <4>2
      <3> QED BY <3>1 DEF Exact
    <2>10. Doomed(Below, rc, field, live')
      BY <1>3, <2>2, <2>3, <2>5 DEF Sound, Doomed
    <2>11. Acyclic(field, live')
      BY <1>3, <2>5 DEF Sound, Acyclic
    <2>12. Sound'
      BY <1>1, <1>4, <1>8, <1>9, <2>5, <2>9, <2>10, <2>11 DEF Sound
    <2>13. InBounds(vm')
      BY <1>3, <1>4, <1>8, <1>9, Within
    <2>14. RedZoneSuffices'
      BY <1>8 DEF RedZoneSuffices
    <2> QED BY <2>7, <2>12, <2>13, <2>14 DEF IInv
  <1> QED BY <1>12, <1>13

\* Compiled code returns, with the fault of its callbacks or without.
LEMMA NativeReturnStep ==
  ASSUME IInv, NativeReturn
  PROVE  IInv'
  <1> DEFINE below == SubSeq(stack, 1, Len(stack) - 2)
             caller == stack[Len(stack) - 1]
  <1>1. /\ Running /\ Top.kind = "native"
        /\ IF callFaultPending(vm)
           THEN /\ vm' = consumeFaultToPad(vm, caller.table)
                /\ stack' = Append(below, [caller EXCEPT !.mode = "pad"])
           ELSE UNCHANGED vm /\ stack' = Below
        /\ UNCHANGED <<heap, raised, lost>>
    BY DEF NativeReturn
  <1>2. stack # <<>> /\ vm.abort = "none" /\ ~Small(Top)
    BY <1>1 DEF Running, Small
  <1>3. /\ Standing(stack, Below, Top) /\ FrameOk(Top) /\ Top \in Frames /\ Sound /\ vm \in VMs
        /\ vm.SP <= L0 /\ InBodies(Below) /\ Depth(Below) = 0 /\ Below \in Seq(Frames)
        /\ vm.CleanupDepth = IF Ctx(Top) THEN Depth(Below) + 1 ELSE Depth(Below)
    BY <1>2, Here
  <1>4. Top.mode = "body" /\ Top.slots = Empty /\ Top.freeOnPop = Nil /\ ~Ctx(Top)
    BY <1>1, <1>3 DEF FrameOk, Ctx
  <1>5. /\ stack = Append(Below, Top) /\ OnTop(Below, Top) /\ Built(Below)
        /\ Len(Below) = Len(stack) - 1 /\ Len(stack) \in Nat
    BY <1>3 DEF Standing
  <1>6. Below # <<>> /\ User(Last(Below)) /\ Last(Below).table
    BY <1>1, <1>5 DEF OnTop, Over
  <1>7. Standing(Below, SubSeq(Below, 1, Len(Below) - 1), Last(Below))
    BY <1>3, <1>5, <1>6, Stands
  <1>8. caller = Last(Below) /\ below = SubSeq(Below, 1, Len(Below) - 1)
    <2>1. Len(Below) \in 1 .. Len(Below)
      BY <1>7 DEF Standing
    <2>2. /\ stack[Len(Below)] = Below[Len(Below)]
          /\ SubSeq(stack, 1, Len(Below) - 1) = SubSeq(Below, 1, Len(Below) - 1)
      BY <1>3, <1>5, <2>1, Appended
    <2>3. Len(stack) - 1 = Len(Below) /\ Len(stack) - 2 = Len(Below) - 1
      BY <1>5
    <2> QED BY <2>2, <2>3 DEF Last
  <1>9. Standing(Below, below, caller)
    BY <1>7, <1>8
  <1>10. User(caller) /\ caller.table /\ caller = Last(Below)
    BY <1>6, <1>8
  <1> HIDE DEF below, caller
  <1>11. /\ below \in Seq(Frames) /\ caller \in Frames /\ Below = Append(below, caller)
         /\ Built(below) /\ OnTop(below, caller) /\ Depth(below) \in Nat
         /\ Depth(Below) = IF Ctx(caller) THEN Depth(below) + 1 ELSE Depth(below)
    BY <1>9 DEF Standing
  <1>12. Depth(below) = 0
    BY <1>3, <1>11
  <1>13. Kept(Below, stack, lost, lost)
    <2>1. \A b \in Blocks : Holding(Top.slots, b) = 0
      BY <1>4, EmptyHolds
    <2> QED BY <1>3, <1>4, <1>5, <2>1, KeptByShape
  <1>14. /\ raised' = raised /\ lost' = lost /\ UNCHANGED heap /\ stack \in Seq(Frames)
         /\ raised \in BOOLEAN /\ lost \in SUBSET Blocks
    BY <1>1 DEF IInv, TypeOK
  <1>15. /\ ~vm.FaultRaised /\ Reported(vm, raised) /\ vm.CleanupDepth = 0
    BY <1>3, <1>4 DEF Sound
  <1>16. ~Small(caller)
    BY <1>10 DEF User, Small
  <1>17. CASE ~callFaultPending(vm)
    <2>1. vm' = vm /\ stack' = Below
      BY <1>1, <1>17
    <2>2. Fits(vm, Below)
      BY <1>3, <1>6, <1>10, <1>16 DEF Fits
    <2>3. /\ vm' \in VMs /\ stack' \in Seq(Frames) /\ raised' \in BOOLEAN /\ lost' \in SUBSET Blocks
          /\ vm'.abort = "none" /\ ~vm'.FaultRaised
          /\ Built(stack') /\ vm'.CleanupDepth = Depth(stack') /\ Fits(vm', stack')
          /\ Kept(stack', stack, lost', lost) /\ Reported(vm', raised')
      BY <1>2, <1>3, <1>5, <1>13, <1>14, <1>15, <2>1, <2>2
    <2> QED BY <1>2, <1>14, <2>3, Arrives
  <1>18. CASE callFaultPending(vm)
    <2> DEFINE new == [caller EXCEPT !.mode = "pad"]
    <2>1. vm' = consumeFaultToPad(vm, caller.table) /\ stack' = Append(below, new)
      BY <1>1, <1>18
    <2>2. Redone(new, caller) /\ new.slots = caller.slots /\ new.mode = "pad"
      BY <1>11, FrameChanged DEF Remoded
    <2> HIDE DEF new
    <2>3. /\ vm' \in VMs /\ vm'.CleanupDepth = 1 /\ vm'.SP = vm.SP /\ vm'.abort = "none"
          /\ ~vm'.FaultRaised /\ Reported(vm', raised)
      <3>1. caller.table \in BOOLEAN
        BY <1>11 DEF Frames
      <3>2. Consumed(vm', vm, caller.table)
        BY <1>3, <2>1, <3>1, FaultConsumed
      <3> QED BY <1>2, <1>10, <1>15, <3>2 DEF Consumed, Reported
    <2>4. new \in Frames /\ Ctx(new) /\ ~Small(new)
      BY <1>16, <2>2 DEF Redone, Ctx, Small
    <2>5. caller.kind # "native"
      BY <1>10 DEF User
    <2>6. OnTop(below, new)
      BY <1>10, <1>11, <1>16, <2>2, <2>5, Retopped
    <2>7. Built(stack') /\ Depth(stack') = 1
      BY <1>11, <1>12, <2>1, <2>4, <2>6, BuiltAppended, DepthAppended
    <2>8. stack' \in Seq(Frames) /\ stack' # <<>> /\ Last(stack') = new
      BY <1>11, <2>1, <2>4, Appended
    <2>9. Fits(vm', stack')
      BY <1>3, <2>3, <2>4, <2>8 DEF Fits
    <2>10. Kept(stack', stack, lost, lost)
      <3>1. Kept(stack', Below, lost, lost)
        BY <1>11, <2>1, <2>2, <2>4, KeptByShape
      <3> QED BY <1>3, <1>13, <1>14, <2>8, <3>1, KeptTwice
    <2>11. /\ raised' \in BOOLEAN /\ lost' \in SUBSET Blocks /\ vm'.CleanupDepth = Depth(stack')
           /\ Kept(stack', stack, lost', lost) /\ Reported(vm', raised')
      BY <1>14, <2>3, <2>7, <2>10
    <2> QED BY <1>2, <1>14, <2>3, <2>7, <2>8, <2>9, <2>11, Arrives
  <1> QED BY <1>17, <1>18

\* Where an unwind stops, and the frame it finds.
StopsAt(i) == stack[i].kind = "entry" \/ (i < Len(stack) /\ stack[i].table)
To == CHOOSE i \in 1 .. Len(stack) : StopsAt(i) /\ \A k \in i + 1 .. Len(stack) : ~StopsAt(k)

\* The unwind stops at the topmost frame that can stop it.
LEMMA FirstStop ==
  ASSUME Len(stack) \in Nat, NEW n \in 1 .. Len(stack), StopsAt(n),
         \A k \in n + 1 .. Len(stack) : ~StopsAt(k)
  PROVE  To = n
  <1>1. To \in 1 .. Len(stack) /\ StopsAt(To) /\ \A k \in To + 1 .. Len(stack) : ~StopsAt(k)
    BY DEF To
  <1>2. ~(To < n)
    BY <1>1
  <1>3. ~(n < To)
    BY <1>1
  <1> QED BY <1>1, <1>2, <1>3

\* A frame whose pad is done resumes the unwind of what is below it.
LEMMA UnwindReturnStep ==
  ASSUME IInv, UnwindReturn
  PROVE  IInv'
  <1> DEFINE closed == [vm EXCEPT !.CleanupDepth = @ - 1]
  <1>1. /\ Running /\ Top.mode = "pad" /\ Held = {} /\ UNCHANGED <<heap, raised, lost>>
    BY DEF UnwindReturn
  <1>2. IF To < Len(stack) /\ stack[To].table
        THEN /\ vm' = [closed EXCEPT !.SP = stack[To + 1].base, !.CleanupDepth = @ + 1]
             /\ stack' = Append(SubSeq(stack, 1, To - 1), [stack[To] EXCEPT !.mode = "pad"])
        ELSE /\ vm' = [closed EXCEPT !.SP = stack[To].base]
             /\ stack' = SubSeq(stack, 1, To - 1)
    BY DEF UnwindReturn, To, StopsAt
  <1>3. stack # <<>> /\ vm.abort = "none"
    BY <1>1 DEF Running
  <1>4. /\ Standing(stack, Below, Top) /\ FrameOk(Top) /\ Top \in Frames /\ Sound /\ vm \in VMs
        /\ Below \in Seq(Frames) /\ Top.base \in Nat /\ vm.CleanupDepth \in Nat
        /\ vm.CleanupDepth = IF Ctx(Top) THEN Depth(Below) + 1 ELSE Depth(Below)
    BY <1>3, Here
  <1>5. Ctx(Top) /\ User(Top) /\ ~Small(Top) /\ Top.freeOnPop = Nil
    <2>1. ~Small(Top) /\ Top.kind # "native"
      BY <1>1, <1>4 DEF FrameOk
    <2>2. User(Top)
      BY <1>4, <2>1 DEF Frames, User, Small
    <2> QED BY <1>1, <1>4, <2>1, <2>2 DEF Ctx, FrameOk, User
  <1>6. InBodies(Below) /\ Depth(Below) = 0 /\ vm.CleanupDepth = 1
    BY <1>3, <1>4, <1>5, Here
  <1>7. /\ stack = Append(Below, Top) /\ OnTop(Below, Top) /\ Built(Below)
        /\ Len(Below) = Len(stack) - 1 /\ Len(stack) \in Nat /\ Len(stack) > 0
    BY <1>4 DEF Standing
  <1>8. Kept(Below, stack, lost, lost)
    <2>1. \A x \in Slots : Top.slots[x] = Nil
      BY <1>1 DEF Held
    <2>2. \A b \in Blocks : Holding(Top.slots, b) = 0
      BY <1>4, <2>1, NothingHeld
    <2> QED BY <1>4, <1>5, <1>7, <2>2, KeptByShape
  <1>9. /\ raised' = raised /\ lost' = lost /\ UNCHANGED heap /\ stack \in Seq(Frames)
        /\ raised \in BOOLEAN /\ lost \in SUBSET Blocks
    BY <1>1 DEF IInv, TypeOK
  <1>10. stack[Len(stack)] = Top /\ SubSeq(stack, 1, Len(stack) - 1) = Below
    BY DEF Top, Below
  <1>11. /\ ~vm.FaultRaised /\ Reported(vm, raised)
    BY <1>4 DEF Sound
  \* The VM with the pad's context closed and another stack pointer.
  <1>12. ASSUME NEW sp \in Nat, NEW w, w = [closed EXCEPT !.SP = sp]
         PROVE  /\ w \in VMs /\ w.SP = sp /\ w.CleanupDepth = 0 /\ w.abort = "none"
                /\ ~w.FaultRaised /\ Reported(w, raised)
    <2>1. closed \in VMs /\ closed.CleanupDepth = 0
      BY <1>4, <1>6 DEF VMs
    <2>2. /\ closed.abort = vm.abort /\ closed.FaultRaised = vm.FaultRaised /\ closed.Poll = vm.Poll
          /\ closed.Status = vm.Status /\ closed.FaultMsg = vm.FaultMsg
      BY <1>4 DEF VMs
    <2> HIDE DEF closed
    <2>3. w \in VMs
      BY <1>12, <2>1 DEF VMs
    <2> QED BY <1>3, <1>11, <1>12, <2>1, <2>2, <2>3 DEF VMs, Reported
  <1>13. CASE Top.kind = "entry"
    <2>1. To = Len(stack)
      <3>1. StopsAt(Len(stack))
        BY <1>10, <1>13 DEF StopsAt
      <3>2. \A k \in Len(stack) + 1 .. Len(stack) : ~StopsAt(k)
        BY <1>7
      <3> QED BY <1>7, <3>1, <3>2, FirstStop
    <2>2. vm' = [closed EXCEPT !.SP = Top.base] /\ stack' = Below
      <3>1. ~(To < Len(stack)) /\ stack[To] = Top /\ SubSeq(stack, 1, To - 1) = Below
        BY <1>7, <1>10, <2>1
      <3> HIDE DEF closed
      <3> QED BY <1>2, <3>1
    <2>3. /\ vm' \in VMs /\ vm'.SP = Top.base /\ vm'.CleanupDepth = 0 /\ vm'.abort = "none"
          /\ ~vm'.FaultRaised /\ Reported(vm', raised)
      BY <1>4, <1>12, <2>2
    <2>4. Fits(vm', stack')
      BY <1>4, <1>7, <2>2, <2>3, Popped
    <2>5. /\ stack' \in Seq(Frames) /\ raised' \in BOOLEAN /\ lost' \in SUBSET Blocks
          /\ Built(stack') /\ vm'.CleanupDepth = Depth(stack')
          /\ Kept(stack', stack, lost', lost) /\ Reported(vm', raised')
      BY <1>4, <1>6, <1>7, <1>8, <1>9, <2>2, <2>3
    <2> QED BY <1>3, <1>9, <2>3, <2>4, <2>5, Arrives
  <1>14. CASE Top.kind = "call"
    <2> DEFINE g == Last(Below)
               below == SubSeq(Below, 1, Len(Below) - 1)
    <2>1. Below # <<>> /\ User(g)
      BY <1>7, <1>14 DEF OnTop, Over
    <2>2. Standing(Below, below, g)
      BY <1>4, <1>7, <2>1, Stands
    <2>3. /\ below \in Seq(Frames) /\ g \in Frames /\ Below = Append(below, g)
          /\ Built(below) /\ OnTop(below, g) /\ Depth(below) \in Nat /\ Len(Below) > 0
          /\ Depth(Below) = IF Ctx(g) THEN Depth(below) + 1 ELSE Depth(below)
      BY <2>2 DEF Standing
    <2>4. FrameOk(g) /\ ~Small(g) /\ g.kind # "native" /\ Depth(below) = 0
      BY <1>6, <2>1, <2>3 DEF OnTop, User, Small
    <2>5. stack[Len(Below)] = g /\ SubSeq(stack, 1, Len(Below) - 1) = below
      <3>1. Len(Below) \in 1 .. Len(Below)
        BY <1>7, <2>3
      <3>2. /\ stack[Len(Below)] = Below[Len(Below)]
            /\ SubSeq(stack, 1, Len(Below) - 1) = SubSeq(Below, 1, Len(Below) - 1)
        BY <1>4, <1>7, <3>1, Appended
      <3> QED BY <3>2 DEF Last
    <2>6. g.base \in Nat /\ g.table \in BOOLEAN
      BY <2>3 DEF Frames
    <2> HIDE DEF g, below
    <2>7. To = Len(Below)
      <3>1. Len(Below) \in 1 .. Len(stack) /\ Len(Below) < Len(stack)
        BY <1>7, <2>3
      <3>2. StopsAt(Len(Below))
        <4>1. g.kind = "entry" \/ g.table
          BY <2>1, <2>4 DEF User, FrameOk
        <4> QED BY <2>5, <3>1, <4>1 DEF StopsAt
      <3>3. \A k \in Len(Below) + 1 .. Len(stack) : ~StopsAt(k)
        <4>1. \A k \in Len(Below) + 1 .. Len(stack) : k = Len(stack)
          BY <1>7, <2>3
        <4>2. ~StopsAt(Len(stack))
          BY <1>7, <1>10, <1>14 DEF StopsAt
        <4> QED BY <4>1, <4>2
      <3> QED BY <1>7, <3>1, <3>2, <3>3, FirstStop
    <2>8. To < Len(stack) /\ stack[To] = g /\ stack[To + 1] = Top /\ SubSeq(stack, 1, To - 1) = below
      BY <1>7, <1>10, <2>3, <2>5, <2>7
    <2>9. CASE g.table
      <3> DEFINE new == [g EXCEPT !.mode = "pad"]
      <3>1. /\ vm' = [closed EXCEPT !.SP = Top.base, !.CleanupDepth = @ + 1]
            /\ stack' = Append(below, new)
        BY <1>2, <2>8, <2>9
      <3>2. Redone(new, g) /\ new.slots = g.slots /\ new.mode = "pad"
        BY <2>3, FrameChanged DEF Remoded
      <3> HIDE DEF new
      <3>3. new \in Frames /\ Ctx(new) /\ ~Small(new)
        BY <2>4, <3>2 DEF Redone, Ctx, Small
      <3>4. OnTop(below, new)
        BY <2>3, <2>4, <2>9, <3>2, Retopped
      <3>5. Built(stack') /\ Depth(stack') = 1
        BY <2>3, <2>4, <3>1, <3>3, <3>4, BuiltAppended, DepthAppended
      <3>6. stack' \in Seq(Frames) /\ stack' # <<>> /\ Last(stack') = new
        BY <2>3, <3>1, <3>3, Appended
      <3>7. /\ vm' \in VMs /\ vm'.SP = Top.base /\ vm'.CleanupDepth = 1 /\ vm'.abort = "none"
            /\ ~vm'.FaultRaised /\ Reported(vm', raised)
        <4>1. closed \in VMs /\ closed.CleanupDepth = 0
          BY <1>4, <1>6 DEF VMs
        <4>2. /\ closed.abort = vm.abort /\ closed.FaultRaised = vm.FaultRaised
              /\ closed.Poll = vm.Poll /\ closed.Status = vm.Status /\ closed.FaultMsg = vm.FaultMsg
          BY <1>4 DEF VMs
        <4> HIDE DEF closed
        <4>3. vm' = [closed EXCEPT !.SP = Top.base, !.CleanupDepth = 1]
          BY <3>1, <4>1
        <4>4. vm' \in VMs
          BY <1>4, <4>1, <4>3 DEF VMs
        <4> QED BY <1>3, <1>11, <4>1, <4>2, <4>3, <4>4 DEF VMs, Reported
      <3>8. Top.base <= L0
        BY <1>7, <2>1, <2>4 DEF OnTop, Over, g
      <3>9. Fits(vm', stack')
        BY <3>3, <3>6, <3>7, <3>8 DEF Fits
      <3>10. Kept(stack', stack, lost, lost)
        <4>1. Kept(stack', Below, lost, lost)
          BY <2>3, <3>1, <3>2, <3>3, KeptByShape
        <4> QED BY <1>4, <1>8, <1>9, <3>6, <4>1, KeptTwice
      <3>11. /\ raised' \in BOOLEAN /\ lost' \in SUBSET Blocks /\ vm'.CleanupDepth = Depth(stack')
             /\ Kept(stack', stack, lost', lost) /\ Reported(vm', raised')
        BY <1>9, <3>5, <3>7, <3>10
      <3> QED BY <1>3, <1>9, <3>5, <3>6, <3>7, <3>9, <3>11, Arrives
    <2>10. CASE ~g.table
      <3>1. vm' = [closed EXCEPT !.SP = g.base] /\ stack' = below
        BY <1>2, <2>8, <2>10
      <3>2. g.slots = Empty /\ g.freeOnPop = Nil
        BY <2>1, <2>4, <2>10 DEF User, FrameOk
      <3>3. /\ vm' \in VMs /\ vm'.SP = g.base /\ vm'.CleanupDepth = 0 /\ vm'.abort = "none"
            /\ ~vm'.FaultRaised /\ Reported(vm', raised)
        BY <1>12, <2>6, <3>1
      <3>4. Fits(vm', below)
        BY <2>3, <3>3, Popped
      <3>5. Kept(below, stack, lost, lost)
        <4>1. \A b \in Blocks : Holding(g.slots, b) = 0
          BY <3>2, EmptyHolds
        <4>2. Kept(below, Below, lost, lost)
          BY <2>3, <3>2, <4>1, KeptByShape
        <4> QED BY <1>4, <1>8, <1>9, <2>3, <4>2, KeptTwice
      <3>6. /\ stack' \in Seq(Frames) /\ raised' \in BOOLEAN /\ lost' \in SUBSET Blocks
            /\ Built(stack') /\ vm'.CleanupDepth = Depth(stack') /\ Fits(vm', stack')
            /\ Kept(stack', stack, lost', lost) /\ Reported(vm', raised')
        BY <1>9, <2>3, <2>4, <3>1, <3>3, <3>4, <3>5
      <3> QED BY <1>3, <1>9, <3>3, <3>6, Arrives
    <2> QED BY <2>9, <2>10
  <1> QED BY <1>5, <1>13, <1>14 DEF User

---------------------------------------------------------------------------
(* The steps that change the heap.                                         *)

\* A step that leaves the VM running.
LEMMA Settles ==
  ASSUME TypeOK', vm'.abort = "none", ~vm'.FaultRaised,
         Built(stack'), vm'.CleanupDepth = Depth(stack'), Fits(vm', stack'),
         Exact(stack', rc', field', live', lost'), Doomed(stack', rc', field', live'),
         Acyclic(field', live'), Reported(vm', raised')
  PROVE  IInv'
  <1>1. Sound'
    BY DEF Sound
  <1>2. InBounds(vm')
    BY Within DEF TypeOK
  <1>3. RedZoneSuffices'
    BY DEF RedZoneSuffices
  <1> QED BY <1>1, <1>2, <1>3 DEF IInv

\* What a block's refcount counts and what holds the block change by as much.
Balanced(s2, r2, fl2, lv2, s, r, fl, lv) ==
  \A b \in Blocks :
    (SlotCount(s2, b) + FieldCount(fl2, lv2, b)) - (SlotCount(s, b) + FieldCount(fl, lv, b))
      = (IF b \in lv2 THEN r2[b] ELSE 0) - (IF b \in lv THEN r[b] ELSE 0)

\* The heap and the holders changed by the same amount keep the counts exact.
LEMMA Balances ==
  ASSUME NEW s \in Seq(Frames), NEW r \in [Blocks -> Nat], NEW fl \in [Blocks -> Refs],
         NEW lv \in SUBSET Blocks, NEW s2 \in Seq(Frames), NEW r2 \in [Blocks -> Nat],
         NEW fl2 \in [Blocks -> Refs], NEW lv2 \in SUBSET Blocks, NEW ls,
         Exact(s, r, fl, lv, ls), Balanced(s2, r2, fl2, lv2, s, r, fl, lv)
  PROVE  Exact(s2, r2, fl2, lv2, ls)
  <1>1. ASSUME NEW b \in Blocks
        PROVE  LET count == IF b \in lv2 THEN r2[b] ELSE 0
               IN /\ SlotCount(s2, b) + FieldCount(fl2, lv2, b) <= count
                  /\ b \notin ls => SlotCount(s2, b) + FieldCount(fl2, lv2, b) = count
    <2> DEFINE n == SlotCount(s2, b) + FieldCount(fl2, lv2, b)
               o == SlotCount(s, b) + FieldCount(fl, lv, b)
               c2 == IF b \in lv2 THEN r2[b] ELSE 0
               c == IF b \in lv THEN r[b] ELSE 0
    <2>1. n \in Nat /\ o \in Nat
      <3>1. SlotCount(s, b) \in Nat /\ SlotCount(s2, b) \in Nat
        BY SlotsAppended
      <3>2. FieldCount(fl, lv, b) \in Nat
        BY FieldsChanged
      <3>3. FieldCount(fl2, lv2, b) \in Nat
        BY FieldsChanged
      <3> QED BY <3>1, <3>2, <3>3
    <2>2. c2 \in Nat /\ c \in Nat
      OBVIOUS
    <2>3. n - o = c2 - c
      BY DEF Balanced
    <2>4. o <= c /\ (b \notin ls => o = c)
      BY DEF Exact
    <2> HIDE DEF n, o, c2, c
    <2>5. n <= c2 /\ (b \notin ls => n = c2)
      BY <2>1, <2>2, <2>3, <2>4
    <2> QED BY <2>5 DEF n, c2
  <1> QED BY <1>1 DEF Exact

\* A block that a slot or a field holds is allocated and counted.
LEMMA Referenced ==
  ASSUME NEW s \in Seq(Frames), NEW r \in [Blocks -> Nat], NEW fl \in [Blocks -> Refs],
         NEW lv \in SUBSET Blocks, NEW ls, Exact(s, r, fl, lv, ls), NEW b \in Blocks
  PROVE  /\ SlotCount(s, b) > 0 => b \in lv /\ r[b] > 0
         /\ \A c \in lv : fl[c] = b => b \in lv /\ r[b] > 0
  <1>1. SlotCount(s, b) \in Nat /\ FieldCount(fl, lv, b) \in Nat
    BY SlotsAppended, FieldsChanged
  <1>2. SlotCount(s, b) + FieldCount(fl, lv, b) <= (IF b \in lv THEN r[b] ELSE 0)
    BY DEF Exact
  <1>3. SlotCount(s, b) + FieldCount(fl, lv, b) > 0 => b \in lv /\ r[b] > 0
    <2>1. CASE b \in lv
      <3>1. SlotCount(s, b) + FieldCount(fl, lv, b) <= r[b] /\ r[b] \in Nat
        BY <1>2, <2>1
      <3> QED BY <1>1, <2>1, <3>1
    <2>2. CASE b \notin lv
      <3>1. SlotCount(s, b) + FieldCount(fl, lv, b) <= 0
        BY <1>2, <2>2
      <3> QED BY <1>1, <3>1
    <2> QED BY <2>1, <2>2
  <1>4. ASSUME NEW c \in lv, fl[c] = b
        PROVE  FieldCount(fl, lv, b) > 0
    <2> DEFINE C == {d \in lv : fl[d] = b}
    <2>1. C \in SUBSET Blocks /\ c \in C
      BY <1>4
    <2>2. FieldCount(fl, lv, b) = Cardinality(C)
      BY DEF FieldCount
    <2> HIDE DEF C
    <2>3. IsFiniteSet(C)
      BY <2>1, NilAssumption, FS_Subset
    <2>4. Cardinality(C) # 0
      BY <2>1, <2>3, FS_EmptySet
    <2> QED BY <1>1, <2>2, <2>4
  <1> QED BY <1>1, <1>3, <1>4

\* What the running frame holds.
LEMMA HeldIsLive ==
  ASSUME IInv, stack # <<>>, vm.abort = "none", NEW x \in Slots, Top.slots[x] # Nil
  PROVE  /\ Top.slots[x] \in live /\ Top.slots[x] \in Blocks /\ rc[Top.slots[x]] > 0
         /\ Top.slots[x] \notin Dying(stack)
  <1>1. /\ Top \in Frames /\ Top.slots \in [Slots -> Refs] /\ Below \in Seq(Frames) /\ Sound
        /\ Standing(stack, Below, Top)
    BY Here
  <1>2. /\ rc \in [Blocks -> Nat] /\ field \in [Blocks -> Refs] /\ live \in SUBSET Blocks
        /\ stack \in Seq(Frames)
    BY DEF IInv, TypeOK
  <1>3. Top.slots[x] \in Blocks
    BY <1>1 DEF Refs
  <1>4. SlotCount(stack, Top.slots[x]) > 0
    <2>1. stack = Append(Below, Top)
      BY <1>1 DEF Standing
    <2>2. Holding(Top.slots, Top.slots[x]) >= 1
      BY <1>1, <1>3, HeldCounts
    <2>3. /\ SlotCount(stack, Top.slots[x])
               = SlotCount(Below, Top.slots[x]) + Holding(Top.slots, Top.slots[x])
          /\ SlotCount(Below, Top.slots[x]) \in Nat /\ Holding(Top.slots, Top.slots[x]) \in Nat
      BY <1>1, <1>3, <2>1, SlotsAppended, HoldingNat
    <2> QED BY <2>2, <2>3
  <1>5. Top.slots[x] \in live /\ rc[Top.slots[x]] > 0
    <2>1. Exact(stack, rc, field, live, lost)
      BY <1>1 DEF Sound
    <2> QED BY <1>2, <1>3, <1>4, <2>1, Referenced
  <1>6. Top.slots[x] \notin Dying(stack)
    BY <1>1, <1>5 DEF Sound, Doomed
  <1> QED BY <1>3, <1>5, <1>6

\* A reference goes to a free slot of a user frame.
LEMMA Filled ==
  ASSUME IInv, InBody, Top.table, NEW x \in Slots, Top.slots[x] = Nil,
         NEW b \in Blocks, SetSlot(x, b)
  PROVE  /\ stack' \in Seq(Frames) /\ Built(stack') /\ Depth(stack') = vm.CleanupDepth
         /\ Fits(vm, stack') /\ Dying(stack') = Dying(stack)
         /\ \A y \in Blocks : /\ SlotCount(stack', y) = SlotCount(stack, y) + One(y, b)
                            /\ SlotCount(stack, y) \in Nat /\ One(y, b) \in Nat
  <1> DEFINE new == [Top EXCEPT !.slots[x] = b]
  <1>1. stack' = Append(Below, new)
    BY DEF SetSlot
  <1>2. /\ stack # <<>> /\ vm.abort = "none" /\ stack = Append(Below, Top)
        /\ vm.CleanupDepth = 0 /\ vm.SP <= L0 /\ Top.mode = "body"
    BY AtBody
  <1>3. /\ Top \in Frames /\ Below \in Seq(Frames) /\ Top.slots \in [Slots -> Refs]
    BY <1>2, Here
  <1>4. Redone(new, Top) /\ Sets(new.slots, Top.slots, x, b) /\ new.mode = Top.mode
    <2>1. Reslotted(new, Top, x, b)
      BY DEF Reslotted
    <2>2. b \in Refs
      BY RefsAre
    <2> HIDE DEF new
    <2> QED BY <1>3, <2>1, <2>2, FrameChanged
  <1> HIDE DEF new
  <1>5. /\ new \in Frames /\ stack' \in Seq(Frames) /\ Built(stack') /\ ~Small(new)
        /\ Depth(stack') = 0 /\ stack' # <<>> /\ Last(stack') = new
    BY <1>1, <1>2, <1>4, BodyChanged
  <1>6. Dying(stack') = Dying(stack)
    <2>1. Dying(Append(Below, new)) = Dying(Append(Below, Top))
      BY <1>3, <1>4, <1>5, DyingAppended DEF Redone
    <2> QED BY <1>1, <1>2, <2>1
  <1>7. \A y \in Blocks : /\ SlotCount(stack', y) = SlotCount(stack, y) + One(y, b)
                          /\ SlotCount(stack, y) \in Nat /\ One(y, b) \in Nat
    <2>1. \A y \in Blocks : Holding(new.slots, y) = Holding(Top.slots, y) + One(y, b)
      <3>1. b \in Refs
        BY RefsAre
      <3> QED BY <1>3, <1>4, <3>1, HoldingChanged
    <2>2. \A y \in Blocks : /\ SlotCount(stack', y) = SlotCount(Below, y) + Holding(new.slots, y)
                            /\ SlotCount(stack, y) = SlotCount(Below, y) + Holding(Top.slots, y)
                            /\ SlotCount(Below, y) \in Nat
      BY <1>1, <1>2, <1>3, <1>5, SlotsAppended
    <2>3. \A y \in Blocks : Holding(Top.slots, y) \in Nat /\ One(y, b) \in Nat
      BY HoldingNat DEF One
    <2> QED BY <2>1, <2>2, <2>3
  <1>8. Fits(vm, stack')
    BY <1>2, <1>5 DEF Fits
  <1> QED BY <1>2, <1>5, <1>6, <1>7, <1>8

\* Copying a reference into a slot increments its count.
LEMMA CopyStep ==
  ASSUME IInv, NEW x \in Slots, NEW t \in Slots, Copy(x, t)
  PROVE  IInv'
  <1> DEFINE b == Top.slots[t]
  <1>1. /\ InBody /\ Top.table /\ Top.slots[x] = Nil /\ Top.slots[t] # Nil
        /\ rc' = [rc EXCEPT ![b] = @ + 1] /\ SetSlot(x, b)
        /\ UNCHANGED <<vm, field, live, raised, lost>>
    BY DEF Copy, UserBody, Held, Free
  <1>2. /\ stack # <<>> /\ vm.abort = "none" /\ ~vm.FaultRaised /\ Reported(vm, raised)
    BY <1>1, AtBody
  <1>3. Sound
    BY <1>2, Here
  <1>4. b \in live /\ b \in Blocks /\ rc[b] > 0 /\ b \notin Dying(stack)
    BY <1>1, <1>2, HeldIsLive
  <1> HIDE DEF b
  <1>5. /\ rc \in [Blocks -> Nat] /\ field \in [Blocks -> Refs] /\ live \in SUBSET Blocks
        /\ stack \in Seq(Frames) /\ vm \in VMs /\ raised \in BOOLEAN /\ lost \in SUBSET Blocks
    BY DEF IInv, TypeOK
  <1>6. /\ stack' \in Seq(Frames) /\ Built(stack') /\ Depth(stack') = vm.CleanupDepth
        /\ Fits(vm, stack') /\ Dying(stack') = Dying(stack)
        /\ \A y \in Blocks : /\ SlotCount(stack', y) = SlotCount(stack, y) + One(y, b)
                           /\ SlotCount(stack, y) \in Nat /\ One(y, b) \in Nat
    BY <1>1, <1>4, Filled
  <1>7. rc' \in [Blocks -> Nat] /\ \A y \in Blocks : rc'[y] = rc[y] + One(y, b)
    BY <1>1, <1>4, <1>5 DEF One
  <1>8. Balanced(stack', rc', field, live, stack, rc, field, live)
    <2> SUFFICES ASSUME NEW y \in Blocks
                 PROVE  (SlotCount(stack', y) + FieldCount(field, live, y))
                          - (SlotCount(stack, y) + FieldCount(field, live, y))
                        = (IF y \in live THEN rc'[y] ELSE 0) - (IF y \in live THEN rc[y] ELSE 0)
      BY DEF Balanced
    <2>1. FieldCount(field, live, y) \in Nat /\ rc[y] \in Nat /\ rc'[y] = rc[y] + One(y, b)
      BY <1>5, <1>7, FieldsChanged
    <2>2. /\ SlotCount(stack', y) = SlotCount(stack, y) + One(y, b) /\ SlotCount(stack, y) \in Nat
          /\ One(y, b) \in Nat
      BY <1>6
    <2>3. y \notin live => One(y, b) = 0
      BY <1>4 DEF One
    <2>4. CASE y \in live
      BY <2>1, <2>2, <2>3, <2>4
    <2>5. CASE y \notin live
      BY <2>1, <2>2, <2>3, <2>5
    <2> QED BY <2>4, <2>5
  <1>9. Exact(stack', rc', field, live, lost)
    BY <1>3, <1>5, <1>6, <1>7, <1>8, Balances DEF Sound
  <1>10. Doomed(stack', rc', field, live)
    <2>1. \A y \in Blocks : y # b => rc'[y] = rc[y]
      BY <1>5, <1>7 DEF One
    <2>2. rc'[b] # 0
      BY <1>4, <1>5, <1>7 DEF One
    <2>3. Dying(stack) \in SUBSET Blocks
      BY <1>5, DyingAppended
    <2>4. Doomed(stack, rc, field, live)
      BY <1>3 DEF Sound
    <2> QED BY <1>4, <1>5, <1>6, <2>1, <2>2, <2>3, <2>4 DEF Doomed
  <1>11. /\ vm' = vm /\ field' = field /\ live' = live /\ raised' = raised /\ lost' = lost
    BY <1>1
  <1>12. TypeOK'
    BY <1>5, <1>6, <1>7, <1>11 DEF TypeOK
  <1>13. /\ vm'.abort = "none" /\ ~vm'.FaultRaised /\ vm'.CleanupDepth = Depth(stack')
         /\ Fits(vm', stack') /\ Exact(stack', rc', field', live', lost')
         /\ Doomed(stack', rc', field', live') /\ Acyclic(field', live') /\ Reported(vm', raised')
    BY <1>2, <1>3, <1>6, <1>9, <1>10, <1>11 DEF Sound
  <1> QED BY <1>6, <1>12, <1>13, Settles

\* A new block is held once, and its field holds what was moved into it.
LEMMA AllocStep ==
  ASSUME IInv, NEW x \in Slots, NEW b \in Blocks, NEW f \in Refs, Alloc(x, b, f)
  PROVE  IInv'
  <1>1. /\ InBody /\ Top.table /\ Top.slots[x] = Nil /\ b \notin live
        /\ f = Nil \/ \E t \in Slots : Top.slots[t] # Nil /\ f = Top.slots[t]
        /\ live' = live \cup {b} /\ field' = [field EXCEPT ![b] = f]
        /\ rc' = [c \in Blocks |-> IF c = b THEN 1 ELSE IF c = f THEN rc[c] + 1 ELSE rc[c]]
        /\ SetSlot(x, b) /\ UNCHANGED <<vm, raised, lost>>
    BY DEF Alloc, UserBody, Held, Free
  <1>2. /\ stack # <<>> /\ vm.abort = "none" /\ ~vm.FaultRaised /\ Reported(vm, raised)
    BY <1>1, AtBody
  <1>3. Sound
    BY <1>2, Here
  <1>4. f = Nil \/ (f \in live /\ f \in Blocks /\ rc[f] > 0 /\ f \notin Dying(stack))
    BY <1>1, <1>2, HeldIsLive
  <1>5. /\ rc \in [Blocks -> Nat] /\ field \in [Blocks -> Refs] /\ live \in SUBSET Blocks
        /\ stack \in Seq(Frames) /\ vm \in VMs /\ raised \in BOOLEAN /\ lost \in SUBSET Blocks
    BY DEF IInv, TypeOK
  <1>6. /\ stack' \in Seq(Frames) /\ Built(stack') /\ Depth(stack') = vm.CleanupDepth
        /\ Fits(vm, stack') /\ Dying(stack') = Dying(stack)
        /\ \A y \in Blocks : /\ SlotCount(stack', y) = SlotCount(stack, y) + One(y, b)
                           /\ SlotCount(stack, y) \in Nat /\ One(y, b) \in Nat
    BY <1>1, Filled
  <1>7. b # f /\ b \notin Dying(stack)
    BY <1>1, <1>3, <1>4, RefsAre DEF Sound, Doomed
  <1>8. /\ rc' \in [Blocks -> Nat]
        /\ rc'[b] = 1 /\ \A y \in Blocks \ {b} : rc'[y] = rc[y] + One(y, f)
    BY <1>1, <1>5 DEF One
  <1>9. /\ live' \in SUBSET Blocks /\ field' \in [Blocks -> Refs]
        /\ field'[b] = f /\ \A y \in Blocks \ {b} : field'[y] = field[y]
    BY <1>1, <1>5
  <1>10. \A y \in Blocks : /\ FieldCount(field', live', y) = FieldCount(field, live, y) + One(y, f)
                           /\ FieldCount(field, live, y) \in Nat
    <2>1. Sets(field', field, b, f)
      BY <1>1 DEF Sets
    <2>2. \A new, lv2 : \A c \in Refs :
            (b \notin live /\ Sets(new, field, b, c) /\ lv2 = live \cup {b}) =>
              \A y \in Blocks : FieldCount(new, lv2, y) = FieldCount(field, live, y) + One(y, c)
      BY <1>5, FieldsChanged
    <2>3. \A y : FieldCount(field, live, y) \in Nat
      BY <1>5, FieldsChanged
    <2> QED BY <1>1, <2>1, <2>2, <2>3
  <1>11. Balanced(stack', rc', field', live', stack, rc, field, live)
    <2> SUFFICES ASSUME NEW y \in Blocks
                 PROVE  (SlotCount(stack', y) + FieldCount(field', live', y))
                          - (SlotCount(stack, y) + FieldCount(field, live, y))
                        = (IF y \in live' THEN rc'[y] ELSE 0) - (IF y \in live THEN rc[y] ELSE 0)
      BY DEF Balanced
    <2>1. /\ FieldCount(field', live', y) = FieldCount(field, live, y) + One(y, f)
          /\ FieldCount(field, live, y) \in Nat /\ rc[y] \in Nat
      BY <1>5, <1>10
    <2>2. /\ SlotCount(stack', y) = SlotCount(stack, y) + One(y, b) /\ SlotCount(stack, y) \in Nat
          /\ One(y, b) \in Nat /\ One(y, f) \in Nat
      BY <1>6 DEF One
    <2>3. CASE y = b
      <3>1. One(y, b) = 1 /\ One(y, f) = 0
        BY <1>7, <2>3 DEF One
      <3>2. (IF y \in live' THEN rc'[y] ELSE 0) = 1 /\ (IF y \in live THEN rc[y] ELSE 0) = 0
        BY <1>1, <1>8, <2>3
      <3> QED BY <2>1, <2>2, <3>1, <3>2
    <2>4. CASE y # b /\ y \in live
      <3>1. One(y, b) = 0
        BY <2>4 DEF One
      <3>2. (IF y \in live' THEN rc'[y] ELSE 0) = rc[y] + One(y, f)
        BY <1>1, <1>8, <2>4
      <3>3. (IF y \in live THEN rc[y] ELSE 0) = rc[y]
        BY <2>4
      <3> QED BY <2>1, <2>2, <3>1, <3>2, <3>3
    <2>5. CASE y # b /\ y \notin live
      <3>1. One(y, b) = 0 /\ One(y, f) = 0
        BY <1>4, <2>5, RefsAre DEF One
      <3>2. (IF y \in live' THEN rc'[y] ELSE 0) = 0 /\ (IF y \in live THEN rc[y] ELSE 0) = 0
        BY <1>1, <2>5
      <3> QED BY <2>1, <2>2, <3>1, <3>2
    <2> QED BY <2>3, <2>4, <2>5
  <1>12. Exact(stack', rc', field', live', lost)
    BY <1>3, <1>5, <1>6, <1>8, <1>9, <1>11, Balances DEF Sound
  <1>13. Doomed(stack', rc', field', live')
    <2>1. Doomed(stack, rc, field, live) /\ Dying(stack) \in SUBSET Blocks
      BY <1>3, <1>5, DyingAppended DEF Sound
    <2>2. \A y \in Blocks \ {b} : rc'[y] = 0 <=> rc[y] = 0
      <3> TAKE y \in Blocks \ {b}
      <3>1. rc'[y] = rc[y] + One(y, f) /\ rc[y] \in Nat
        BY <1>5, <1>8
      <3>2. CASE y = f
        <4>1. One(y, f) = 1 /\ rc[y] > 0
          BY <1>4, <3>2, RefsAre DEF One
        <4> QED BY <3>1, <4>1
      <3>3. CASE y # f
        <4>1. One(y, f) = 0
          BY <3>3 DEF One
        <4> QED BY <3>1, <4>1
      <3> QED BY <3>2, <3>3
    <2>3. rc'[b] # 0
      BY <1>8
    <2>4. ASSUME NEW y \in Dying(stack)
          PROVE  y \in live' /\ rc'[y] = 0 /\ field'[y] = Nil
      <3>1. y \in live /\ rc[y] = 0 /\ field[y] = Nil /\ y \in Blocks \ {b}
        BY <1>7, <2>1 DEF Doomed
      <3> QED BY <1>1, <1>9, <2>2, <3>1
    <2>5. ASSUME NEW y \in live', rc'[y] = 0
          PROVE  y \in Dying(stack)
      <3>1. y \in live /\ rc[y] = 0
        BY <1>1, <1>5, <2>2, <2>3, <2>5
      <3> QED BY <2>1, <3>1 DEF Doomed
    <2> QED BY <1>6, <2>4, <2>5 DEF Doomed
  <1>14. Acyclic(field', live')
    <2>1. PICK rank \in Ranks : \A c \in live : field[c] # Nil => rank[field[c]] < rank[c]
      BY <1>3 DEF Sound, Acyclic
    <2> DEFINE n == IF f = Nil THEN 0 ELSE rank[f] + 1
    <2>2. n \in Nat /\ (f # Nil => rank[f] < n)
      BY <1>4, <2>1 DEF Ranks
    <2> HIDE DEF n
    <2>3. PICK rank2 : rank2 = [rank EXCEPT ![b] = n]
      OBVIOUS
    <2>4. rank2 \in Ranks /\ rank2[b] = n /\ \A y \in Blocks \ {b} : rank2[y] = rank[y]
      BY <2>1, <2>2, <2>3 DEF Ranks
    <2>5. ASSUME NEW c \in live', field'[c] # Nil
          PROVE  rank2[field'[c]] < rank2[c]
      <3>1. CASE c = b
        BY <1>4, <1>7, <1>9, <2>2, <2>4, <2>5, <3>1
      <3>2. CASE c # b
        <4>1. c \in live /\ c \in Blocks \ {b} /\ field'[c] = field[c] /\ field[c] \in Blocks
          BY <1>1, <1>5, <1>9, <2>5, <3>2 DEF Refs
        <4>2. field[c] \in live
          BY <1>3, <1>5, <4>1, Referenced DEF Sound
        <4>3. field[c] \in Blocks \ {b}
          BY <1>1, <4>1, <4>2
        <4>4. rank[field[c]] < rank[c]
          BY <2>1, <2>5, <4>1
        <4> QED BY <2>4, <4>1, <4>3, <4>4
      <3> QED BY <3>1, <3>2
    <2> QED BY <2>4, <2>5 DEF Acyclic
  <1>15. vm' = vm /\ raised' = raised /\ lost' = lost
    BY <1>1
  <1>16. TypeOK'
    BY <1>5, <1>6, <1>8, <1>9, <1>15 DEF TypeOK
  <1>17. /\ vm'.abort = "none" /\ ~vm'.FaultRaised /\ vm'.CleanupDepth = Depth(stack')
         /\ Fits(vm', stack') /\ Exact(stack', rc', field', live', lost') /\ Reported(vm', raised')
    BY <1>2, <1>6, <1>12, <1>15
  <1> QED BY <1>6, <1>13, <1>14, <1>16, <1>17, Settles

\* The reference a frame that is left gives up next, and the frame without it.
Given == Top.slots[NextHeld]
Released == [Top EXCEPT !.slots[NextHeld] = Nil]

\* The frame that gives up a reference, before its block is looked at.
LEMMA Releases ==
  ASSUME IInv, Releasing, Held # {}
  PROVE  /\ stack # <<>> /\ vm.abort = "none" /\ Top.kind # "native"
         /\ Given \in live /\ Given \in Blocks /\ rc[Given] > 0 /\ Given \notin Dying(stack)
         /\ Released \in Frames /\ Last(Append(Below, Released)) = Released
         /\ Released.kind = Top.kind /\ Released.base = Top.base
         /\ Append(Below, Released) \in Seq(Frames) /\ Append(Below, Released) # <<>>
         /\ Built(Append(Below, Released))
         /\ Depth(Append(Below, Released)) = vm.CleanupDepth
         /\ Dying(Append(Below, Released)) = Dying(stack)
         /\ Fits(vm, Append(Below, Released))
         /\ \A y \in Blocks :
              /\ SlotCount(Append(Below, Released), y) = SlotCount(stack, y) - One(y, Given)
              /\ SlotCount(stack, y) \in Nat /\ SlotCount(Append(Below, Released), y) \in Nat
              /\ One(y, Given) \in Nat
  <1>1. stack # <<>> /\ vm.abort = "none" /\ Top.mode \in {"exit", "pad"}
    BY DEF Releasing, Running
  <1>2. /\ Top \in Frames /\ Below \in Seq(Frames) /\ Sound /\ Top.slots \in [Slots -> Refs]
        /\ FrameOk(Top) /\ Standing(stack, Below, Top)
        /\ IF Small(Top) THEN vm.SP = Top.base + DTOR_EXTENT ELSE vm.SP <= L0
        /\ vm.CleanupDepth = IF Ctx(Top) THEN Depth(Below) + 1 ELSE Depth(Below)
    BY <1>1, Here
  <1>3. stack = Append(Below, Top) /\ OnTop(Below, Top) /\ Built(Below)
    BY <1>2 DEF Standing
  <1>4. NextHeld \in Slots /\ Top.slots[NextHeld] # Nil
    <2>1. Held \in SUBSET Nat /\ Held \in SUBSET Slots
      <3>1. Cardinality(Slots) \in Nat
        BY SlotsAssumption, FS_CardinalityType
      <3> QED BY <3>1, SlotsAssumption DEF Held
    <2>2. \E s \in Held : \A t \in Held : s <= t
      <3>1. PICK h \in Held : TRUE
        OBVIOUS
      <3> QED BY <2>1, <3>1, LeastNatural
    <2>3. NextHeld \in Held
      BY <2>2 DEF NextHeld
    <2> QED BY <2>3 DEF Held
  <1>5. Given \in live /\ Given \in Blocks /\ rc[Given] > 0 /\ Given \notin Dying(stack)
    BY <1>1, <1>4, HeldIsLive DEF Given
  <1>6. Redone(Released, Top) /\ Sets(Released.slots, Top.slots, NextHeld, Nil)
        /\ Released.mode = Top.mode
    <2>1. Reslotted(Released, Top, NextHeld, Nil)
      BY DEF Reslotted, Released
    <2> QED BY <1>2, <1>4, <2>1, RefsAre, FrameChanged
  <1>7. /\ Top.kind # "native" /\ (Small(Top) => Released.mode = "exit")
        /\ ~(Top.kind = "entry" /\ ~Top.table)
    <2>1. ~(Top.kind = "entry" /\ ~Top.table)
      BY <1>2, <1>4 DEF FrameOk, Empty
    <2> QED BY <1>1, <1>2, <1>6, <2>1 DEF FrameOk
  <1>8. OnTop(Below, Released) /\ Dying(Append(Below, Released)) = Dying(Append(Below, Top))
    BY <1>2, <1>3, <1>6, <1>7, Retopped
  <1>9. /\ Released \in Frames /\ Released.kind = Top.kind /\ Released.base = Top.base
        /\ (Ctx(Released) <=> Ctx(Top)) /\ (Small(Released) <=> Small(Top))
    BY <1>6 DEF Redone, Ctx, Small
  <1>10. /\ Append(Below, Released) \in Seq(Frames) /\ Append(Below, Released) # <<>>
         /\ Last(Append(Below, Released)) = Released
    BY <1>2, <1>9, Appended
  <1>11. Built(Append(Below, Released))
    BY <1>2, <1>3, <1>8, <1>9, BuiltAppended
  <1>12. Depth(Append(Below, Released)) = vm.CleanupDepth
    BY <1>2, <1>9, DepthAppended
  <1>13. Fits(vm, Append(Below, Released))
    BY <1>2, <1>9, <1>10 DEF Fits
  <1>14. ASSUME NEW y \in Blocks
         PROVE  /\ SlotCount(Append(Below, Released), y) = SlotCount(stack, y) - One(y, Given)
                /\ SlotCount(stack, y) \in Nat /\ SlotCount(Append(Below, Released), y) \in Nat
                /\ One(y, Given) \in Nat
    <2>1. Holding(Released.slots, y) = Holding(Top.slots, y) - One(y, Given)
      <3>1. \A b \in Blocks :
              Holding(Released.slots, b) = Holding(Top.slots, b) - One(b, Top.slots[NextHeld])
        <4>1. Nil \in Refs
          BY RefsAre
        <4> QED BY <1>2, <1>4, <1>6, <4>1, HoldingChanged
      <3> QED BY <3>1 DEF Given
    <2>2. /\ SlotCount(Append(Below, Released), y) = SlotCount(Below, y) + Holding(Released.slots, y)
          /\ SlotCount(Append(Below, Top), y) = SlotCount(Below, y) + Holding(Top.slots, y)
          /\ SlotCount(Below, y) \in Nat
      BY <1>2, <1>9, SlotsAppended
    <2>3. Holding(Top.slots, y) \in Nat /\ Holding(Released.slots, y) \in Nat /\ One(y, Given) \in Nat
      BY HoldingNat DEF One
    <2> QED BY <1>3, <2>1, <2>2, <2>3
  <1> QED BY <1>1, <1>3, <1>5, <1>7, <1>8, <1>9, <1>10, <1>11, <1>12, <1>13, <1>14

\* How deep the frames above a user frame can reach: one destructor and one helper
\* for each block that is being freed.
LEMMA DeepEnough ==
  ASSUME IInv, stack # <<>>, vm.abort = "none"
  PROVE  /\ Cardinality(Dying(stack)) \in Nat
         /\ Top.kind # "helper" => vm.SP <= L0 + Deep(Cardinality(Dying(stack)))
         /\ vm.SP + DTOR_EXTENT <= L0 + Deep(Cardinality(Dying(stack)) + 1)
  <1>1. /\ Top \in Frames /\ Below \in Seq(Frames) /\ FrameOk(Top) /\ vm.SP \in Nat
        /\ Standing(stack, Below, Top)
        /\ IF Small(Top) THEN vm.SP = Top.base + DTOR_EXTENT ELSE vm.SP <= L0
    BY Here
  <1>2. stack = Append(Below, Top) /\ OnTop(Below, Top) /\ stack \in Seq(Frames)
    BY <1>1 DEF Standing, IInv, TypeOK
  <1> DEFINE c == Cardinality(Dying(Below))
             d == Cardinality(Dying(stack))
  <1>3. c \in Nat /\ d \in Nat
    BY <1>1, <1>2, DyingFinite
  <1>4. Dying(stack) = IF Top.freeOnPop = Nil THEN Dying(Below) ELSE Dying(Below) \cup {Top.freeOnPop}
    BY <1>1, <1>2, DyingAppended
  <1>5. /\ Top.kind = "dtor" => d = c + 1 /\ Top.base + DTOR_EXTENT <= L0 + Deep(c + 1)
        /\ Top.kind = "helper" => /\ d = c /\ Top.base + DTOR_EXTENT <= L0 + Deep(c) + DTOR_EXTENT
                                  /\ HelperCalls
    <2>1. ASSUME Top.kind = "dtor"
          PROVE  d = c + 1
      <3>1. Top.freeOnPop \in Blocks \ Dying(Below)
        BY <1>1, <1>2, <2>1 DEF OnTop, FrameOk, Frames, Refs
      <3>2. Dying(stack) = Dying(Below) \cup {Top.freeOnPop}
        BY <1>4, <3>1, RefsAre
      <3> QED BY <1>1, <3>1, <3>2, DyingFinite
    <2>2. ASSUME Top.kind = "helper"
          PROVE  d = c /\ HelperCalls
      <3>1. Top.freeOnPop = Nil /\ HelperCalls
        BY <1>1, <2>2 DEF FrameOk
      <3> QED BY <1>4, <3>1
    <2> QED BY <1>2, <2>1, <2>2 DEF OnTop
  <1> HIDE DEF c, d
  <1>6. /\ Deep(c) \in Nat /\ Deep(d) \in Nat /\ Deep(d + 1) = Deep(d) + Unit /\ Unit \in Nat
        /\ DTOR_EXTENT <= Unit /\ (HelperCalls => Unit = DTOR_EXTENT + DTOR_EXTENT)
        /\ DTOR_EXTENT \in Nat /\ L0 \in Nat
    <2>1. /\ Deep(c) \in Nat /\ Deep(d) \in Nat /\ Deep(d + 1) = Deep(d) + Unit
      BY <1>3, Deeper
    <2>2. Unit \in Nat /\ (HelperCalls => Unit = DTOR_EXTENT + DTOR_EXTENT)
          /\ (~HelperCalls => Unit = DTOR_EXTENT)
      BY Deeper
    <2>3. DTOR_EXTENT \in Nat /\ L0 \in Nat
      BY Sizes
    <2>4. DTOR_EXTENT <= Unit
      <3>1. CASE HelperCalls
        BY <2>2, <2>3, <3>1
      <3>2. CASE ~HelperCalls
        BY <2>2, <2>3, <3>2
      <3> QED BY <3>1, <3>2
    <2> QED BY <2>1, <2>2, <2>3, <2>4
  <1>7. CASE ~Small(Top)
    BY <1>1, <1>3, <1>6, <1>7 DEF c, d
  <1>8. CASE Top.kind = "dtor"
    <2>1. vm.SP <= L0 + Deep(d)
      BY <1>1, <1>5, <1>8 DEF Small
    <2> QED BY <1>1, <1>3, <1>6, <2>1 DEF d
  <1>9. CASE Top.kind = "helper"
    <2>1. vm.SP <= L0 + Deep(d) + DTOR_EXTENT /\ HelperCalls
      BY <1>1, <1>5, <1>9 DEF Small
    <2> QED BY <1>1, <1>3, <1>6, <1>9, <2>1 DEF d
  <1> QED BY <1>7, <1>8, <1>9 DEF Small

\* A red zone as deep as the cascade leaves room for what a held block needs.
LEMMA ZoneIsDeep ==
  ASSUME StackRedZone \in Cascade .. StackSize - 1, NEW s \in Seq(Frames),
         NEW b \in Blocks \ Dying(s)
  PROVE  L0 + Deep(Cardinality(Dying(s)) + 1) <= StackSize
  <1> DEFINE k == Cardinality(Dying(s))
  <1>1. k \in Nat /\ k + 1 <= Cardinality(Blocks)
    BY DyingFinite
  <1> HIDE DEF k
  <1>2. Deep(k + 1) <= Cascade /\ Cascade \in Nat /\ Deep(k + 1) \in Nat
    <2>1. k + 1 \in Nat /\ Cardinality(Blocks) \in Nat
      BY <1>1, Deeper
    <2>2. Deep(k + 1) <= Deep(Cardinality(Blocks))
      BY <1>1, <2>1, Deeper
    <2>3. Deep(k + 1) \in Nat /\ Deep(Cardinality(Blocks)) \in Nat
      BY <2>1, Deeper
    <2> QED BY <2>2, <2>3, Deeper
  <1>3. StackRedZone \in 0 .. StackSize /\ StackRedZone >= Cascade /\ StackSize \in Nat
    BY <1>2, Sizes
  <1>4. L0 = StackSize - StackRedZone
    BY <1>3, Sizes
  <1>5. L0 + Deep(k + 1) <= StackSize
    BY <1>2, <1>3, <1>4
  <1> QED BY <1>5 DEF k

\* A frame that gives up a reference whose block nothing else happens to, or frees.
GivesUp ==
  /\ Releasing /\ Held # {} /\ rc' = [rc EXCEPT ![Given] = @ - 1]
  /\ UNCHANGED <<vm, field, raised, lost>> /\ stack' = Append(Below, Released)
  /\ \/ rc[Given] > 1 /\ live' = live
     \/ rc[Given] = 1 /\ field[Given] = Nil /\ live' = live \ {Given}

\* A count goes down, or a block without a field is freed at once.
LEMMA GivesUpStep ==
  ASSUME IInv, GivesUp
  PROVE  IInv'
  <1> DEFINE b == Given
  <1>1. /\ stack # <<>> /\ vm.abort = "none" /\ b \in live /\ b \in Blocks /\ rc[b] > 0
        /\ b \notin Dying(stack) /\ stack' \in Seq(Frames) /\ Built(stack')
        /\ Depth(stack') = vm.CleanupDepth /\ Dying(stack') = Dying(stack) /\ Fits(vm, stack')
        /\ \A y \in Blocks : /\ SlotCount(stack', y) = SlotCount(stack, y) - One(y, b)
                             /\ SlotCount(stack, y) \in Nat /\ SlotCount(stack', y) \in Nat
                             /\ One(y, b) \in Nat
    <2>1. Releasing /\ Held # {} /\ stack' = Append(Below, Released)
      BY DEF GivesUp
    <2> QED BY <2>1, Releases
  <1>2. /\ rc' = [rc EXCEPT ![b] = @ - 1] /\ UNCHANGED <<vm, field, raised, lost>>
        /\ \/ rc[b] > 1 /\ live' = live
           \/ rc[b] = 1 /\ field[b] = Nil /\ live' = live \ {b}
    BY DEF GivesUp
  <1> HIDE DEF b
  <1>3. Sound
    BY <1>1, Here
  <1>4. /\ rc \in [Blocks -> Nat] /\ field \in [Blocks -> Refs] /\ live \in SUBSET Blocks
        /\ stack \in Seq(Frames) /\ vm \in VMs /\ raised \in BOOLEAN /\ lost \in SUBSET Blocks
    BY DEF IInv, TypeOK
  <1>5. /\ rc' \in [Blocks -> Nat] /\ rc'[b] = rc[b] - 1 /\ rc[b] \in Nat
        /\ \A y \in Blocks \ {b} : rc'[y] = rc[y]
    <2>1. rc[b] - 1 \in Nat /\ rc[b] \in Nat
      BY <1>1, <1>4
    <2> QED BY <1>1, <1>2, <1>4, <2>1
  <1>6. live' \in SUBSET Blocks
    BY <1>2, <1>4
  <1>7. \A y \in Blocks : /\ FieldCount(field, live', y) = FieldCount(field, live, y)
                          /\ FieldCount(field, live, y) \in Nat
    <2>1. \A lv2 : (field[b] = Nil /\ lv2 = live \ {b}) =>
             \A y \in Blocks : FieldCount(field, lv2, y) = FieldCount(field, live, y)
      BY <1>1, <1>4, FieldsChanged
    <2>2. \A y : FieldCount(field, live, y) \in Nat
      BY <1>1, <1>4, FieldsChanged
    <2> QED BY <1>2, <2>1, <2>2
  <1>8. Balanced(stack', rc', field, live', stack, rc, field, live)
    <2> SUFFICES ASSUME NEW y \in Blocks
                 PROVE  (SlotCount(stack', y) + FieldCount(field, live', y))
                          - (SlotCount(stack, y) + FieldCount(field, live, y))
                        = (IF y \in live' THEN rc'[y] ELSE 0) - (IF y \in live THEN rc[y] ELSE 0)
      BY DEF Balanced
    <2>1. /\ FieldCount(field, live', y) = FieldCount(field, live, y)
          /\ FieldCount(field, live, y) \in Nat /\ rc[y] \in Nat
          /\ SlotCount(stack', y) = SlotCount(stack, y) - One(y, b) /\ SlotCount(stack, y) \in Nat
          /\ SlotCount(stack', y) \in Nat
      BY <1>1, <1>4, <1>7
    <2>2. CASE y = b
      <3>1. One(y, b) = 1
        BY <2>2 DEF One
      <3>2. (IF y \in live THEN rc[y] ELSE 0) = rc[y]
        BY <1>1, <2>2
      <3>3. (IF y \in live' THEN rc'[y] ELSE 0) = rc[y] - 1
        BY <1>1, <1>2, <1>5, <2>2
      <3> QED BY <2>1, <3>1, <3>2, <3>3
    <2>3. CASE y # b
      <3>1. One(y, b) = 0
        BY <2>3 DEF One
      <3>2. (IF y \in live' THEN rc'[y] ELSE 0) = (IF y \in live THEN rc[y] ELSE 0)
        BY <1>2, <1>5, <2>3
      <3>3. (IF y \in live THEN rc[y] ELSE 0) \in Nat
        BY <2>1
      <3> QED BY <2>1, <3>1, <3>2, <3>3
    <2> QED BY <2>2, <2>3
  <1>9. Exact(stack', rc', field, live', lost)
    <2>1. Exact(stack, rc, field, live, lost)
      BY <1>3 DEF Sound
    <2>2. stack' \in Seq(Frames) /\ rc' \in [Blocks -> Nat]
      BY <1>1, <1>5
    <2> QED BY <1>4, <1>6, <1>8, <2>1, <2>2, Balances
  <1>10. Doomed(stack', rc', field, live')
    <2>1. Doomed(stack, rc, field, live) /\ Dying(stack) \in SUBSET Blocks
      BY <1>3, <1>4, DyingAppended DEF Sound
    <2>2. ASSUME NEW y \in Dying(stack)
          PROVE  y \in live' /\ rc'[y] = 0 /\ field[y] = Nil
      <3>1. y \in live /\ rc[y] = 0 /\ field[y] = Nil /\ y \in Blocks \ {b}
        BY <1>1, <2>1 DEF Doomed
      <3> QED BY <1>2, <1>5, <3>1
    <2>3. ASSUME NEW y \in live', rc'[y] = 0
          PROVE  y \in Dying(stack)
      <3>1. y \in live /\ y \in Blocks
        BY <1>2, <1>4
      <3>2. y # b
        <4>1. rc[b] > 1 => rc'[b] # 0
          BY <1>5
        <4> QED BY <1>2, <2>3, <4>1
      <3>3. rc[y] = 0
        BY <1>5, <2>3, <3>1, <3>2
      <3> QED BY <2>1, <3>1, <3>3 DEF Doomed
    <2> QED BY <1>1, <2>2, <2>3 DEF Doomed
  <1>11. Acyclic(field, live')
    BY <1>2, <1>3 DEF Sound, Acyclic
  <1>12. vm' = vm /\ field' = field /\ raised' = raised /\ lost' = lost
    BY <1>2
  <1>13. TypeOK'
    BY <1>1, <1>4, <1>5, <1>6, <1>12 DEF TypeOK
  <1>14. /\ vm'.abort = "none" /\ ~vm'.FaultRaised /\ vm'.CleanupDepth = Depth(stack')
         /\ Fits(vm', stack') /\ Exact(stack', rc', field', live', lost')
         /\ Doomed(stack', rc', field', live') /\ Acyclic(field', live') /\ Reported(vm', raised')
    BY <1>1, <1>3, <1>9, <1>10, <1>11, <1>12 DEF Sound
  <1> QED BY <1>1, <1>13, <1>14, Settles

\* The last reference to a block with a field: its destructor is pushed.
PushesDtor ==
  /\ Releasing /\ Held # {} /\ rc' = [rc EXCEPT ![Given] = @ - 1]
  /\ UNCHANGED <<live, raised, lost>> /\ rc[Given] = 1 /\ field[Given] # Nil
  /\ vm' = pushFrame([vm EXCEPT !.CleanupDepth = @ + 1], "dtor")
  /\ stack' = Append(Append(Below, Released),
                     Frame("dtor", "exit", FALSE, Only(field[Given]), vm.SP, Given))
  /\ field' = [field EXCEPT ![Given] = Nil]

\* The destructor of a block fits on the stack, and the block dies with it.
LEMMA PushesDtorStep ==
  ASSUME IInv, PushesDtor
  PROVE  IInv'
  <1> DEFINE b == Given
             s == Append(Below, Released)
             c == field[b]
             v == [vm EXCEPT !.CleanupDepth = @ + 1]
             f == Frame("dtor", "exit", FALSE, Only(c), vm.SP, b)
  <1>1. /\ stack # <<>> /\ vm.abort = "none" /\ b \in live /\ b \in Blocks
        /\ b \notin Dying(stack) /\ s \in Seq(Frames) /\ Built(s) /\ s # <<>>
        /\ Depth(s) = vm.CleanupDepth /\ Dying(s) = Dying(stack) /\ Fits(vm, s)
        /\ \A y \in Blocks : /\ SlotCount(s, y) = SlotCount(stack, y) - One(y, b)
                             /\ SlotCount(stack, y) \in Nat /\ SlotCount(s, y) \in Nat
                             /\ One(y, b) \in Nat
    <2>1. Releasing /\ Held # {}
      BY DEF PushesDtor
    <2> QED BY <2>1, Releases
  <1>2. /\ rc \in [Blocks -> Nat] /\ field \in [Blocks -> Refs] /\ live \in SUBSET Blocks
        /\ stack \in Seq(Frames) /\ vm \in VMs /\ raised \in BOOLEAN /\ lost \in SUBSET Blocks
    BY DEF IInv, TypeOK
  <1>3. Sound /\ vm.SP \in Nat /\ vm.CleanupDepth \in Nat
    BY <1>1, Here
  <1>4. /\ Released.kind = Top.kind /\ Released.base = Top.base /\ Last(s) = Released
        /\ IF Small(Top) THEN vm.SP = Top.base + DTOR_EXTENT ELSE vm.SP <= L0
    <2>1. Releasing /\ Held # {}
      BY DEF PushesDtor
    <2> QED BY <1>1, <2>1, Here, Releases
  <1>5. /\ v \in VMs /\ v.CleanupDepth = vm.CleanupDepth + 1 /\ v.SP = vm.SP /\ v.abort = "none"
        /\ ~v.FaultRaised /\ v.Status = vm.Status /\ v.FaultMsg = vm.FaultMsg /\ v.Poll = vm.Poll
    <2>1. v = [vm EXCEPT !.CleanupDepth = vm.CleanupDepth + 1] /\ vm.CleanupDepth + 1 \in Nat
      BY <1>3
    <2>2. v \in VMs
      BY <1>2, <2>1, Zenon DEF VMs
    <2>3. /\ v.CleanupDepth = vm.CleanupDepth + 1 /\ v.SP = vm.SP /\ v.abort = vm.abort
          /\ v.FaultRaised = vm.FaultRaised /\ v.Status = vm.Status /\ v.FaultMsg = vm.FaultMsg
          /\ v.Poll = vm.Poll
      BY <1>2, <2>1 DEF VMs
    <2> QED BY <1>1, <1>3, <2>2, <2>3 DEF Sound
  <1>6. c \in Refs /\ c \in Blocks /\ Only(c) \in [Slots -> Refs] /\ b \in Refs
    <2>1. c \in Refs /\ c # Nil
      BY <1>1, <1>2 DEF PushesDtor
    <2> QED BY <1>1, <2>1, OnlyHolds, RefsAre DEF Refs
  <1>7. /\ f \in Frames /\ f.kind = "dtor" /\ f.mode = "exit" /\ f.table = FALSE
        /\ f.slots = Only(c) /\ f.base = vm.SP /\ f.freeOnPop = b
    <2> HIDE DEF b, c
    <2> QED BY <1>3, <1>6 DEF Frame, Frames
  <1>8. /\ vm' = pushFrame(v, "dtor") /\ stack' = Append(s, f) /\ field' = [field EXCEPT ![b] = Nil]
        /\ rc' = [rc EXCEPT ![b] = @ - 1] /\ live' = live /\ raised' = raised /\ lost' = lost
        /\ rc[b] = 1
    BY DEF PushesDtor
  <1> HIDE DEF f, v, s, c
  <1>9. stack' \in Seq(Frames) /\ stack' # <<>> /\ Last(stack') = f
    <2>1. s \in Seq(Frames) /\ f \in Frames
      BY <1>1, <1>7
    <2> QED BY <1>8, <2>1, Appended
  <1>10. /\ rc' \in [Blocks -> Nat] /\ rc'[b] = 0 /\ \A y \in Blocks \ {b} : rc'[y] = rc[y]
    BY <1>1, <1>2, <1>8
  <1>11. /\ field' \in [Blocks -> Refs] /\ field'[b] = Nil
         /\ \A y \in Blocks \ {b} : field'[y] = field[y]
    BY <1>1, <1>2, <1>8, RefsAre
  <1>12. /\ Room(v, "dtor") <=> vm.SP + DTOR_EXTENT <= StackSize
         /\ Room(v, "dtor") => Advanced(vm', v, "dtor")
         /\ ~Room(v, "dtor") => Faulted(vm', v)
    <2>1. Room(v, "dtor") <=> vm.SP + DTOR_EXTENT <= StackSize
      BY <1>3, <1>5, FrameSizes DEF Room
    <2> QED BY <1>5, <1>8, <2>1, FramePushed
  <1>13. /\ Cardinality(Dying(stack)) \in Nat
         /\ vm.SP + DTOR_EXTENT <= L0 + Deep(Cardinality(Dying(stack)) + 1)
    BY <1>1, DeepEnough
  <1>14. CASE ~Room(v, "dtor")
    <2>1. /\ vm' \in VMs /\ vm'.abort = "cleanup" /\ vm'.SP = vm.SP
          /\ vm'.CleanupDepth = vm.CleanupDepth + 1
      BY <1>3, <1>5, <1>12, <1>14 DEF Faulted, Same
    <2>2. TypeOK'
      BY <1>2, <1>8, <1>9, <1>10, <1>11, <2>1 DEF TypeOK
    <2>3. ASSUME StackRedZone \in Cascade .. StackSize - 1
          PROVE  FALSE
      <3>1. L0 + Deep(Cardinality(Dying(stack)) + 1) <= StackSize
        BY <1>1, <1>2, <2>3, ZoneIsDeep
      <3>2. Deep(Cardinality(Dying(stack)) + 1) \in Nat
        BY <1>13, Deeper
      <3> QED BY <1>3, <1>12, <1>13, <1>14, <3>1, <3>2, Sizes
    <2> QED BY <1>1, <1>3, <2>1, <2>2, <2>3, Stopped
  <1>15. CASE Room(v, "dtor")
    <2>1. /\ vm' \in VMs /\ vm'.abort = "none" /\ ~vm'.FaultRaised
          /\ vm'.SP = vm.SP + DTOR_EXTENT /\ vm'.CleanupDepth = vm.CleanupDepth + 1
          /\ Reported(vm', raised)
      BY <1>3, <1>5, <1>12, <1>15, FrameSizes DEF Advanced, Same, Reported, Sound
    <2>2. OnTop(s, f)
      <3>1. FrameOk(f)
        BY <1>1, <1>7, <1>12, <1>15, RefsAre DEF FrameOk, Small, User
      <3>2. Over(Last(s), f)
        BY <1>4, <1>7 DEF Over, Small
      <3> QED BY <1>1, <1>7, <1>13, <3>1, <3>2 DEF OnTop, Small
    <2>3. Built(stack')
      BY <1>1, <1>7, <1>8, <2>2, BuiltAppended
    <2>4. Depth(stack') = vm.CleanupDepth + 1
      <3>1. Ctx(f)
        BY <1>7 DEF Ctx
      <3> QED BY <1>1, <1>7, <1>8, <3>1, DepthAppended
    <2>5. Fits(vm', stack')
      BY <1>7, <1>9, <2>1 DEF Fits, Small
    <2>6. Dying(stack') = Dying(stack) \cup {b}
      BY <1>1, <1>7, <1>8, RefsAre, DyingAppended
    <2>7. \A y \in Blocks : /\ SlotCount(stack', y) = SlotCount(s, y) + One(y, c)
                            /\ One(y, c) \in Nat
      <3>1. \A y \in Blocks : SlotCount(stack', y) = SlotCount(s, y) + Holding(f.slots, y)
        <4>1. s \in Seq(Frames) /\ f \in Frames
          BY <1>1, <1>7
        <4> QED BY <1>8, <4>1, SlotsAppended
      <3>2. \A y \in Blocks : Holding(f.slots, y) = One(y, c)
        BY <1>6, <1>7, OnlyHolds
      <3> QED BY <3>1, <3>2 DEF One
    <2>8. \A y \in Blocks : /\ FieldCount(field', live, y) = FieldCount(field, live, y) - One(y, c)
                            /\ FieldCount(field, live, y) \in Nat
      <3>1. Sets(field', field, b, Nil)
        BY <1>8 DEF Sets
      <3>2. \A new : (b \in live /\ Sets(new, field, b, Nil)) =>
              \A y \in Blocks :
                FieldCount(new, live, y) = FieldCount(field, live, y) - One(y, field[b])
        BY <1>1, <1>2, FieldsChanged
      <3>3. \A y : FieldCount(field, live, y) \in Nat
        BY <1>1, <1>2, FieldsChanged
      <3> QED BY <1>1, <3>1, <3>2, <3>3 DEF c
    <2>9. Balanced(stack', rc', field', live, stack, rc, field, live)
      <3> SUFFICES ASSUME NEW y \in Blocks
                   PROVE  (SlotCount(stack', y) + FieldCount(field', live, y))
                            - (SlotCount(stack, y) + FieldCount(field, live, y))
                          = (IF y \in live THEN rc'[y] ELSE 0) - (IF y \in live THEN rc[y] ELSE 0)
        BY DEF Balanced
      <3>1. /\ FieldCount(field', live, y) = FieldCount(field, live, y) - One(y, c)
            /\ FieldCount(field, live, y) \in Nat /\ rc[y] \in Nat /\ One(y, c) \in Nat
            /\ SlotCount(stack', y) = SlotCount(stack, y) - One(y, b) + One(y, c)
            /\ SlotCount(stack, y) \in Nat /\ One(y, b) \in Nat
        BY <1>1, <1>2, <2>7, <2>8
      <3>2. (SlotCount(stack', y) + FieldCount(field', live, y))
              - (SlotCount(stack, y) + FieldCount(field, live, y)) = 0 - One(y, b)
        BY <3>1
      <3>3. CASE y = b
        <4>1. One(y, b) = 1
          BY <3>3 DEF One
        <4>2. (IF y \in live THEN rc[y] ELSE 0) = 1 /\ (IF y \in live THEN rc'[y] ELSE 0) = 0
          BY <1>1, <1>8, <1>10, <3>3
        <4> QED BY <3>2, <4>1, <4>2
      <3>4. CASE y # b
        <4>1. One(y, b) = 0
          BY <3>4 DEF One
        <4>2. (IF y \in live THEN rc'[y] ELSE 0) = (IF y \in live THEN rc[y] ELSE 0)
          BY <1>10, <3>4
        <4>3. (IF y \in live THEN rc[y] ELSE 0) \in Nat
          BY <3>1
        <4> QED BY <3>2, <4>1, <4>2, <4>3
      <3> QED BY <3>3, <3>4
    <2>10. Exact(stack', rc', field', live, lost)
      <3>1. Exact(stack, rc, field, live, lost)
        BY <1>3 DEF Sound
      <3>2. stack' \in Seq(Frames) /\ rc' \in [Blocks -> Nat] /\ field' \in [Blocks -> Refs]
        BY <1>9, <1>10, <1>11
      <3> QED BY <1>2, <2>9, <3>1, <3>2, Balances
    <2>11. Doomed(stack', rc', field', live)
      <3>1. Doomed(stack, rc, field, live) /\ Dying(stack) \in SUBSET Blocks
        BY <1>2, <1>3, DyingAppended DEF Sound
      <3>2. ASSUME NEW y \in Dying(stack')
            PROVE  y \in live /\ rc'[y] = 0 /\ field'[y] = Nil
        BY <1>1, <1>10, <1>11, <2>6, <3>1 DEF Doomed
      <3>3. ASSUME NEW y \in live, rc'[y] = 0
            PROVE  y \in Dying(stack')
        BY <1>2, <1>10, <2>6, <3>1, <3>3 DEF Doomed
      <3> QED BY <3>2, <3>3 DEF Doomed
    <2>12. Acyclic(field', live)
      <3>1. PICK rank \in Ranks : \A d \in live : field[d] # Nil => rank[field[d]] < rank[d]
        BY <1>3 DEF Sound, Acyclic
      <3>2. \A d \in live : field'[d] # Nil => rank[field'[d]] < rank[d]
        BY <1>2, <1>11, <3>1
      <3> QED BY <3>1, <3>2 DEF Acyclic
    <2>13. TypeOK'
      BY <1>2, <1>8, <1>9, <1>10, <1>11, <2>1 DEF TypeOK
    <2>14. /\ vm'.CleanupDepth = Depth(stack') /\ Exact(stack', rc', field', live', lost')
           /\ Doomed(stack', rc', field', live') /\ Acyclic(field', live') /\ Reported(vm', raised')
      BY <1>8, <2>1, <2>4, <2>10, <2>11, <2>12
    <2> QED BY <2>1, <2>3, <2>5, <2>13, <2>14, Settles
  <1> QED BY <1>14, <1>15

\* BC_REFDEC of the slot that is released next.
LEMMA RefDecStep ==
  ASSUME IInv, RefDec
  PROVE  IInv'
  <1>1. /\ Releasing /\ Held # {} /\ rc' = [rc EXCEPT ![Given] = @ - 1]
        /\ UNCHANGED <<raised, lost>>
        /\ \/ /\ rc[Given] > 1 /\ stack' = Append(Below, Released)
              /\ UNCHANGED <<vm, field, live>>
           \/ /\ rc[Given] = 1 /\ field[Given] = Nil /\ live' = live \ {Given}
              /\ stack' = Append(Below, Released)
              /\ UNCHANGED <<vm, field>>
           \/ /\ rc[Given] = 1 /\ field[Given] # Nil
              /\ vm' = pushFrame([vm EXCEPT !.CleanupDepth = @ + 1], "dtor")
              /\ stack' = Append(Append(Below, Released),
                                 Frame("dtor", "exit", FALSE, Only(field[Given]), vm.SP, Given))
              /\ field' = [field EXCEPT ![Given] = Nil]
              /\ UNCHANGED live
    BY DEF RefDec, Given, Released
  <1> QED BY <1>1, GivesUpStep, PushesDtorStep DEF GivesUp, PushesDtor

\* A slot is released by a call of the release helper.
LEMMA HelperReleaseStep ==
  ASSUME IInv, HelperRelease
  PROVE  IInv'
  <1> DEFINE s == Append(Below, Released)
             f == Frame("helper", "exit", FALSE, Only(Given), vm.SP, Nil)
             pushed == pushFrame(vm, "helper")
  <1>1. /\ HelperCalls /\ Releasing /\ Held # {} /\ Top.kind # "helper"
        /\ vm' = IF pushed.FaultRaised THEN consumeFaultToPad(pushed, FALSE) ELSE pushed
        /\ stack' = Append(s, f) /\ raised' = (raised \/ pushed.FaultRaised)
        /\ UNCHANGED <<heap, lost>>
    BY DEF HelperRelease, Given, Released
  <1>2. /\ stack # <<>> /\ vm.abort = "none" /\ Given \in Blocks /\ Given \notin Dying(stack)
        /\ s \in Seq(Frames) /\ Built(s) /\ s # <<>> /\ Depth(s) = vm.CleanupDepth
        /\ Dying(s) = Dying(stack) /\ Released.kind = Top.kind /\ Released.base = Top.base
        /\ Last(s) = Released
        /\ \A y \in Blocks : /\ SlotCount(s, y) = SlotCount(stack, y) - One(y, Given)
                             /\ SlotCount(stack, y) \in Nat /\ SlotCount(s, y) \in Nat
                             /\ One(y, Given) \in Nat
    BY <1>1, Releases
  <1>3. /\ Sound /\ vm \in VMs /\ vm.SP \in Nat /\ vm.CleanupDepth \in Nat
        /\ IF Small(Top) THEN vm.SP = Top.base + DTOR_EXTENT ELSE vm.SP <= L0
    BY <1>2, Here
  <1>4. /\ rc \in [Blocks -> Nat] /\ field \in [Blocks -> Refs] /\ live \in SUBSET Blocks
        /\ stack \in Seq(Frames) /\ raised \in BOOLEAN /\ lost \in SUBSET Blocks
    BY DEF IInv, TypeOK
  <1>5. Given \in Refs /\ Nil \in Refs /\ Only(Given) \in [Slots -> Refs]
    BY <1>2, RefsAre, OnlyHolds
  <1>6. /\ f \in Frames /\ f.kind = "helper" /\ f.mode = "exit" /\ f.table = FALSE
        /\ f.slots = Only(Given) /\ f.base = vm.SP /\ f.freeOnPop = Nil
    BY <1>3, <1>5 DEF Frame, Frames
  <1>7. /\ Room(vm, "helper") <=> vm.SP + DTOR_EXTENT <=
             IF vm.CleanupDepth = 0 THEN L0 ELSE StackSize
        /\ Room(vm, "helper") => Advanced(pushed, vm, "helper")
        /\ ~Room(vm, "helper") => Faulted(pushed, vm)
    <2>1. ~vm.FaultRaised
      BY <1>3 DEF Sound
    <2>2. Room(vm, "helper") <=> vm.SP + DTOR_EXTENT <=
             IF vm.CleanupDepth = 0 THEN L0 ELSE StackSize
      BY FrameSizes DEF Room
    <2> QED BY <1>2, <1>3, <2>1, <2>2, FramePushed
  <1> HIDE DEF s, f, pushed
  <1>8. stack' \in Seq(Frames) /\ stack' # <<>> /\ Last(stack') = f
    BY <1>1, <1>2, <1>6, Appended
  <1>9. /\ Cardinality(Dying(stack)) \in Nat
        /\ vm.SP <= L0 + Deep(Cardinality(Dying(stack)))
        /\ vm.SP + DTOR_EXTENT <= L0 + Deep(Cardinality(Dying(stack)) + 1)
    BY <1>1, <1>2, DeepEnough
  <1>10. UNCHANGED heap /\ lost' = lost /\ rc' = rc /\ field' = field /\ live' = live
    BY <1>1 DEF heap
  <1>11. CASE Room(vm, "helper")
    <2>1. Advanced(pushed, vm, "helper")
      BY <1>7, <1>11
    <2>2. vm' = pushed /\ raised' = raised /\ ~pushed.FaultRaised
      BY <1>1, <1>4, <2>1 DEF Advanced, VMs
    <2>3. /\ vm' \in VMs /\ vm'.abort = "none" /\ ~vm'.FaultRaised
          /\ vm'.SP = vm.SP + DTOR_EXTENT /\ vm'.CleanupDepth = vm.CleanupDepth
          /\ Reported(vm', raised')
      BY <1>3, <2>1, <2>2, FrameSizes DEF Advanced, Same, Reported, Sound
    <2>4. OnTop(s, f)
      <3>1. vm.SP + DTOR_EXTENT <= StackSize
        <4>1. CASE vm.CleanupDepth = 0
          <5>1. vm.SP + DTOR_EXTENT <= L0
            BY <1>7, <1>11, <4>1
          <5> QED BY <1>3, <5>1, Sizes
        <4>2. CASE vm.CleanupDepth # 0
          BY <1>7, <1>11, <4>2
        <4> QED BY <4>1, <4>2
      <3>2. vm.CleanupDepth = 0 => vm.SP + DTOR_EXTENT <= L0
        BY <1>7, <1>11
      <3>3. FrameOk(f)
        BY <1>1, <1>6, <3>1 DEF FrameOk, Small, User
      <3>4. Over(Last(s), f)
        BY <1>2, <1>3, <1>6 DEF Over, Small
      <3>5. vm.SP + DTOR_EXTENT <= L0 + Deep(Cardinality(Dying(s))) + DTOR_EXTENT
        <4>1. Deep(Cardinality(Dying(stack))) \in Nat
          BY <1>9, Deeper
        <4> QED BY <1>2, <1>3, <1>9, <4>1, Sizes
      <3> QED BY <1>2, <1>6, <3>2, <3>3, <3>4, <3>5 DEF OnTop, Small
    <2>5. Built(stack')
      BY <1>1, <1>2, <1>6, <2>4, BuiltAppended
    <2>6. Depth(stack') = vm.CleanupDepth
      <3>1. ~Ctx(f)
        BY <1>6 DEF Ctx
      <3> QED BY <1>1, <1>2, <1>6, <3>1, DepthAppended
    <2>7. Fits(vm', stack')
      BY <1>6, <1>8, <2>3 DEF Fits, Small
    <2>8. Kept(stack', stack, lost, lost)
      <3>1. s \in Seq(Frames) /\ f \in Frames
        BY <1>2, <1>6
      <3>2. Dying(stack') = Dying(stack)
        BY <1>1, <1>2, <1>6, <3>1, DyingAppended
      <3>3. \A y \in Blocks : SlotCount(stack', y) = SlotCount(s, y) + Holding(f.slots, y)
        BY <1>1, <3>1, SlotsAppended
      <3>4. \A y \in Blocks : Holding(f.slots, y) = One(y, Given)
        BY <1>5, <1>6, OnlyHolds
      <3>5. \A y \in Blocks : /\ SlotCount(stack', y) = SlotCount(stack, y)
                              /\ SlotCount(stack, y) \in Nat
        BY <1>2, <3>3, <3>4
      <3> QED BY <3>2, <3>5 DEF Kept
    <2>9. /\ raised' \in BOOLEAN /\ lost' \in SUBSET Blocks /\ vm'.CleanupDepth = Depth(stack')
          /\ Kept(stack', stack, lost', lost)
      BY <1>4, <1>10, <2>2, <2>3, <2>6, <2>8
    <2> QED BY <1>2, <1>8, <1>10, <2>3, <2>5, <2>7, <2>9, Arrives
  <1>12. CASE ~Room(vm, "helper")
    <2>1. Faulted(pushed, vm)
      BY <1>7, <1>12
    <2>2. pushed \in VMs /\ pushed.FaultRaised \in BOOLEAN
      BY <2>1 DEF Faulted, VMs
    <2>3. raised' \in BOOLEAN
      BY <1>1, <1>4, <2>2
    <2>4. CASE vm.CleanupDepth = 0
      <3>1. pushed.FaultRaised /\ pushed.abort = "none" /\ pushed.SP = vm.SP /\ pushed.CleanupDepth = 0
        BY <2>1, <2>4 DEF Faulted, Same
      <3>2. vm' = consumeFaultToPad(pushed, FALSE)
        BY <1>1, <3>1
      <3>3. PICK no \in BOOLEAN : ~no /\ vm' = consumeFaultToPad(pushed, no)
        BY <3>2
      <3>4. Consumed(vm', pushed, no)
        BY <2>2, <3>3, FaultConsumed
      <3>5. /\ vm' \in VMs /\ vm'.SP = vm.SP /\ vm'.CleanupDepth = 1 /\ vm'.abort = "missingPad"
        BY <3>1, <3>3, <3>4 DEF Consumed
      <3>6. TypeOK'
        BY <1>4, <1>8, <1>10, <2>3, <3>5 DEF TypeOK
      <3> QED BY <1>2, <3>5, <3>6, Stopped
    <2>5. CASE vm.CleanupDepth # 0
      <3>1. ~pushed.FaultRaised /\ pushed.abort = "cleanup" /\ pushed.SP = vm.SP
            /\ pushed.CleanupDepth = vm.CleanupDepth
        BY <2>1, <2>5 DEF Faulted, Same
      <3>2. /\ vm' \in VMs /\ vm'.SP = vm.SP /\ vm'.CleanupDepth # 0 /\ vm'.abort = "cleanup"
        BY <1>1, <2>2, <2>5, <3>1
      <3>3. TypeOK'
        BY <1>4, <1>8, <1>10, <2>3, <3>2 DEF TypeOK
      <3>4. ASSUME StackRedZone \in Cascade .. StackSize - 1
            PROVE  FALSE
        <4>1. L0 + Deep(Cardinality(Dying(stack)) + 1) <= StackSize
          BY <1>2, <1>4, <3>4, ZoneIsDeep
        <4>2. Deep(Cardinality(Dying(stack)) + 1) \in Nat
          BY <1>9, Deeper
        <4>3. vm.SP + DTOR_EXTENT <= StackSize
          BY <1>3, <1>9, <4>1, <4>2, Sizes
        <4> QED BY <1>7, <1>12, <2>5, <4>3
      <3> QED BY <1>2, <3>2, <3>3, <3>4, Stopped
    <2> QED BY <2>4, <2>5
  <1> QED BY <1>11, <1>12

---------------------------------------------------------------------------
(* The theorems.                                                           *)

\* The invariant holds of the VM as it is made.
LEMMA Start ==
  ASSUME Init
  PROVE  IInv
  <1>1. PICK armed \in BOOLEAN :
          vm = [SP |-> 0, Status |-> "CONTINUE", FaultMsg |-> FALSE, FaultRaised |-> FALSE,
                CleanupDepth |-> 0, Poll |-> armed, abort |-> "none"]
    BY DEF Init
  <1>2. /\ stack = <<>> /\ rc = [b \in Blocks |-> 0] /\ field = [b \in Blocks |-> Nil]
        /\ live = {} /\ raised = FALSE /\ lost = {}
    BY DEF Init
  <1>3. TypeOK
    <2>1. <<>> \in Seq(Frames)
      OBVIOUS
    <2>2. vm \in VMs
      BY <1>1 DEF VMs
    <2> QED BY <1>2, <2>1, <2>2, RefsAre DEF TypeOK
  <1>4. InBounds(vm)
    BY <1>1, Sizes DEF InBounds
  <1>5. RedZoneSuffices
    BY <1>1 DEF RedZoneSuffices
  <1>6. Sound
    <2>1. Built(stack) /\ Depth(stack) = 0 /\ Dying(stack) = {}
      BY <1>2, BuiltAppended, DepthAppended, DyingAppended
    <2>2. Exact(stack, rc, field, live, lost)
      <3>1. \A b : SlotCount(stack, b) = 0
        BY <1>2, SlotsAppended
      <3>2. \A b : FieldCount(field, live, b) = 0
        <4> TAKE b
        <4>1. {c \in live : field[c] = b} = {}
          BY <1>2
        <4> QED BY <4>1, FS_EmptySet DEF FieldCount
      <3> QED BY <1>2, <3>1, <3>2 DEF Exact
    <2>3. Doomed(stack, rc, field, live)
      BY <1>2, <2>1 DEF Doomed
    <2>4. Acyclic(field, live)
      <3>1. [b \in Blocks |-> 0] \in Ranks
        BY DEF Ranks
      <3> QED BY <1>2, <3>1 DEF Acyclic
    <2>5. Fits(vm, stack) /\ Reported(vm, raised)
      BY <1>1, <1>2 DEF Fits, Reported
    <2> QED BY <1>1, <2>1, <2>2, <2>3, <2>4, <2>5 DEF Sound
  <1> QED BY <1>3, <1>4, <1>5, <1>6 DEF IInv

\* Every step of the VM keeps the invariant.
LEMMA Steps ==
  ASSUME IInv, [Next]_vars
  PROVE  IInv'
  <1>1. CASE HostCall
    BY <1>1, HostCallStep
  <1>2. CASE Body
    <2>1. ASSUME NEW s \in Slots, NEW b \in Blocks, NEW f \in Refs, Alloc(s, b, f)
          PROVE  IInv'
      BY <2>1, AllocStep
    <2>2. ASSUME NEW s \in Slots, NEW t \in Slots, Copy(s, t)
          PROVE  IInv'
      BY <2>2, CopyStep
    <2> QED BY <1>2, <2>1, <2>2, GrowStep, StatementEndStep, BackEdgeStep, GuardFaultStep,
               DirectCallStep, ValueCallStep, CallNativeStep, BeginExitStep DEF Body
  <1>3. CASE Callback
    BY <1>3, CallbackStep
  <1>4. CASE Unwinding
    BY <1>4, RefDecStep, HelperReleaseStep, ReturnStep, UnwindReturnStep, NativeReturnStep
       DEF Unwinding
  <1>5. CASE UNCHANGED vars
    <2>1. /\ vm' = vm /\ stack' = stack /\ rc' = rc /\ field' = field /\ live' = live
          /\ raised' = raised /\ lost' = lost
      BY <1>5 DEF vars
    <2> QED BY <2>1 DEF IInv, TypeOK, RedZoneSuffices, Sound
  <1> QED BY <1>1, <1>2, <1>3, <1>4, <1>5 DEF Next

\* Whatever pads, destructors, compiled callees, callbacks, polls and moved arguments
\* do, and in whatever order, the stack stays built as OnTop says, every cleanup
\* context is counted, every block has as many holders as its refcount says, and a
\* fault is reported.
THEOREM Invariance == Spec => []IInv
  <1>1. Init => IInv
    BY Start
  <1>2. IInv /\ [Next]_vars => IInv'
    BY Steps
  <1> QED BY <1>1, <1>2, PTL DEF Spec

\* CleanupDepth is always the number of pads being run and of destructor frames
\* (vm.bni:348-358).
THEOREM DepthIsExact == Spec => []CleanupDepthExact
  <1>1. IInv => CleanupDepthExact
    BY DEF IInv, Sound, Depth, Ctx, CleanupDepthExact
  <1> QED BY <1>1, Invariance, PTL

\* No block is ever released twice, used after its release or leaked, a block lost
\* with an abandoned frame apart (vm_fault.bn:69-79).
THEOREM CountsAreExact == Spec => []RefcountsExact
  <1>1. IInv => RefcountsExact
    <2>1. \A b : Holders(b) = SlotCount(stack, b) + FieldCount(field, live, b)
      BY DEF Holders, SlotCount, FieldCount
    <2> QED BY <2>1 DEF IInv, Sound, Exact, RefcountsExact
  <1> QED BY <1>1, Invariance, PTL

\* Every variable keeps its type, and no frame or temporary reaches past the VM stack
\* or, outside a cleanup, into the red zone (vm.bn:177-201).
THEOREM StackIsSound == Spec => []StackSound
  <1>1. IInv => StackSound
    BY Sizes DEF IInv, InBounds, StackSound, StackBounded
  <1> QED BY <1>1, Invariance, PTL

\* A red zone that covers the deepest cascade of destructors and helpers is enough for
\* every cleanup, for any number of blocks (vm.bni:228-234).
THEOREM ZoneSuffices == Spec => []RedZoneSuffices
  <1>1. IInv => RedZoneSuffices
    BY DEF IInv
  <1> QED BY <1>1, Invariance, PTL

\* When a host call has returned nothing is left allocated on its behalf, the VM stack
\* is empty, no fault signal or cleanup context is open, and the host sees a fault
\* exactly when one was raised (vm_fault.bn:60-62, 107-114).
THEOREM HostSeesItAll == Spec => []HostReturnExact
  <1>1. ASSUME IInv, stack = <<>>, vm.abort = "none", lost = {}, live # {}
        PROVE  FALSE
    <2>1. Sound /\ rc \in [Blocks -> Nat] /\ live \in SUBSET Blocks /\ field \in [Blocks -> Refs]
      BY <1>1 DEF IInv, TypeOK
    <2>2. PICK rank \in Ranks : \A c \in live : field[c] # Nil => rank[field[c]] < rank[c]
      BY <2>1 DEF Sound, Acyclic
    <2>3. PICK low : low = [c \in live |-> 0 - rank[c]]
      OBVIOUS
    <2>4. low \in [live -> Int] /\ \A c \in live : low[c] = 0 - rank[c] /\ rank[c] \in Nat
      BY <2>1, <2>2, <2>3 DEF Ranks
    <2>5. IsFiniteSet(live)
      BY <2>1, NilAssumption, FS_Subset
    <2>6. PICK m \in live : \A n \in live : low[m] <= low[n]
      BY <1>1, <2>4, <2>5, LowestRank
    <2>7. m \in Blocks /\ rc[m] \in Nat /\ rc[m] # 0
      <3>1. Dying(stack) = {}
        BY <1>1, DyingAppended
      <3> QED BY <2>1, <3>1 DEF Sound, Doomed
    <2>8. FieldCount(field, live, m) = rc[m]
      <3>1. SlotCount(stack, m) = 0
        BY <1>1, SlotsAppended
      <3>2. SlotCount(stack, m) + FieldCount(field, live, m) = rc[m]
        BY <1>1, <2>1, <2>7 DEF Sound, Exact
      <3>3. FieldCount(field, live, m) \in Nat
        BY <2>1, <2>7, FieldsChanged
      <3> QED BY <3>1, <3>2, <3>3
    <2>9. \E c \in live : field[c] = m
      <3>1. SUFFICES ASSUME {c \in live : field[c] = m} = {}
                     PROVE  FALSE
        OBVIOUS
      <3>2. FieldCount(field, live, m) = 0
        BY <3>1, FS_EmptySet DEF FieldCount
      <3> QED BY <2>7, <2>8, <3>2
    <2>10. PICK c \in live : field[c] = m
      BY <2>9
    <2>11. rank[m] < rank[c]
      BY <2>2, <2>7, <2>10, RefsAre
    <2>12. low[m] <= low[c] /\ low[m] = 0 - rank[m] /\ low[c] = 0 - rank[c]
           /\ rank[m] \in Nat /\ rank[c] \in Nat
      BY <2>4, <2>6
    <2> QED BY <2>11, <2>12
  <1>2. ASSUME IInv, stack = <<>>, vm.abort = "none"
        PROVE  /\ vm.SP = 0 /\ ~vm.FaultRaised /\ vm.CleanupDepth = 0
               /\ ~vm.Poll => (raised <=> vm.Status = "FAULTED") /\ (raised <=> vm.FaultMsg)
    <2>1. Sound
      BY <1>2 DEF IInv
    <2>2. Depth(stack) = 0
      BY <1>2, DepthAppended
    <2> QED BY <1>2, <2>1, <2>2 DEF Sound, Fits, Reported
  <1>3. IInv => HostReturnExact
    BY <1>1, <1>2 DEF HostReturnExact
  <1> QED BY <1>3, Invariance, PTL
==============================================================================
