---------------------------- MODULE TagCoalesce ----------------------------
(***************************************************************************)
(* The bare-metal Raw allocator of pkg/builtins/rt (rt_baremetal.bn): one  *)
(* static arena tiled by blocks [header][payload][footer], segregated free *)
(* lists, splitting and boundary-tag coalescing.                           *)
(*                                                                         *)
(* The unit is the 8-byte word, the allocator's alignment: header and      *)
(* footer are one word each, an address is a word index, and a word is the *)
(* pair of 4-byte ints it holds on ILP32 ("lo" and "hi").  A tag is the lo *)
(* half of a word; a free block's next and prev links are the lo and hi    *)
(* halves of its first payload word.  Nothing clears a word that changes   *)
(* role, so stale tags, stale links and the callers' data stay in memory   *)
(* exactly as they do in the arena.                                        *)
(*                                                                         *)
(* The allocator is single-threaded: between two calls the callers write   *)
(* their payloads, during a call nothing else runs.  The first-fit scan is *)
(* one step per list node, every other path of a call is one step.         *)
(***************************************************************************)
EXTENDS Integers, FiniteSets

CONSTANTS
  ARENA_WORDS,  \* ARENA_BYTES / 8
  SMALL_MAX,    \* largest payload, in words, of the small-class lists
  FREE_BIT,     \* the flag of a tag word, above every size
  ArenaBase,    \* address of the arena: never 0, which is the null link
  RequestBytes, \* the sizes callers ask for, in bytes
  UserWords     \* the words callers store in their payloads

PREFIX == 1
FOOTER == 1
MIN_SPLIT_EXTENT == 3

ASSUME ConstantsAssumption ==
  /\ ARENA_WORDS \in Nat \ {0} /\ SMALL_MAX \in Nat
  /\ FREE_BIT \in Nat /\ FREE_BIT > ARENA_WORDS
  /\ ArenaBase \in Nat \ {0}
  /\ RequestBytes \subseteq Int
  /\ UserWords \subseteq Nat

VARIABLES
  heap,        \* [lo, hi: the two halves of every word, head: list heads]
  frontier,    \* next never-carved address, 0 before the first carve
  liveBlocks,  \* the runtime's count of blocks handed out
  pc,          \* "idle", inside RawAlloc "pop" or "scan", or how the run aborted
  cursor,      \* RawAlloc's b: the small block to pop, firstFitLarge's b
  req,         \* the request being served
  blocks,      \* auxiliary: the bases the arena is tiled with
  live         \* auxiliary: what callers hold, payload address -> words asked

vars == <<heap, frontier, liveBlocks, pc, cursor, req, blocks, live>>

Addr    == ArenaBase .. ArenaBase + ARENA_WORDS - 1
Link    == Addr \cup {0}
Classes == -1 .. SMALL_MAX - 1     \* -1 is largeHead, ci is smallHeads[ci]
NoReq   == [need |-> 0, zero |-> FALSE]

----------------------------------------------------------------------------
(* Boundary tags                                                           *)

\* size | FREE_BIT and its two masks; sizes are below FREE_BIT
TagWord(size, free) == IF free THEN size + FREE_BIT ELSE size
FreeBitOf(w)        == w >= FREE_BIT
SizeOf(w)           == IF FreeBitOf(w) THEN w - FREE_BIT ELSE w

writeTags(h, base, size, free) ==
  [h EXCEPT !.lo = [@ EXCEPT ![base] = TagWord(size, free),
                             ![base + PREFIX + size] = TagWord(size, free)]]

sizeAt(h, base) == SizeOf(h.lo[base])
isFree(h, base) == FreeBitOf(h.lo[base])
payloadPtr(base)  == base + PREFIX
blockBaseOf(ptr)  == ptr - PREFIX
EndOf(h, base)  == base + PREFIX + sizeAt(h, base) + FOOTER

----------------------------------------------------------------------------
(* Doubly-linked free lists, the links overlaid on the first payload word  *)

getNext(h, base) == h.lo[base + PREFIX]
getPrev(h, base) == h.hi[base + PREFIX]

classIndexOf(size) == IF size <= SMALL_MAX THEN size - 1 ELSE -1
ClassOf(h, base)   == classIndexOf(sizeAt(h, base))

\* Mutant: the block inserted becomes the whole list
insertFreeAlone(h, base) ==
  LET ci == ClassOf(h, base)
  IN  [lo   |-> [h.lo EXCEPT ![base + PREFIX] = 0],
       hi   |-> [h.hi EXCEPT ![base + PREFIX] = 0],
       head |-> [h.head EXCEPT ![ci] = base]]

insertFree(h, base) ==
  LET ci == ClassOf(h, base)
      hd == h.head[ci]
      hi == [h.hi EXCEPT ![base + PREFIX] = 0]
  IN  [lo   |-> [h.lo EXCEPT ![base + PREFIX] = hd],
       hi   |-> IF hd = 0 THEN hi ELSE [hi EXCEPT ![hd + PREFIX] = base],
       head |-> [h.head EXCEPT ![ci] = base]]

unlinkFree(h, base) ==
  LET ci == ClassOf(h, base)
      pv == getPrev(h, base)
      nx == getNext(h, base)
  IN  [lo   |-> IF pv = 0 THEN h.lo ELSE [h.lo EXCEPT ![pv + PREFIX] = nx],
       hi   |-> IF nx = 0 THEN h.hi ELSE [h.hi EXCEPT ![nx + PREFIX] = pv],
       head |-> IF pv = 0 THEN [h.head EXCEPT ![ci] = nx] ELSE h.head]

----------------------------------------------------------------------------
(* Serving a request                                                       *)

alignUp(bytes) == (bytes + 7) \div 8

FillWords(h, ptr, n, v) ==
  [lo   |-> [a \in Addr |-> IF a \in ptr .. ptr + n - 1 THEN v ELSE h.lo[a]],
   hi   |-> [a \in Addr |-> IF a \in ptr .. ptr + n - 1 THEN v ELSE h.hi[a]],
   head |-> h.head]

\* Mutant: the last word is left as it was
MemZeroShort(h, ptr, n) == FillWords(h, ptr, n - 1, 0)

\* MemZero over the payload words a RawAllocZero caller asked for
MemZero(h, ptr, n) == FillWords(h, ptr, n, 0)

\* The call returns base's payload, zeroed first when it is RawAllocZero's
Return(h, base, r) ==
  /\ heap' = IF r.zero THEN MemZero(h, payloadPtr(base), r.need) ELSE h
  /\ live' = [p \in DOMAIN live \cup {payloadPtr(base)} |->
                IF p = payloadPtr(base) THEN r.need ELSE live[p]]
  /\ pc' = "idle" /\ cursor' = 0 /\ req' = NoReq

\* size <= 0, or more than the arena holds
RejectAlloc(bytes) ==
  /\ pc = "idle"
  /\ bytes <= 0 \/ bytes > 8 * ARENA_WORDS
  /\ pc' = "rejected"
  /\ UNCHANGED <<heap, frontier, liveBlocks, cursor, req, blocks, live>>

SmallHit(need) == need <= SMALL_MAX /\ heap.head[need - 1] # 0

\* An accepted call is counted, then looks at the exact small class, and
\* when that is no class or empty at the head of the large list
RawAlloc(bytes, zero) ==
  LET need == alignUp(bytes)
  IN  /\ pc = "idle"
      /\ bytes > 0 /\ bytes <= 8 * ARENA_WORDS
      /\ liveBlocks' = liveBlocks + 1
      /\ req' = [need |-> need, zero |-> zero]
      /\ pc' = IF SmallHit(need) THEN "pop" ELSE "scan"
      /\ cursor' = IF SmallHit(need) THEN heap.head[need - 1] ELSE heap.head[-1]
      /\ UNCHANGED <<heap, frontier, blocks, live>>

\* Mutant: the popped block keeps its free bit
PopClassStillFree ==
  /\ pc = "pop"
  /\ Return(unlinkFree(heap, cursor), cursor, req)
  /\ UNCHANGED <<frontier, liveBlocks, blocks>>

\* Pop the class: its blocks have exactly the size asked for
PopClass ==
  /\ pc = "pop"
  /\ Return(writeTags(unlinkFree(heap, cursor), cursor, req.need, FALSE),
            cursor, req)
  /\ UNCHANGED <<frontier, liveBlocks, blocks>>

\* Mutant: an exact fit is passed over
FitsWithSlack == sizeAt(heap, cursor) > req.need

Fits == sizeAt(heap, cursor) >= req.need

\* Mutant: the scan starts over at the head
ScanNextRestarts ==
  /\ pc = "scan" /\ cursor # 0
  /\ ~Fits
  /\ cursor' = heap.head[-1]
  /\ UNCHANGED <<heap, frontier, liveBlocks, pc, req, blocks, live>>

ScanNext ==
  /\ pc = "scan" /\ cursor # 0
  /\ ~Fits
  /\ cursor' = getNext(heap, cursor)
  /\ UNCHANGED <<heap, frontier, liveBlocks, pc, req, blocks, live>>

Splits(have, need) == have >= need + MIN_SPLIT_EXTENT
RemBase(b, need)   == b + PREFIX + need + FOOTER
RemSize(have, need) == have - need - PREFIX - FOOTER

splitServed(h, b, have, need) ==
  IF Splits(have, need)
  THEN insertFree(writeTags(writeTags(h, b, need, FALSE),
                            RemBase(b, need), RemSize(have, need), TRUE),
                  RemBase(b, need))
  ELSE writeTags(h, b, have, FALSE)

ScanHit ==
  LET have == sizeAt(heap, cursor)
  IN  /\ pc = "scan" /\ cursor # 0
      /\ Fits
      /\ Return(splitServed(unlinkFree(heap, cursor), cursor, have, req.need),
                cursor, req)
      /\ blocks' = IF Splits(have, req.need)
                   THEN blocks \cup {RemBase(cursor, req.need)} ELSE blocks
      /\ UNCHANGED <<frontier, liveBlocks>>

\* carve's lazy initialization of the frontier
CarveBase == IF frontier = 0 THEN ArenaBase ELSE frontier
Exhausted(need) ==
  need > ARENA_WORDS - (CarveBase - ArenaBase) - PREFIX - FOOTER

Carve ==
  /\ pc = "scan" /\ cursor = 0
  /\ ~Exhausted(req.need)
  /\ frontier' = CarveBase + PREFIX + req.need + FOOTER
  /\ Return(writeTags(heap, CarveBase, req.need, FALSE), CarveBase, req)
  /\ blocks' = blocks \cup {CarveBase}
  /\ UNCHANGED liveBlocks

CarveExhausted ==
  /\ pc = "scan" /\ cursor = 0
  /\ Exhausted(req.need)
  /\ frontier' = CarveBase
  /\ pc' = "exhausted"
  /\ UNCHANGED <<heap, liveBlocks, cursor, req, blocks, live>>

----------------------------------------------------------------------------
(* RawFree.  RawFree(nil) changes nothing.  A caller frees what it holds,  *)
(* or frees again a block that is still on a free list.                    *)

\* Mutant: only a large successor is joined
JoinsNextLarge(base) ==
  /\ EndOf(heap, base) < frontier /\ isFree(heap, EndOf(heap, base))
  /\ ClassOf(heap, EndOf(heap, base)) = -1

JoinsNext(base) ==
  EndOf(heap, base) < frontier /\ isFree(heap, EndOf(heap, base))

JoinsPrev(h, base) == base > ArenaBase /\ FreeBitOf(h.lo[base - FOOTER])

PrevBase(h, base) == base - FOOTER - SizeOf(h.lo[base - FOOTER]) - PREFIX

RawFree(ptr) ==
  LET base  == blockBaseOf(ptr)
      next  == EndOf(heap, base)
      h1    == IF JoinsNext(base) THEN unlinkFree(heap, next) ELSE heap
      size1 == IF JoinsNext(base)
               THEN sizeAt(heap, base) + FOOTER + PREFIX + sizeAt(heap, next)
               ELSE sizeAt(heap, base)
      prev  == PrevBase(h1, base)
      h2    == IF JoinsPrev(h1, base) THEN unlinkFree(h1, prev) ELSE h1
      size2 == IF JoinsPrev(h1, base)
               THEN SizeOf(h1.lo[base - FOOTER]) + PREFIX + FOOTER + size1
               ELSE size1
      base2 == IF JoinsPrev(h1, base) THEN prev ELSE base
  IN  /\ pc = "idle"
      /\ ptr \in DOMAIN live
      /\ ~isFree(heap, base)
      /\ liveBlocks' = liveBlocks - 1
      /\ heap' = insertFree(writeTags(h2, base2, size2, TRUE), base2)
      /\ live' = [p \in DOMAIN live \ {ptr} |-> live[p]]
      /\ blocks' = blocks \ ((IF JoinsNext(base) THEN {next} ELSE {})
                             \cup (IF JoinsPrev(h1, base) THEN {base} ELSE {}))
      /\ UNCHANGED <<frontier, pc, cursor, req>>

\* The trap of the header's free bit
FreeTrapped(ptr) ==
  /\ pc = "idle"
  /\ ptr \in DOMAIN live \/ blockBaseOf(ptr) \in blocks
  /\ isFree(heap, blockBaseOf(ptr))
  /\ pc' = "trapped" /\ cursor' = ptr
  /\ UNCHANGED <<heap, frontier, liveBlocks, req, blocks, live>>

\* A caller fills its payload
CallerWrite(ptr, v) ==
  /\ pc = "idle"
  /\ heap' = FillWords(heap, ptr, live[ptr], v)
  /\ UNCHANGED <<frontier, liveBlocks, pc, cursor, req, blocks, live>>

----------------------------------------------------------------------------
Init ==
  /\ heap = [lo   |-> [a \in Addr |-> 0],
             hi   |-> [a \in Addr |-> 0],
             head |-> [c \in Classes |-> 0]]
  /\ frontier = 0 /\ liveBlocks = 0
  /\ pc = "idle" /\ cursor = 0 /\ req = NoReq
  /\ blocks = {} /\ live = [p \in {} |-> 0]

Serve == PopClass \/ ScanNext \/ ScanHit \/ Carve \/ CarveExhausted

Next ==
  \/ \E n \in RequestBytes : RejectAlloc(n)
  \/ \E n \in RequestBytes, z \in BOOLEAN : RawAlloc(n, z)
  \/ Serve
  \/ \E p \in Addr : RawFree(p) \/ FreeTrapped(p)
  \/ \E p \in DOMAIN live, v \in UserWords : CallerWrite(p, v)

Spec     == Init /\ [][Next]_vars
\* A call that has started runs on: nothing can preempt the scan
FairSpec == Spec /\ WF_vars(Serve)
----------------------------------------------------------------------------
(* Properties                                                              *)

Aborts == {"rejected", "exhausted", "trapped"}

\* Every variable holds a value of its type: links, heads and the scan's cursor
\* are addresses of the arena or null, and liveBlocks never goes below zero.
TypeOK ==
  /\ heap \in [lo: [Addr -> Nat], hi: [Addr -> Nat], head: [Classes -> Link]]
  /\ frontier \in Nat
  /\ liveBlocks \in Nat
  /\ pc \in {"idle", "pop", "scan"} \cup Aborts
  /\ cursor \in Link
  /\ req \in [need: Nat, zero: BOOLEAN]
  /\ blocks \subseteq Addr
  /\ DOMAIN live \subseteq Addr /\ \A p \in DOMAIN live : live[p] \in Nat

\* The blocks of a tiling B that a heap h marks free
FreeIn(h, B) == {b \in B : isFree(h, b)}
Free         == FreeIn(heap, blocks)
Allocated    == blocks \ Free

\* B tiles the arena from its base to top: a walk from block to block, in
\* either direction, never lands anywhere but on a block
Tiling(h, B, top) ==
  /\ top = 0 \/ top \in ArenaBase .. ArenaBase + ARENA_WORDS
  /\ top > ArenaBase => /\ ArenaBase \in B
                       /\ \E b \in B : EndOf(h, b) = top
  /\ \A b \in B :
       /\ sizeAt(h, b) >= 1
       /\ EndOf(h, b) <= top
       /\ EndOf(h, b) < top => EndOf(h, b) \in B
       /\ b # ArenaBase => \E c \in B : EndOf(h, c) = b
  /\ \A b, c \in B : b < c => EndOf(h, b) <= c

\* The arena is exactly tiled at all times.  (Invariant 2 of the source's
\* review checklist.)
Tiled == Tiling(heap, blocks, frontier)

TagsAgree(h, B) == \A b \in B : h.lo[EndOf(h, b) - FOOTER] = h.lo[b]

\* Both tags of a block agree, whatever callers stored and whatever stale
\* tags splits and merges left behind: the footer a backward merge reads is
\* the one of the block that ends there.  (Invariants 2 and 4.)
TagsInSync == TagsAgree(heap, blocks)

\* The free bit never lags: what callers hold is the allocated blocks, each
\* big enough, and none with slack a split should have taken.  (Invariant 4.)
OwnersMatch ==
  /\ DOMAIN live = {payloadPtr(b) : b \in Allocated}
  /\ \A p \in DOMAIN live :
       sizeAt(heap, blockBaseOf(p)) \in live[p] .. live[p] + MIN_SPLIT_EXTENT - 1

Coalesced(h, B) == \A b, c \in FreeIn(h, B) : EndOf(h, b) # c

\* Coalescing is complete whatever the order of frees: no two free blocks
\* are neighbours.
NoAdjacentFree == Coalesced(heap, blocks)

\* Every link and head of the doubly-linked lists leads to a block of F of
\* the same class that links back
Linked(h, F) ==
  /\ \A ci \in Classes :
       h.head[ci] # 0 => /\ h.head[ci] \in F
                         /\ ClassOf(h, h.head[ci]) = ci
                         /\ getPrev(h, h.head[ci]) = 0
  /\ \A b \in F :
       /\ getNext(h, b) # 0 => /\ getNext(h, b) \in F
                               /\ ClassOf(h, getNext(h, b)) = ClassOf(h, b)
                               /\ getPrev(h, getNext(h, b)) = b
       /\ getPrev(h, b) # 0 => /\ getPrev(h, b) \in F
                               /\ ClassOf(h, getPrev(h, b)) = ClassOf(h, b)
                               /\ getNext(h, getPrev(h, b)) = b
       /\ getPrev(h, b) = 0 => h.head[ClassOf(h, b)] = b

\* The links of the free blocks, which share their words with dead payload,
\* are intact, so taking any of them off its list is local.
ListsLinked == Linked(heap, Free)

\* No freed block is lost: following next from its class's head reaches
\* every free block, once, and ends in the null link.
ListsReachAll ==
  \A ci \in Classes :
    LET members == {b \in Free : ClassOf(heap, b) = ci}
        chain[n \in 0 .. Cardinality(members)] ==
          IF n = 0 THEN heap.head[ci] ELSE getNext(heap, chain[n - 1])
    IN  /\ {chain[n] : n \in 0 .. Cardinality(members) - 1} = members
        /\ chain[Cardinality(members)] = 0

\* liveBlocks is exact between calls, so a leak test may compare it.
LiveBlocksExact == pc = "idle" => liveBlocks = Cardinality(DOMAIN live)

\* Once everything is freed the carved arena is one block again.
AllFreedReforms ==
  DOMAIN live = {} /\ frontier > ArenaBase =>
    blocks = {ArenaBase} /\ EndOf(heap, ArenaBase) = frontier

\* The trap of RawFree never fires on a pointer its caller still holds.
TrapOnlyDouble == pc = "trapped" => cursor \notin DOMAIN live

\* The frontier moves (or the arena is declared exhausted) only when neither
\* the exact class nor any large free block could have served the request.
CarveOnlyOnMiss ==
  [][pc = "scan" /\ (frontier' # frontier \/ pc' = "exhausted") =>
        \A b \in Free :
            /\ sizeAt(heap, b) # req.need
            /\ sizeAt(heap, b) > SMALL_MAX => sizeAt(heap, b) < req.need]_vars

\* The first-fit scan ends: a request is served or the program has aborted.
RequestEnds == pc \in {"pop", "scan"} ~> pc \in {"idle"} \cup Aborts

\* The allocator implements the memory its callers see.
Contents ==
  [p \in DOMAIN live |->
     [i \in 0 .. live[p] - 1 |-> <<heap.lo[p + i], heap.hi[p + i]>>]]

Abstract == INSTANCE RawHeap WITH Memory <- Addr, data <- Contents,
                                  asked <- IF pc \in {"pop", "scan", "exhausted"}
                                           THEN req ELSE NoReq,
                                  running <- pc \notin Aborts

ImplementsRawHeap == Abstract!Spec
============================================================================
