------------------------- MODULE TagCoalesceProofs -------------------------
(***************************************************************************)
(* Proofs about TagCoalesce, for every arena, class bound, request size    *)
(* and stored word: its inductive invariant, and what that gives.  Every   *)
(* free block is found by walking its list, the arena is carved only when  *)
(* no free block would do, and the allocator implements RawHeap.           *)
(***************************************************************************)
EXTENDS TagCoalesce, LeastElements

HeapType == [lo: [Addr -> Nat], hi: [Addr -> Nat], head: [Classes -> Link]]

(***************************************************************************)
(* Tag words.                                                              *)
(***************************************************************************)
\* A word read as a tag has a natural size.
LEMMA SizeOfType ==
  ASSUME NEW w \in Nat
  PROVE  SizeOf(w) \in Nat
  BY ConstantsAssumption DEF SizeOf, FreeBitOf

\* The class of a non-empty block exists.
LEMMA ClassType ==
  ASSUME NEW size \in Nat, size >= 1
  PROVE  classIndexOf(size) \in Classes
  BY ConstantsAssumption DEF classIndexOf, Classes

(***************************************************************************)
(* Where the words of a block are.                                         *)
(***************************************************************************)
LEMMA BlockWords ==
  ASSUME NEW h \in HeapType, NEW B \in SUBSET Addr, NEW top \in Nat,
         Tiling(h, B, top), NEW b \in B
  PROVE  /\ sizeAt(h, b) \in Nat /\ sizeAt(h, b) >= 1
         /\ sizeAt(h, b) < FREE_BIT
         /\ EndOf(h, b) = b + sizeAt(h, b) + 2
         /\ EndOf(h, b) <= top
         /\ b \in Nat /\ b # 0
         /\ b + 1 \in Addr /\ b + 1 \notin B
         /\ b + 1 + sizeAt(h, b) \in Addr
         /\ ClassOf(h, b) \in Classes
         /\ \A c \in B : c # b => c < b \/ EndOf(h, b) <= c
  <1>1. h.lo[b] \in Nat /\ b \in Nat /\ b # 0
    BY ConstantsAssumption DEF HeapType, Addr
  <1>2. sizeAt(h, b) \in Nat
    BY <1>1, SizeOfType DEF sizeAt
  <1>3. EndOf(h, b) = b + sizeAt(h, b) + 2
    BY <1>1, <1>2 DEF EndOf, PREFIX, FOOTER
  <1>4. sizeAt(h, b) >= 1 /\ EndOf(h, b) <= top
    BY DEF Tiling
  <1>5. top \in ArenaBase .. ArenaBase + ARENA_WORDS
    BY <1>1, <1>2, <1>3, <1>4 DEF Tiling
  <1>6. /\ b + 1 \in Addr /\ b + 1 + sizeAt(h, b) \in Addr
        /\ sizeAt(h, b) < FREE_BIT
    BY <1>1, <1>2, <1>3, <1>4, <1>5, ConstantsAssumption DEF Addr
  <1>7. \A c \in B : c # b => c < b \/ EndOf(h, b) <= c
    BY ConstantsAssumption DEF Tiling, Addr
  <1>8. b + 1 \notin B
    BY <1>1, <1>2, <1>3, <1>4, <1>7
  <1>9. ClassOf(h, b) \in Classes
    BY <1>2, <1>4, ClassType DEF ClassOf
  <1> QED
    BY <1>1, <1>2, <1>3, <1>4, <1>6, <1>7, <1>8, <1>9

(***************************************************************************)
(* Free lists.  Separate(h, F): the link words of the blocks of F are      *)
(* inside the arena and none is another's header.                          *)
(***************************************************************************)
Separate(h, F) ==
  /\ F \subseteq Addr
  /\ \A b \in F : /\ b + 1 \in Addr /\ b + 1 \notin F
                  /\ ClassOf(h, b) \in Classes

SameClasses(g, h, F) == \A b \in F : ClassOf(g, b) = ClassOf(h, b)

\* What insertFree and unlinkFree leave alone: every word but the first
\* payload words of the blocks of F
KeepsTags(g, h, F) ==
  \A a \in Addr : a - 1 \notin F => g.lo[a] = h.lo[a] /\ g.hi[a] = h.hi[a]

\* Unlinking a block leaves the lists of the others well linked.
LEMMA UnlinkLinked ==
  ASSUME NEW h \in HeapType, NEW F, Separate(h, F), Linked(h, F), NEW b \in F
  PROVE  /\ unlinkFree(h, b) \in HeapType
         /\ KeepsTags(unlinkFree(h, b), h, F)
         /\ Linked(unlinkFree(h, b), F \ {b})
         /\ \A c \in F : getNext(unlinkFree(h, b), c)
                          = IF getPrev(h, b) # 0 /\ c = getPrev(h, b) THEN getNext(h, b)
                            ELSE getNext(h, c)
  <1> DEFINE g  == unlinkFree(h, b)
             pv == getPrev(h, b)
             nx == getNext(h, b)
             ci == ClassOf(h, b)
  <1>1. /\ g.lo = IF pv = 0 THEN h.lo ELSE [h.lo EXCEPT ![pv + 1] = nx]
        /\ g.hi = IF nx = 0 THEN h.hi ELSE [h.hi EXCEPT ![nx + 1] = pv]
        /\ g.head = IF pv = 0 THEN [h.head EXCEPT ![ci] = nx] ELSE h.head
        /\ g = [lo |-> g.lo, hi |-> g.hi, head |-> g.head]
    BY DEF unlinkFree, PREFIX
  <1>2. /\ pv # 0 => pv \in F /\ ClassOf(h, pv) = ci /\ getNext(h, pv) = b
        /\ nx # 0 => nx \in F /\ ClassOf(h, nx) = ci /\ getPrev(h, nx) = b
        /\ pv = 0 => h.head[ci] = b
    BY DEF Linked
  <1>3. /\ h.lo \in [Addr -> Nat] /\ h.hi \in [Addr -> Nat]
        /\ h.head \in [Classes -> Link]
        /\ b + 1 \in Addr /\ ci \in Classes /\ 0 \notin F
        /\ F \subseteq Nat
        /\ nx = h.lo[b + 1] /\ pv = h.hi[b + 1]
    BY ConstantsAssumption DEF HeapType, Separate, Addr, getNext, getPrev, PREFIX
  <1> HIDE DEF g, pv, nx, ci
  <1>4. g \in HeapType
    <2>1. g.lo \in [Addr -> Nat] /\ g.hi \in [Addr -> Nat]
      BY <1>1, <1>2, <1>3 DEF Separate
    <2>2. g.head \in [Classes -> Link]
      BY <1>1, <1>2, <1>3 DEF Link, Separate
    <2> QED BY <1>1, <2>1, <2>2 DEF HeapType
  <1>5. KeepsTags(g, h, F)
    <2> SUFFICES ASSUME NEW a \in Addr, a - 1 \notin F
                 PROVE  g.lo[a] = h.lo[a] /\ g.hi[a] = h.hi[a]
      BY DEF KeepsTags
    <2>1. a \in Int /\ (pv # 0 => pv \in Int) /\ (nx # 0 => nx \in Int)
      BY <1>2, <1>3, ConstantsAssumption DEF Addr
    <2>2. (pv # 0 => a # pv + 1) /\ (nx # 0 => a # nx + 1)
      BY <2>1, <1>2
    <2> QED BY <2>2, <1>1, <1>3
  <1>6. \A c \in F : h.lo[c] = g.lo[c] /\ ClassOf(g, c) = ClassOf(h, c)
    <2>1. \A c \in F : h.lo[c] = g.lo[c]
      BY <1>1, <1>2, <1>3 DEF Separate
    <2> QED BY <2>1 DEF ClassOf, sizeAt
  <1>7. \A c \in F : /\ getNext(g, c) = IF pv # 0 /\ c = pv THEN nx ELSE getNext(h, c)
                     /\ getPrev(g, c) = IF nx # 0 /\ c = nx THEN pv ELSE getPrev(h, c)
    BY <1>1, <1>2, <1>3 DEF Separate, getNext, getPrev, PREFIX
  <1>8. ASSUME NEW cj \in Classes, g.head[cj] # 0
        PROVE  /\ g.head[cj] \in F \ {b}
               /\ ClassOf(g, g.head[cj]) = cj
               /\ getPrev(g, g.head[cj]) = 0
    <2>1. CASE pv = 0 /\ cj = ci
      BY <2>1, <1>1, <1>2, <1>3, <1>6, <1>7, <1>8 DEF Linked
    <2>2. CASE ~(pv = 0 /\ cj = ci)
      <3>1. g.head[cj] = h.head[cj]
        BY <2>2, <1>1, <1>3
      <3>2. /\ h.head[cj] \in F /\ ClassOf(h, h.head[cj]) = cj
            /\ getPrev(h, h.head[cj]) = 0
        BY <3>1, <1>8 DEF Linked
      <3>3. h.head[cj] # b
        BY <2>2, <3>2 DEF ci, pv
      <3>4. h.head[cj] # nx \/ nx = 0
        BY <3>2, <1>2, <1>3
      <3> QED BY <3>1, <3>2, <3>3, <3>4, <1>6, <1>7, <1>3
    <2> QED BY <2>1, <2>2
  <1>9. ASSUME NEW c \in F \ {b}
        PROVE  /\ getNext(g, c) # 0 => /\ getNext(g, c) \in F \ {b}
                                       /\ ClassOf(g, getNext(g, c)) = ClassOf(g, c)
                                       /\ getPrev(g, getNext(g, c)) = c
               /\ getPrev(g, c) # 0 => /\ getPrev(g, c) \in F \ {b}
                                       /\ ClassOf(g, getPrev(g, c)) = ClassOf(g, c)
                                       /\ getNext(g, getPrev(g, c)) = c
               /\ getPrev(g, c) = 0 => g.head[ClassOf(g, c)] = c
    <2>0. /\ getNext(h, c) # 0 => /\ getNext(h, c) \in F
                                  /\ ClassOf(h, getNext(h, c)) = ClassOf(h, c)
                                  /\ getPrev(h, getNext(h, c)) = c
          /\ getPrev(h, c) # 0 => /\ getPrev(h, c) \in F
                                  /\ ClassOf(h, getPrev(h, c)) = ClassOf(h, c)
                                  /\ getNext(h, getPrev(h, c)) = c
          /\ getPrev(h, c) = 0 => h.head[ClassOf(h, c)] = c
      BY DEF Linked
    <2>1. getNext(g, c) # 0 => /\ getNext(g, c) \in F \ {b}
                               /\ ClassOf(g, getNext(g, c)) = ClassOf(g, c)
                               /\ getPrev(g, getNext(g, c)) = c
      BY <2>0, <1>2, <1>3, <1>6, <1>7 DEF pv, nx
    <2>2. getPrev(g, c) # 0 => /\ getPrev(g, c) \in F \ {b}
                               /\ ClassOf(g, getPrev(g, c)) = ClassOf(g, c)
                               /\ getNext(g, getPrev(g, c)) = c
      <3>1. CASE nx # 0 /\ c = nx
        BY <3>1, <2>0, <1>2, <1>3, <1>6, <1>7
      <3>2. CASE ~(nx # 0 /\ c = nx)
        <4> DEFINE q == getPrev(h, c)
        <4>1. getPrev(g, c) = q
          BY <3>2, <1>7
        <4>2. ASSUME q # 0
              PROVE  q \in F \ {b} /\ ClassOf(h, q) = ClassOf(h, c) /\ q # pv
          BY <3>2, <4>2, <2>0, <1>2, <1>3 DEF nx
        <4> HIDE DEF q
        <4>3. q # 0 => getNext(g, q) = getNext(h, q)
          BY <4>2, <1>7
        <4> QED BY <4>1, <4>2, <4>3, <2>0, <1>6 DEF q
      <3> QED BY <3>1, <3>2
    <2>3. getPrev(g, c) = 0 => g.head[ClassOf(g, c)] = c
      BY <2>0, <1>1, <1>2, <1>3, <1>6, <1>7
    <2> QED BY <2>1, <2>2, <2>3
  <1>10. Linked(g, F \ {b})
    BY <1>8, <1>9 DEF Linked
  <1> QED BY <1>4, <1>5, <1>7, <1>10 DEF g, pv, nx

\* Inserting a block that is on no list adds it to the well-linked ones.
LEMMA InsertLinked ==
  ASSUME NEW h \in HeapType, NEW F, NEW b \in Addr, b \notin F,
         Separate(h, F \cup {b}), Linked(h, F)
  PROVE  /\ insertFree(h, b) \in HeapType
         /\ KeepsTags(insertFree(h, b), h, F \cup {b})
         /\ Linked(insertFree(h, b), F \cup {b})
         /\ \A c \in F \cup {b} : getNext(insertFree(h, b), c)
                                = IF c = b THEN h.head[ClassOf(h, b)] ELSE getNext(h, c)
  <1> DEFINE g  == insertFree(h, b)
             ci == ClassOf(h, b)
             hd == h.head[ci]
             G  == F \cup {b}
  <1>1. /\ g.lo = [h.lo EXCEPT ![b + 1] = hd]
        /\ g.hi = IF hd = 0 THEN [h.hi EXCEPT ![b + 1] = 0]
                   ELSE [[h.hi EXCEPT ![b + 1] = 0] EXCEPT ![hd + 1] = b]
        /\ g.head = [h.head EXCEPT ![ci] = b]
        /\ g = [lo |-> g.lo, hi |-> g.hi, head |-> g.head]
    BY DEF insertFree, PREFIX
  <1>2. /\ h.lo \in [Addr -> Nat] /\ h.hi \in [Addr -> Nat]
        /\ h.head \in [Classes -> Link]
        /\ b + 1 \in Addr /\ ci \in Classes /\ 0 \notin G
        /\ G \subseteq Nat /\ F \subseteq G /\ b \in G
        /\ \A c \in G : c + 1 \in Addr /\ c + 1 \notin G
    <2>1. /\ h.lo \in [Addr -> Nat] /\ h.hi \in [Addr -> Nat]
          /\ h.head \in [Classes -> Link]
      BY DEF HeapType
    <2>2. /\ b + 1 \in Addr /\ ci \in Classes
          /\ \A c \in G : c + 1 \in Addr /\ c + 1 \notin G
      BY DEF Separate
    <2>3. G \subseteq Addr /\ F \subseteq G /\ b \in G
      BY DEF Separate
    <2>4. Addr \subseteq Nat /\ 0 \notin Addr
      BY ConstantsAssumption DEF Addr
    <2> QED BY <2>1, <2>2, <2>3, <2>4
  <1>3. /\ hd # 0 => hd \in F /\ ClassOf(h, hd) = ci /\ getPrev(h, hd) = 0
        /\ hd \in Nat
    BY <1>2, ConstantsAssumption DEF Linked, Link, Addr
  <1> HIDE DEF g, ci, hd, G
  <1>4. g \in HeapType
    <2>2. g.lo \in [Addr -> Nat] /\ g.hi \in [Addr -> Nat]
      BY <1>1, <1>2, <1>3
    <2>3. g.head \in [Classes -> Link]
      BY <1>1, <1>2 DEF Link
    <2> QED BY <1>1, <2>2, <2>3 DEF HeapType
  <1>5. KeepsTags(g, h, G)
    <2> SUFFICES ASSUME NEW a \in Addr, a - 1 \notin G
                 PROVE  g.lo[a] = h.lo[a] /\ g.hi[a] = h.hi[a]
      BY DEF KeepsTags
    <2>1. a \in Int /\ b \in Int
      BY ConstantsAssumption DEF Addr
    <2>2. a # b + 1 /\ (hd # 0 => a # hd + 1)
      BY <2>1, <1>2, <1>3
    <2> QED BY <2>1, <2>2, <1>1, <1>2, <1>3
  <1>6. \A c \in G : g.lo[c] = h.lo[c] /\ ClassOf(g, c) = ClassOf(h, c)
    <2>1. \A c \in G : g.lo[c] = h.lo[c]
      BY <1>1, <1>2
    <2> QED BY <2>1 DEF ClassOf, sizeAt
  <1>7. \A c \in G : /\ getNext(g, c) = IF c = b THEN hd ELSE getNext(h, c)
                     /\ getPrev(g, c) = IF hd # 0 /\ c = hd THEN b
                                        ELSE IF c = b THEN 0 ELSE getPrev(h, c)
    BY <1>1, <1>2, <1>3 DEF getNext, getPrev, PREFIX
  <1>8. ASSUME NEW cj \in Classes, g.head[cj] # 0
        PROVE  /\ g.head[cj] \in G
               /\ ClassOf(g, g.head[cj]) = cj
               /\ getPrev(g, g.head[cj]) = 0
    <2>1. CASE cj = ci
      <3>1. g.head[cj] = b
        BY <2>1, <1>1, <1>2
      <3> QED BY <2>1, <3>1, <1>2, <1>3, <1>6, <1>7 DEF ci
    <2>2. CASE cj # ci
      <3>1. g.head[cj] = h.head[cj]
        BY <2>2, <1>1, <1>2
      <3>2. /\ h.head[cj] \in F /\ ClassOf(h, h.head[cj]) = cj
            /\ getPrev(h, h.head[cj]) = 0
        BY <3>1, <1>8 DEF Linked
      <3> QED BY <2>2, <3>1, <3>2, <1>2, <1>3, <1>6, <1>7
    <2> QED BY <2>1, <2>2
  <1>9. ASSUME NEW c \in G
        PROVE  /\ getNext(g, c) # 0 => /\ getNext(g, c) \in G
                                       /\ ClassOf(g, getNext(g, c)) = ClassOf(g, c)
                                       /\ getPrev(g, getNext(g, c)) = c
               /\ getPrev(g, c) # 0 => /\ getPrev(g, c) \in G
                                       /\ ClassOf(g, getPrev(g, c)) = ClassOf(g, c)
                                       /\ getNext(g, getPrev(g, c)) = c
               /\ getPrev(g, c) = 0 => g.head[ClassOf(g, c)] = c
    <2>1. CASE c = b
      BY <2>1, <1>1, <1>2, <1>3, <1>6, <1>7 DEF ci
    <2>2. CASE c # b
      <3>0. c \in F
        BY <2>2 DEF G
      <3>1. /\ getNext(h, c) # 0 => /\ getNext(h, c) \in F
                                    /\ ClassOf(h, getNext(h, c)) = ClassOf(h, c)
                                    /\ getPrev(h, getNext(h, c)) = c
            /\ getPrev(h, c) # 0 => /\ getPrev(h, c) \in F
                                    /\ ClassOf(h, getPrev(h, c)) = ClassOf(h, c)
                                    /\ getNext(h, getPrev(h, c)) = c
            /\ getPrev(h, c) = 0 => h.head[ClassOf(h, c)] = c
        BY <3>0 DEF Linked
      <3>2. getNext(g, c) = getNext(h, c)
        BY <2>2, <1>7
      <3>3. getNext(h, c) # 0 => getNext(h, c) # hd /\ getNext(h, c) # b
        BY <3>0, <3>1, <1>2, <1>3
      <3>4. CASE hd # 0 /\ c = hd
        BY <3>4, <2>2, <3>1, <3>2, <3>3, <1>1, <1>2, <1>3, <1>6, <1>7 DEF ci
      <3>5. CASE ~(hd # 0 /\ c = hd)
        <4>1. getPrev(g, c) = getPrev(h, c)
          BY <3>5, <2>2, <1>7
        <4>2. getPrev(h, c) # b
          BY <3>1, <1>2
        <4>3. getPrev(h, c) = 0 => g.head[ClassOf(g, c)] = c
          BY <3>5, <3>1, <1>1, <1>2, <1>6 DEF hd
        <4> QED BY <2>2, <3>1, <3>2, <3>3, <4>1, <4>2, <4>3, <1>2, <1>6, <1>7
      <3> QED BY <3>4, <3>5
    <2> QED BY <2>1, <2>2
  <1>10. Linked(g, G)
    BY <1>8, <1>9 DEF Linked
  <1> QED BY <1>4, <1>5, <1>7, <1>10 DEF g, G, hd, ci

\* The lists depend only on the classes and the link words of their blocks.
LEMMA LinkedFrame ==
  ASSUME NEW g \in HeapType, NEW h \in HeapType, NEW F, Linked(h, F),
         SameClasses(g, h, F), g.head = h.head,
         \A c \in F : g.lo[c + 1] = h.lo[c + 1] /\ g.hi[c + 1] = h.hi[c + 1]
  PROVE  Linked(g, F)
  <1>1. \A c \in F : /\ getNext(g, c) = getNext(h, c)
                     /\ getPrev(g, c) = getPrev(h, c)
                     /\ ClassOf(g, c) = ClassOf(h, c)
    BY DEF getNext, getPrev, PREFIX, SameClasses
  <1> QED BY <1>1 DEF Linked

\* A rank that grows along every list: no list runs in a circle, which the
\* links of Linked alone do not exclude.
Ranks(h, F, r) ==
  /\ r \in [F -> Int]
  /\ \A b \in F : getNext(h, b) # 0 => r[b] < r[getNext(h, b)]

Listed(h, F) == Linked(h, F) /\ \E r : Ranks(h, F, r)

\* Taking a block off its list joins its neighbours, in the order they had.
LEMMA UnlinkListed ==
  ASSUME NEW h \in HeapType, NEW F, Separate(h, F), Listed(h, F), NEW b \in F
  PROVE  /\ unlinkFree(h, b) \in HeapType
         /\ KeepsTags(unlinkFree(h, b), h, F)
         /\ Listed(unlinkFree(h, b), F \ {b})
  <1> DEFINE g == unlinkFree(h, b)
  <1>1. /\ Linked(h, F)
        /\ g \in HeapType /\ KeepsTags(g, h, F) /\ Linked(g, F \ {b})
        /\ \A c \in F : getNext(g, c)
                         = IF getPrev(h, b) # 0 /\ c = getPrev(h, b) THEN getNext(h, b)
                           ELSE getNext(h, c)
    BY UnlinkLinked DEF Listed
  <1> HIDE DEF g
  <1>2. PICK r : Ranks(h, F, r)
    BY DEF Listed
  <1> DEFINE q == [c \in F \ {b} |-> r[c]]
  <1>3. q \in [F \ {b} -> Int]
    BY <1>2 DEF Ranks
  <1>4. ASSUME NEW c \in F \ {b}, getNext(g, c) # 0
        PROVE  q[c] < q[getNext(g, c)]
    <2>1. getNext(g, c) \in F \ {b}
      BY <1>1, <1>4 DEF Linked
    <2>2. CASE getPrev(h, b) # 0 /\ c = getPrev(h, b)
      <3>1. getNext(g, c) = getNext(h, b) /\ getNext(h, c) = b /\ b # 0 /\ getNext(h, b) \in F
        <4>1. getNext(g, c) = getNext(h, b) /\ getNext(h, c) = b
          BY <1>1, <2>2 DEF Linked
        <4>2. b # 0
          BY ConstantsAssumption DEF Separate, Addr
        <4> QED BY <4>1, <4>2, <2>1
      <3>2. r[c] < r[b] /\ r[b] < r[getNext(h, b)]
        BY <1>2, <1>4, <3>1 DEF Ranks
      <3>3. r[c] \in Int /\ r[b] \in Int /\ r[getNext(h, b)] \in Int
        BY <1>2, <3>1 DEF Ranks
      <3> QED BY <2>1, <3>1, <3>2, <3>3
    <2>3. CASE ~(getPrev(h, b) # 0 /\ c = getPrev(h, b))
      <3>1. getNext(g, c) = getNext(h, c)
        BY <1>1, <2>3
      <3> QED BY <1>2, <1>4, <2>1, <3>1 DEF Ranks
    <2> QED BY <2>2, <2>3
  <1>5. Ranks(g, F \ {b}, q)
    BY <1>3, <1>4 DEF Ranks
  <1> QED BY <1>1, <1>5 DEF Listed, g

\* A block inserted at the head ranks below the old one.
LEMMA InsertListed ==
  ASSUME NEW h \in HeapType, NEW F, NEW b \in Addr, b \notin F,
         Separate(h, F \cup {b}), Listed(h, F)
  PROVE  /\ insertFree(h, b) \in HeapType
         /\ KeepsTags(insertFree(h, b), h, F \cup {b})
         /\ Listed(insertFree(h, b), F \cup {b})
  <1> DEFINE g  == insertFree(h, b)
             hd == h.head[ClassOf(h, b)]
  <1>1. /\ Linked(h, F)
        /\ g \in HeapType /\ KeepsTags(g, h, F \cup {b}) /\ Linked(g, F \cup {b})
        /\ \A c \in F \cup {b} : getNext(g, c) = IF c = b THEN hd ELSE getNext(h, c)
    BY InsertLinked DEF Listed
  <1>2. hd # 0 => hd \in F
    BY <1>1 DEF Linked, Separate
  <1> HIDE DEF g, hd
  <1>3. PICK r : Ranks(h, F, r)
    BY DEF Listed
  <1> DEFINE q == [c \in F \cup {b} |->
                     IF c # b THEN r[c] ELSE IF hd = 0 THEN 0 ELSE r[hd] - 1]
  <1>4. q \in [F \cup {b} -> Int]
    BY <1>2, <1>3 DEF Ranks
  <1>5. ASSUME NEW c \in F \cup {b}, getNext(g, c) # 0
        PROVE  q[c] < q[getNext(g, c)]
    <2>1. CASE c = b
      BY <2>1, <1>1, <1>2, <1>3, <1>5 DEF Ranks
    <2>2. CASE c # b
      <3>1. c \in F /\ getNext(g, c) = getNext(h, c)
        BY <2>2, <1>1
      <3>2. getNext(h, c) \in F /\ getNext(h, c) # b
        BY <3>1, <1>1, <1>5 DEF Linked
      <3> QED BY <2>2, <3>1, <3>2, <1>3, <1>5 DEF Ranks
    <2> QED BY <2>1, <2>2
  <1>6. Ranks(g, F \cup {b}, q)
    BY <1>4, <1>5 DEF Ranks
  <1> QED BY <1>1, <1>6 DEF Listed, g

\* A change outside the words a free list uses leaves the list as it was.
LEMMA ListedFrame ==
  ASSUME NEW g \in HeapType, NEW h \in HeapType, NEW F, Listed(h, F),
         SameClasses(g, h, F), g.head = h.head,
         \A c \in F : g.lo[c + 1] = h.lo[c + 1] /\ g.hi[c + 1] = h.hi[c + 1]
  PROVE  Listed(g, F)
  <1>1. Linked(g, F)
    BY LinkedFrame DEF Listed
  <1>2. \A c \in F : getNext(g, c) = getNext(h, c)
    BY DEF getNext, PREFIX
  <1>3. PICK r : Ranks(h, F, r)
    BY DEF Listed
  <1>4. Ranks(g, F, r)
    BY <1>2, <1>3 DEF Ranks
  <1> QED BY <1>1, <1>4 DEF Listed

(***************************************************************************)
(* Tilings.                                                                *)
(***************************************************************************)
Layout(h, B, top) ==
  h \in HeapType /\ B \in SUBSET Addr /\ top \in Nat /\ Tiling(h, B, top)

\* Changing no size changes no tiling.
LEMMA TilingFrame ==
  ASSUME NEW g \in HeapType, NEW h, NEW B, NEW top, Layout(h, B, top),
         \A b \in B : sizeAt(g, b) = sizeAt(h, b)
  PROVE  Tiling(g, B, top) /\ \A b \in B : EndOf(g, b) = EndOf(h, b)
  <1>1. \A b \in B : EndOf(g, b) = EndOf(h, b)
    BY DEF EndOf
  <1> QED BY <1>1 DEF Tiling, Layout

\* A block carved at the top extends the tiling.
LEMMA CarveTiling ==
  ASSUME NEW g \in HeapType, NEW h, NEW B, NEW top, Layout(h, B, top),
         NEW base, base \in Nat, top = 0 => base = ArenaBase, top # 0 => base = top,
         NEW n, n \in Nat, n >= 1, sizeAt(g, base) = n,
         NEW top2, top2 \in Nat, top2 = base + n + 2,
         top2 <= ArenaBase + ARENA_WORDS,
         \A b \in B : sizeAt(g, b) = sizeAt(h, b)
  PROVE  /\ Layout(g, B \cup {base}, top2)
         /\ base \notin B
         /\ \A b \in B : EndOf(g, b) = EndOf(h, b) /\ EndOf(h, b) <= base
  <1>1. ArenaBase <= base /\ top <= base /\ EndOf(g, base) = top2
    BY ConstantsAssumption DEF Layout, Tiling, EndOf, PREFIX, FOOTER
  <1>2. base \in Addr
    BY <1>1, ConstantsAssumption DEF Addr
  <1>3. \A b \in B : /\ EndOf(g, b) = EndOf(h, b)
                     /\ EndOf(h, b) = b + sizeAt(h, b) + 2
                     /\ EndOf(h, b) <= top
                     /\ sizeAt(h, b) \in Nat /\ sizeAt(h, b) >= 1 /\ b \in Nat
    BY BlockWords DEF Layout, EndOf
  <1>4. base \notin B
    BY <1>1, <1>3
  <1>5. top \in Nat /\ (top = 0 \/ top >= ArenaBase)
    BY ConstantsAssumption DEF Layout, Tiling
  <1>6. top > ArenaBase => /\ ArenaBase \in B
                           /\ \E b \in B : EndOf(h, b) = top
    BY DEF Layout, Tiling
  <1>7. top2 \in ArenaBase .. ArenaBase + ARENA_WORDS
    BY <1>1, ConstantsAssumption
  <1>8. ArenaBase \in B \cup {base}
    BY <1>5, <1>6, ConstantsAssumption
  <1>9. ASSUME NEW b \in B \cup {base}
        PROVE  /\ sizeAt(g, b) >= 1
               /\ EndOf(g, b) <= top2
               /\ EndOf(g, b) < top2 => EndOf(g, b) \in B \cup {base}
               /\ b # ArenaBase => \E c \in B \cup {base} : EndOf(g, c) = b
    <2>1. CASE b = base
      <3>1. b # ArenaBase => \E c \in B : EndOf(g, c) = b
        BY <2>1, <1>3, <1>5, <1>6, ConstantsAssumption
      <3>2. sizeAt(g, b) >= 1 /\ EndOf(g, b) = top2
        BY <2>1, <1>1
      <3> QED BY <3>1, <3>2
    <2>2. CASE b \in B
      <3>1. /\ EndOf(h, b) < top => EndOf(h, b) \in B
            /\ b # ArenaBase => \E c \in B : EndOf(h, c) = b
        BY <2>2 DEF Layout, Tiling
      <3>2. top = base
        BY <2>2, <1>3, <1>5
      <3> QED BY <2>2, <3>1, <3>2, <1>1, <1>3, <1>5
    <2> QED BY <2>1, <2>2
  <1>10. ASSUME NEW b \in B \cup {base}, NEW c \in B \cup {base}, b < c
         PROVE  EndOf(g, b) <= c
    <2>1. CASE b = base
      BY <2>1, <1>10, <1>1, <1>3, <1>5
    <2>2. CASE b \in B /\ c = base
      BY <2>2, <1>1, <1>3, <1>5
    <2>3. CASE b \in B /\ c \in B
      BY <2>3, <1>10, <1>3 DEF Layout, Tiling
    <2> QED BY <2>1, <2>2, <2>3
  <1>11. Tiling(g, B \cup {base}, top2)
    BY <1>1, <1>7, <1>8, <1>9, <1>10 DEF Tiling
  <1>12. \A b \in B : EndOf(h, b) <= base
    BY <1>1, <1>3, <1>5
  <1> QED BY <1>2, <1>3, <1>4, <1>11, <1>12 DEF Layout

\* Cutting a block in two leaves a tiling.
LEMMA SplitTiling ==
  ASSUME NEW g \in HeapType, NEW h, NEW B, NEW top, Layout(h, B, top),
         NEW b \in B, NEW rem \in Addr, b < rem, rem < EndOf(h, b),
         EndOf(g, b) = rem, EndOf(g, rem) = EndOf(h, b),
         sizeAt(g, b) >= 1, sizeAt(g, rem) >= 1,
         \A c \in B \ {b} : sizeAt(g, c) = sizeAt(h, c)
  PROVE  /\ Layout(g, B \cup {rem}, top)
         /\ rem \notin B
         /\ \A c \in B \ {b} : EndOf(g, c) = EndOf(h, c)
  <1>1. \A c \in B \ {b} : EndOf(g, c) = EndOf(h, c)
    BY DEF EndOf
  <1>2. /\ \A c \in B : /\ c \in Nat /\ EndOf(h, c) \in Nat /\ EndOf(h, c) > c
                       /\ EndOf(h, c) <= top /\ sizeAt(h, c) >= 1
        /\ \A c, d \in B : c < d => EndOf(h, c) <= d
    BY BlockWords DEF Layout, Tiling
  <1>s. \A c \in B : EndOf(h, c) < top => EndOf(h, c) \in B
    BY DEF Layout, Tiling
  <1>p. \A c \in B : c # ArenaBase => \E d \in B : EndOf(h, d) = c
    BY DEF Layout, Tiling
  <1>3. rem \in Nat /\ top \in Nat
    BY ConstantsAssumption DEF Layout, Addr
  <1>4. rem \notin B
    BY <1>2, <1>3
  <1>5. /\ top = 0 \/ top \in ArenaBase .. ArenaBase + ARENA_WORDS
        /\ top > ArenaBase => /\ ArenaBase \in B
                             /\ \E c \in B : EndOf(h, c) = top
    BY DEF Layout, Tiling
  <1>6. top > ArenaBase => \E c \in B \cup {rem} : EndOf(g, c) = top
    BY <1>1, <1>5
  <1>7. ASSUME NEW c \in B \cup {rem}
        PROVE  /\ sizeAt(g, c) >= 1
               /\ EndOf(g, c) <= top
               /\ EndOf(g, c) < top => EndOf(g, c) \in B \cup {rem}
               /\ c # ArenaBase => \E d \in B \cup {rem} : EndOf(g, d) = c
    <2>1. CASE c = rem
      BY <2>1, <1>2, <1>s
    <2>2. CASE c = b
      <3>1. c # ArenaBase => \E d \in B \ {b} : EndOf(g, d) = c
        <4>1. \A d \in B : EndOf(h, d) = c => d # b
          BY <2>2, <1>2
        <4> QED BY <4>1, <2>2, <1>1, <1>p
      <3> QED BY <2>2, <3>1, <1>2, <1>3
    <2>3. CASE c \in B \ {b}
      <3>1. c # ArenaBase => \E d \in B \cup {rem} : EndOf(g, d) = c
        <4>1. ASSUME NEW d \in B, EndOf(h, d) = c
              PROVE  \E x \in B \cup {rem} : EndOf(g, x) = c
          <5>1. CASE d = b
            BY <5>1, <4>1
          <5>2. CASE d # b
            BY <5>2, <4>1, <1>1
          <5> QED BY <5>1, <5>2
        <4> QED BY <4>1, <2>3, <1>p
      <3> QED BY <2>3, <3>1, <1>1, <1>2, <1>s
    <2> QED BY <2>1, <2>2, <2>3
  <1>8. ASSUME NEW c \in B \cup {rem}, NEW d \in B \cup {rem}, c < d
        PROVE  EndOf(g, c) <= d
    <2>1. CASE c \in B \ {b} /\ d \in B
      BY <2>1, <1>8, <1>1, <1>2
    <2>2. CASE c \in B \ {b} /\ d = rem
      BY <2>2, <1>8, <1>1, <1>2, <1>3
    <2>3. CASE c = b /\ d \in B
      BY <2>3, <1>8, <1>2, <1>3
    <2>4. CASE c = b /\ d = rem
      BY <2>4, <1>3
    <2>5. CASE c = rem /\ d \in B
      BY <2>5, <1>8, <1>2, <1>3
    <2>6. CASE c = rem /\ d = rem
      BY <2>6, <1>8, <1>3
    <2> QED BY <2>1, <2>2, <2>3, <2>4, <2>5, <2>6
  <1>9. Tiling(g, B \cup {rem}, top)
    BY <1>5, <1>6, <1>7, <1>8 DEF Tiling
  <1> QED BY <1>1, <1>4, <1>9 DEF Layout

\* Growing a block over the ones that follow it leaves a tiling.
LEMMA MergeTiling ==
  ASSUME NEW g \in HeapType, NEW h, NEW B, NEW top, Layout(h, B, top),
         NEW B2 \in SUBSET B, NEW b \in B2, NEW e \in Nat, e > b,
         EndOf(g, b) = e, e = top \/ (e < top /\ e \in B2), sizeAt(g, b) >= 1,
         \A c \in B2 \ {b} : sizeAt(g, c) = sizeAt(h, c),
         \A c \in B2 \ {b} : c < b \/ e <= c,
         \A c \in B \ B2 : b < c /\ c < e
  PROVE  /\ Layout(g, B2, top)
         /\ \A c \in B2 \ {b} : EndOf(g, c) = EndOf(h, c)
  <1>1. \A c \in B2 \ {b} : EndOf(g, c) = EndOf(h, c)
    BY DEF EndOf
  <1>2. /\ \A c \in B : /\ c \in Nat /\ EndOf(h, c) \in Nat /\ EndOf(h, c) > c
                       /\ EndOf(h, c) <= top /\ sizeAt(h, c) >= 1
        /\ \A c, d \in B : c < d => EndOf(h, c) <= d
    BY BlockWords DEF Layout, Tiling
  <1>s. \A c \in B : EndOf(h, c) < top => EndOf(h, c) \in B
    BY DEF Layout, Tiling
  <1>p. \A c \in B : c # ArenaBase => \E d \in B : EndOf(h, d) = c
    BY DEF Layout, Tiling
  <1>3. top \in Nat /\ b \in Nat
    BY <1>2 DEF Layout
  <1>4. /\ top = 0 \/ top \in ArenaBase .. ArenaBase + ARENA_WORDS
        /\ top > ArenaBase => /\ ArenaBase \in B
                             /\ \E c \in B : EndOf(h, c) = top
    BY DEF Layout, Tiling
  \* The block that ended where a kept block starts is kept, or became b
  <1>5. ASSUME NEW x \in Nat, x = top \/ x \in B2, x # b,
               NEW d \in B, EndOf(h, d) = x
        PROVE  \E y \in B2 : EndOf(g, y) = x
    <2>1. CASE d \in B2 \ {b}
      BY <2>1, <1>5, <1>1
    <2>2. CASE d \notin B2 \ {b}
      <3>1. b <= d /\ d < e
        BY <2>2, <1>3
      <3>2. x > d
        BY <1>2, <1>5
      <3>3. x >= e
        BY <3>1, <3>2, <1>2, <1>3, <1>5
      <3>4. x <= e
        BY <3>1, <1>2, <1>3, <1>5
      <3> QED BY <3>3, <3>4
    <2> QED BY <2>1, <2>2
  <1>6. top > ArenaBase => /\ ArenaBase \in B2
                           /\ \E c \in B2 : EndOf(g, c) = top
    <2>1. top > ArenaBase => ArenaBase \in B2
      <3>1. \A c \in B : c >= ArenaBase
        BY ConstantsAssumption DEF Layout, Addr
      <3> QED BY <3>1, <1>2, <1>3, <1>4, ConstantsAssumption
    <2>2. top # b
      BY <1>2, <1>3
    <2> QED BY <2>1, <2>2, <1>3, <1>4, <1>5
  <1>7. ASSUME NEW c \in B2
        PROVE  /\ sizeAt(g, c) >= 1
               /\ EndOf(g, c) <= top
               /\ EndOf(g, c) < top => EndOf(g, c) \in B2
               /\ c # ArenaBase => \E d \in B2 : EndOf(g, d) = c
    <2>1. CASE c = b
      <3>1. c # ArenaBase => \E d \in B2 : EndOf(g, d) = c
        <4>1. ASSUME NEW d \in B, EndOf(h, d) = c
              PROVE  d \in B2 \ {b} /\ EndOf(g, d) = c
          BY <4>1, <2>1, <1>1, <1>2, <1>3
        <4> QED BY <4>1, <2>1, <1>p
      <3> QED BY <2>1, <3>1, <1>3
    <2>2. CASE c # b
      <3>1. c # ArenaBase => \E d \in B2 : EndOf(g, d) = c
        BY <2>2, <1>2, <1>p, <1>5
      <3>2. EndOf(h, c) < top => EndOf(h, c) \in B2
        <4>1. CASE c < b
          BY <4>1, <1>2, <1>3, <1>s
        <4>2. CASE e <= c
          BY <4>2, <1>2, <1>3, <1>s
        <4> QED BY <2>2, <4>1, <4>2
      <3> QED BY <2>2, <3>1, <3>2, <1>1, <1>2
    <2> QED BY <2>1, <2>2
  <1>8. ASSUME NEW c \in B2, NEW d \in B2, c < d
        PROVE  EndOf(g, c) <= d
    <2>1. CASE c = b
      BY <2>1, <1>8, <1>2, <1>3
    <2>2. CASE c # b
      BY <2>2, <1>8, <1>1, <1>2, <1>3
    <2> QED BY <2>1, <2>2
  <1>9. Tiling(g, B2, top)
    BY <1>4, <1>6, <1>7, <1>8 DEF Tiling
  <1> QED BY <1>1, <1>9 DEF Layout

(***************************************************************************)
(* The whole heap: tiled by blocks whose two tags agree, no two free       *)
(* blocks neighbours, the free lists linked and never in a circle.         *)
(***************************************************************************)
HeapOk(h, B, top) ==
  /\ Layout(h, B, top)
  /\ TagsAgree(h, B)
  /\ Coalesced(h, B)
  /\ Listed(h, FreeIn(h, B))

\* Two blocks of a tiling share no word: the one with the lower base ends first.
LEMMA SeparateBlocks ==
  ASSUME NEW h, NEW B, NEW top, Layout(h, B, top), NEW F \in SUBSET B
  PROVE  Separate(h, F)
  BY BlockWords DEF Layout, Separate

(* writeTags changes the lo halves of two words and nothing else.          *)

\* Both tags of an n-word block at b read n in g, which is h everywhere else.
Tagged(g, h, b, n) ==
  /\ g \in HeapType /\ g.hi = h.hi /\ g.head = h.head
  /\ g.lo[b] = g.lo[b + 1 + n]
  /\ sizeAt(g, b) = n /\ EndOf(g, b) = b + n + 2
  /\ \A a \in Addr \ {b, b + 1 + n} : g.lo[a] = h.lo[a]

\* Tags written for an allocated block.
LEMMA TagAllocated ==
  ASSUME NEW h \in HeapType, NEW b \in Addr, NEW n \in Nat, b + 1 + n \in Addr,
         n < FREE_BIT
  PROVE  /\ Tagged(writeTags(h, b, n, FALSE), h, b, n)
         /\ ~isFree(writeTags(h, b, n, FALSE), b)
  <1> DEFINE g == writeTags(h, b, n, FALSE)
  <1>1. /\ n \in Nat /\ SizeOf(n) = n
        /\ ~FreeBitOf(n)
    BY ConstantsAssumption DEF SizeOf, FreeBitOf
  <1>2. /\ g.lo = [h.lo EXCEPT ![b] = n, ![b + 1 + n] = n]
        /\ g.hi = h.hi /\ g.head = h.head
        /\ g = [lo |-> g.lo, hi |-> g.hi, head |-> g.head]
    BY DEF writeTags, TagWord, HeapType, PREFIX
  <1> HIDE DEF g
  <1>3. /\ h.lo \in [Addr -> Nat] /\ h.hi \in [Addr -> Nat]
        /\ h.head \in [Classes -> Link] /\ b \in Nat
    BY ConstantsAssumption DEF HeapType, Addr
  <1>4. g.lo \in [Addr -> Nat]
    BY <1>1, <1>2, <1>3
  <1>5. g \in HeapType
    BY <1>2, <1>3, <1>4 DEF HeapType
  <1>6. /\ g.lo[b] = n /\ g.lo[b + 1 + n] = n
        /\ \A a \in Addr \ {b, b + 1 + n} : g.lo[a] = h.lo[a]
    BY <1>2, <1>3
  <1>7. sizeAt(g, b) = n /\ ~isFree(g, b)
    BY <1>1, <1>6 DEF sizeAt, isFree
  <1>8. EndOf(g, b) = b + n + 2
    BY <1>3, <1>7 DEF EndOf, PREFIX, FOOTER
  <1> QED BY <1>2, <1>5, <1>6, <1>7, <1>8 DEF g, Tagged

\* Tags written for a free block.
LEMMA TagFreed ==
  ASSUME NEW h \in HeapType, NEW b \in Addr, NEW n \in Nat, b + 1 + n \in Addr,
         n < FREE_BIT
  PROVE  /\ Tagged(writeTags(h, b, n, TRUE), h, b, n)
         /\ isFree(writeTags(h, b, n, TRUE), b)
  <1> DEFINE g == writeTags(h, b, n, TRUE)
  <1>1. /\ (n + FREE_BIT) \in Nat /\ SizeOf((n + FREE_BIT)) = n
        /\ FreeBitOf((n + FREE_BIT))
    BY ConstantsAssumption DEF SizeOf, FreeBitOf
  <1>2. /\ g.lo = [h.lo EXCEPT ![b] = (n + FREE_BIT), ![b + 1 + n] = (n + FREE_BIT)]
        /\ g.hi = h.hi /\ g.head = h.head
        /\ g = [lo |-> g.lo, hi |-> g.hi, head |-> g.head]
    BY DEF writeTags, TagWord, HeapType, PREFIX
  <1> HIDE DEF g
  <1>3. /\ h.lo \in [Addr -> Nat] /\ h.hi \in [Addr -> Nat]
        /\ h.head \in [Classes -> Link] /\ b \in Nat
    BY ConstantsAssumption DEF HeapType, Addr
  <1>4. g.lo \in [Addr -> Nat]
    BY <1>1, <1>2, <1>3
  <1>5. g \in HeapType
    BY <1>2, <1>3, <1>4 DEF HeapType
  <1>6. /\ g.lo[b] = (n + FREE_BIT) /\ g.lo[b + 1 + n] = (n + FREE_BIT)
        /\ \A a \in Addr \ {b, b + 1 + n} : g.lo[a] = h.lo[a]
    BY <1>2, <1>3
  <1>7. sizeAt(g, b) = n /\ isFree(g, b)
    BY <1>1, <1>6 DEF sizeAt, isFree
  <1>8. EndOf(g, b) = b + n + 2
    BY <1>3, <1>7 DEF EndOf, PREFIX, FOOTER
  <1> QED BY <1>2, <1>5, <1>6, <1>7, <1>8 DEF g, Tagged

\* SameTags(g, h, B): both tags of every block of B read the same in g and h.
SameTags(g, h, B) ==
  \A c \in B : /\ g.lo[c] = h.lo[c]
              /\ sizeAt(g, c) = sizeAt(h, c)
              /\ EndOf(g, c) = EndOf(h, c)
              /\ isFree(g, c) = isFree(h, c)
              /\ g.lo[EndOf(h, c) - 1] = h.lo[EndOf(h, c) - 1]

\* What callers stored in the blocks of C is the same in g and h.
SamePayload(g, h, C) ==
  \A c \in C : \A a \in c + 1 .. c + sizeAt(h, c) :
    a \in Addr /\ g.lo[a] = h.lo[a] /\ g.hi[a] = h.hi[a]

\* The words a caller may store in belong to its own block only.
LEMMA PayloadApart ==
  ASSUME NEW h, NEW B, NEW top, Layout(h, B, top), NEW c \in B,
         NEW a \in c + 1 .. c + sizeAt(h, c)
  PROVE  /\ a \in Addr /\ a \in Nat /\ c \in Nat /\ sizeAt(h, c) \in Nat
         /\ \A d \in B : /\ d \in Nat /\ sizeAt(h, d) \in Nat
                         /\ d # c => a < d \/ d + 1 + sizeAt(h, d) < a
         /\ c + 1 + sizeAt(h, c) \in Addr /\ c \in Addr
  <1>1. /\ h \in HeapType /\ B \in SUBSET Addr /\ top \in Nat /\ Tiling(h, B, top)
    BY DEF Layout
  <1>2. /\ c \in Nat /\ c \in Addr /\ sizeAt(h, c) \in Nat
        /\ EndOf(h, c) = c + sizeAt(h, c) + 2 /\ c + 1 + sizeAt(h, c) \in Addr
    BY <1>1, BlockWords
  <1>3. a \in Addr /\ a \in Nat
    BY <1>2, ConstantsAssumption DEF Addr
  <1>4. ASSUME NEW d \in B
        PROVE  /\ d \in Nat /\ sizeAt(h, d) \in Nat
               /\ d # c => a < d \/ d + 1 + sizeAt(h, d) < a
    <2>1. /\ d \in Nat /\ sizeAt(h, d) \in Nat /\ EndOf(h, d) = d + sizeAt(h, d) + 2
          /\ d # c => d < c \/ EndOf(h, c) <= d
      BY <1>1, BlockWords
    <2>2. d # c => c < d \/ EndOf(h, d) <= c
      BY <1>1, BlockWords
    <2> QED BY <1>2, <1>3, <2>1, <2>2
  <1> QED BY <1>2, <1>3, <1>4

\* The link words of blocks hold no tag: list operations change no tag, and
\* nothing of a block that is on no list.
LEMMA KeepsTagsOk ==
  ASSUME NEW h, NEW B, NEW top, Layout(h, B, top), TagsAgree(h, B),
         NEW F \in SUBSET B, NEW g \in HeapType, KeepsTags(g, h, F)
  PROVE  /\ Layout(g, B, top) /\ TagsAgree(g, B)
         /\ FreeIn(g, B) = FreeIn(h, B)
         /\ SameTags(g, h, B)
         /\ SamePayload(g, h, B \ F)
  <1>1. h \in HeapType
    BY DEF Layout
  <1>2. SamePayload(g, h, B \ F)
    <2> SUFFICES ASSUME NEW c \in B \ F, NEW a \in c + 1 .. c + sizeAt(h, c)
                 PROVE  a \in Addr /\ g.lo[a] = h.lo[a] /\ g.hi[a] = h.hi[a]
      BY DEF SamePayload
    <2>1. /\ a \in Addr /\ a \in Nat
          /\ \A d \in B : /\ d \in Nat /\ sizeAt(h, d) \in Nat
                          /\ d # c => a < d \/ d + 1 + sizeAt(h, d) < a
      BY PayloadApart
    <2>2. a - 1 \notin F
      BY <2>1
    <2> QED BY <2>1, <2>2 DEF KeepsTags
  <1>3. ASSUME NEW c \in B
        PROVE  /\ g.lo[c] = h.lo[c]
               /\ EndOf(h, c) - 1 \in Addr
               /\ g.lo[EndOf(h, c) - 1] = h.lo[EndOf(h, c) - 1]
    <2>1. /\ c \in Nat /\ c \in Addr /\ sizeAt(h, c) \in Nat /\ sizeAt(h, c) >= 1
          /\ EndOf(h, c) = c + sizeAt(h, c) + 2
          /\ c + 1 + sizeAt(h, c) \in Addr
      BY BlockWords DEF Layout
    <2>2. \A d \in F : /\ d + 1 \notin B
                       /\ d \in Nat
                       /\ d # c => d < c \/ EndOf(h, c) <= d
      BY BlockWords DEF Layout
    <2>3. c - 1 \notin F
      BY <2>1, <2>2
    <2>4. c + sizeAt(h, c) \notin F
      BY <2>1, <2>2
    <2>5. EndOf(h, c) - 1 = c + 1 + sizeAt(h, c) /\ EndOf(h, c) - 1 - 1 = c + sizeAt(h, c)
      BY <2>1
    <2> QED BY <2>1, <2>3, <2>4, <2>5 DEF KeepsTags
  <1>4. \A c \in B : sizeAt(g, c) = sizeAt(h, c) /\ isFree(g, c) = isFree(h, c)
    BY <1>3 DEF sizeAt, isFree
  <1>5. Tiling(g, B, top) /\ \A c \in B : EndOf(g, c) = EndOf(h, c)
    BY <1>4, TilingFrame
  <1>6. TagsAgree(g, B)
    BY <1>3, <1>5 DEF TagsAgree, FOOTER
  <1>7. FreeIn(g, B) = FreeIn(h, B)
    BY <1>4 DEF FreeIn
  <1>8. Layout(g, B, top)
    BY <1>5 DEF Layout
  <1> QED BY <1>2, <1>3, <1>4, <1>5, <1>6, <1>7, <1>8 DEF SameTags

\* Unlinking a listed block changes no tag of any block.
LEMMA UnlinkOk ==
  ASSUME NEW h, NEW B, NEW top, Layout(h, B, top), TagsAgree(h, B),
         NEW F \in SUBSET B, Listed(h, F), NEW b \in F
  PROVE  LET g == unlinkFree(h, b)
         IN  /\ Layout(g, B, top) /\ TagsAgree(g, B)
             /\ Listed(g, F \ {b})
             /\ FreeIn(g, B) = FreeIn(h, B)
             /\ SameTags(g, h, B) /\ SamePayload(g, h, B \ F)
  <1> DEFINE g == unlinkFree(h, b)
  <1>1. h \in HeapType /\ Separate(h, F)
    BY SeparateBlocks DEF Layout
  <1>2. g \in HeapType /\ KeepsTags(g, h, F) /\ Listed(g, F \ {b})
    BY <1>1, UnlinkListed
  <1> HIDE DEF g
  <1> QED BY <1>2, KeepsTagsOk DEF g

\* Nor does inserting one.
LEMMA InsertOk ==
  ASSUME NEW h, NEW B, NEW top, Layout(h, B, top), TagsAgree(h, B),
         NEW F \in SUBSET B, Listed(h, F), NEW b \in B, b \notin F
  PROVE  LET g == insertFree(h, b)
         IN  /\ Layout(g, B, top) /\ TagsAgree(g, B)
             /\ Listed(g, F \cup {b})
             /\ FreeIn(g, B) = FreeIn(h, B)
             /\ SameTags(g, h, B) /\ SamePayload(g, h, B \ (F \cup {b}))
  <1> DEFINE g == insertFree(h, b)
             G == F \cup {b}
  <1>1. /\ h \in HeapType /\ b \in Addr /\ G \in SUBSET B
    BY DEF Layout
  <1>2. Separate(h, G)
    BY <1>1, SeparateBlocks
  <1>3. g \in HeapType /\ KeepsTags(g, h, G) /\ Listed(g, G)
    BY <1>1, <1>2, InsertListed
  <1> HIDE DEF g, G
  <1>4. /\ Layout(g, B, top) /\ TagsAgree(g, B) /\ FreeIn(g, B) = FreeIn(h, B)
        /\ SameTags(g, h, B) /\ SamePayload(g, h, B \ G)
    BY <1>1, <1>3, KeepsTagsOk
  <1> QED BY <1>3, <1>4 DEF g, G

\* The heaps the three ways of serving a request leave.
ServedWhole(h, b)    == writeTags(unlinkFree(h, b), b, sizeAt(h, b), FALSE)
ServedSplit(h, b, n) == splitServed(unlinkFree(h, b), b, sizeAt(h, b), n)
ServedCarve(h, b, n) == writeTags(h, b, n, FALSE)

\* Serving a whole free block.
WholeDone(g, h, B, top, b) ==
  /\ HeapOk(g, B, top)
  /\ FreeIn(g, B) = FreeIn(h, B) \ {b}
  /\ \A c \in B : sizeAt(g, c) = sizeAt(h, c)
  /\ SamePayload(g, h, B \ FreeIn(h, B))

\* A block served whole leaves its list and keeps its extent.
LEMMA ServeWholeOk ==
  ASSUME NEW h, NEW B, NEW top, HeapOk(h, B, top), NEW b \in FreeIn(h, B)
  PROVE  WholeDone(ServedWhole(h, b), h, B, top, b)
  <1> DEFINE u == unlinkFree(h, b)
             n == sizeAt(h, b)
             g == writeTags(u, b, n, FALSE)
             F == FreeIn(h, B)
  <1>1. /\ Layout(h, B, top) /\ TagsAgree(h, B) /\ F \in SUBSET B /\ Listed(h, F)
        /\ b \in B /\ b \in F
    BY DEF HeapOk, FreeIn
  <1> HIDE DEF F
  <1>2. /\ Layout(u, B, top) /\ TagsAgree(u, B) /\ Listed(u, F \ {b})
        /\ FreeIn(u, B) = F
        /\ \A c \in B : sizeAt(u, c) = sizeAt(h, c) /\ EndOf(u, c) = EndOf(h, c)
        /\ SamePayload(u, h, B \ F)
    BY <1>1, UnlinkOk DEF F, SameTags
  <1> HIDE DEF u
  <1>3. /\ u \in HeapType /\ B \in SUBSET Addr /\ top \in Nat
        /\ b \in Addr /\ n \in Nat /\ n >= 1 /\ n < FREE_BIT /\ b \in Nat
        /\ b + 1 + n \in Addr /\ EndOf(u, b) = b + n + 2
    BY <1>1, <1>2, BlockWords DEF Layout
  <1> HIDE DEF n
  <1>4. /\ g \in HeapType /\ g.hi = u.hi /\ g.head = u.head
        /\ g.lo[b] = g.lo[b + 1 + n]
        /\ sizeAt(g, b) = n /\ ~isFree(g, b)
        /\ \A a \in Addr \ {b, b + 1 + n} : g.lo[a] = u.lo[a]
    <2>1. Tagged(g, u, b, n) /\ ~isFree(g, b)
      BY <1>3, TagAllocated
    <2> QED BY <2>1 DEF Tagged
  <1> HIDE DEF g
  <1>5. ASSUME NEW c \in B \ {b}
        PROVE  /\ g.lo[c] = u.lo[c] /\ g.lo[c + 1] = u.lo[c + 1]
               /\ g.lo[EndOf(u, c) - 1] = u.lo[EndOf(u, c) - 1]
    <2>1. /\ c \in Addr /\ c \in Nat /\ sizeAt(u, c) \in Nat /\ sizeAt(u, c) >= 1
          /\ EndOf(u, c) = c + sizeAt(u, c) + 2
          /\ c + 1 \in Addr /\ c + 1 + sizeAt(u, c) \in Addr
          /\ b < c \/ EndOf(u, c) <= b
      BY <1>1, <1>2, BlockWords DEF Layout
    <2>2. c < b \/ EndOf(u, b) <= c
      BY <1>1, <1>2, BlockWords DEF Layout
    <2> QED BY <2>1, <2>2, <1>3, <1>4
  <1>6. \A c \in B : /\ sizeAt(g, c) = sizeAt(u, c)
                     /\ c # b => isFree(g, c) = isFree(u, c)
    BY <1>2, <1>4, <1>5 DEF sizeAt, isFree, n
  <1>7. Tiling(g, B, top) /\ \A c \in B : EndOf(g, c) = EndOf(u, c)
    BY <1>2, <1>4, <1>6, TilingFrame
  <1>8. FreeIn(g, B) = F \ {b}
    BY <1>2, <1>4, <1>6 DEF FreeIn
  <1>9. TagsAgree(g, B)
    <2>1. EndOf(g, b) - 1 = b + 1 + n
      BY <1>1, <1>3, <1>7
    <2>2. \A c \in B \ {b} : g.lo[EndOf(g, c) - 1] = g.lo[c]
      BY <1>2, <1>5, <1>7 DEF TagsAgree, FOOTER
    <2> QED BY <2>1, <2>2, <1>4 DEF TagsAgree, FOOTER
  <1>10. Listed(g, F \ {b})
    <2>1. SameClasses(g, u, F \ {b})
      BY <1>1, <1>6 DEF SameClasses, ClassOf
    <2>2. \A c \in F \ {b} : g.lo[c + 1] = u.lo[c + 1] /\ g.hi[c + 1] = u.hi[c + 1]
      BY <1>1, <1>4, <1>5
    <2> QED BY <2>1, <2>2, <1>2, <1>3, <1>4, ListedFrame
  <1>11. Coalesced(g, B)
    BY <1>1, <1>2, <1>7, <1>8 DEF Coalesced, HeapOk, FreeIn, F
  <1>12. Layout(g, B, top)
    BY <1>3, <1>4, <1>7 DEF Layout
  <1>13. g = ServedWhole(h, b)
    BY DEF g, u, n, ServedWhole
  <1>14. SamePayload(g, h, B \ F)
    <2> SUFFICES ASSUME NEW c \in B \ F, NEW a \in c + 1 .. c + sizeAt(h, c)
                 PROVE  a \in Addr /\ g.lo[a] = h.lo[a] /\ g.hi[a] = h.hi[a]
      BY DEF SamePayload
    <2>1. a \in Addr /\ a # b /\ a # b + 1 + n
      BY <1>1, <1>3, PayloadApart DEF n
    <2> QED BY <2>1, <1>2, <1>4 DEF SamePayload
  <1> QED BY <1>2, <1>6, <1>8, <1>9, <1>10, <1>11, <1>12, <1>13, <1>14
          DEF HeapOk, WholeDone, F

\* Carving an allocated block at the frontier top, which moves to top2.
CarveReady(h, B, top, base, n, top2) ==
  /\ HeapOk(h, B, top)
  /\ base \in Nat /\ (top = 0 => base = ArenaBase) /\ (top # 0 => base = top)
  /\ n \in Nat /\ n >= 1
  /\ top2 = base + n + 2 /\ top2 <= ArenaBase + ARENA_WORDS

CarveDone(g, h, B, base, n, top2) ==
  /\ HeapOk(g, B \cup {base}, top2)
  /\ base \notin B
  /\ FreeIn(g, B \cup {base}) = FreeIn(h, B)
  /\ sizeAt(g, base) = n
  /\ \A c \in B : sizeAt(g, c) = sizeAt(h, c)
  /\ SamePayload(g, h, B)

\* A block carved at the frontier (carve, RawAlloc's last resort).
LEMMA CarveOk ==
  ASSUME NEW h, NEW B, NEW top, NEW base, NEW n, NEW top2,
         CarveReady(h, B, top, base, n, top2)
  PROVE  CarveDone(ServedCarve(h, base, n), h, B, base, n, top2)
  <1> DEFINE g == writeTags(h, base, n, FALSE)
             F == FreeIn(h, B)
             B2 == B \cup {base}
  <1>0. /\ HeapOk(h, B, top)
        /\ base \in Nat /\ (top = 0 => base = ArenaBase) /\ (top # 0 => base = top)
        /\ n \in Nat /\ n >= 1
        /\ top2 = base + n + 2 /\ top2 <= ArenaBase + ARENA_WORDS
    BY DEF CarveReady
  <1>1. /\ h \in HeapType /\ B \in SUBSET Addr /\ top \in Nat
        /\ Layout(h, B, top) /\ TagsAgree(h, B) /\ Listed(h, F)
        /\ F \subseteq B
    BY <1>0 DEF HeapOk, Layout, FreeIn
  <1>2. top <= base /\ ArenaBase <= base
    BY <1>0, <1>1, ConstantsAssumption DEF Layout, Tiling
  <1>3. base \in Addr /\ base + 1 + n \in Addr /\ n < FREE_BIT /\ top2 \in Nat
    BY <1>0, <1>2, ConstantsAssumption DEF Addr
  <1>4. /\ g \in HeapType /\ g.hi = h.hi /\ g.head = h.head
        /\ g.lo[base] = g.lo[base + 1 + n]
        /\ sizeAt(g, base) = n /\ EndOf(g, base) = base + n + 2
        /\ ~isFree(g, base)
        /\ \A a \in Addr \ {base, base + 1 + n} : g.lo[a] = h.lo[a]
    <2>1. /\ h \in HeapType /\ base \in Addr /\ n \in Nat
          /\ base + 1 + n \in Addr /\ n < FREE_BIT
      BY <1>0, <1>1, <1>3
    <2>2. Tagged(g, h, base, n) /\ ~isFree(g, base)
      BY <2>1, TagAllocated
    <2> QED BY <2>2 DEF Tagged
  <1> HIDE DEF g, F
  <1>5. ASSUME NEW c \in B
        PROVE  /\ g.lo[c] = h.lo[c] /\ g.lo[c + 1] = h.lo[c + 1]
               /\ g.lo[EndOf(h, c) - 1] = h.lo[EndOf(h, c) - 1]
    <2>1. /\ c \in Addr /\ c \in Nat /\ sizeAt(h, c) \in Nat /\ sizeAt(h, c) >= 1
          /\ EndOf(h, c) = c + sizeAt(h, c) + 2 /\ EndOf(h, c) <= top
          /\ c + 1 \in Addr /\ c + 1 + sizeAt(h, c) \in Addr
      BY <1>0, <1>1, BlockWords DEF Layout
    <2> QED BY <2>1, <1>0, <1>1, <1>2, <1>4
  <1>6. \A c \in B : sizeAt(g, c) = sizeAt(h, c) /\ isFree(g, c) = isFree(h, c)
    BY <1>5 DEF sizeAt, isFree
  <1>7. /\ Layout(g, B2, top2) /\ base \notin B
        /\ \A c \in B : EndOf(g, c) = EndOf(h, c) /\ EndOf(h, c) <= base
    <2>1. top2 = base + n + 2 /\ top2 <= ArenaBase + ARENA_WORDS
      BY <1>0
    <2>2. \A c \in B : sizeAt(g, c) = sizeAt(h, c)
      BY <1>6
    <2>3. /\ g \in HeapType /\ Layout(h, B, top) /\ sizeAt(g, base) = n
          /\ top2 \in Nat /\ base \in Nat /\ n \in Nat /\ n >= 1
          /\ top = 0 => base = ArenaBase
          /\ top # 0 => base = top
      BY <1>0, <1>1, <1>3, <1>4
    <2> HIDE DEF B2
    <2>4. B2 = B \cup {base}
      BY DEF B2
    <2>5. Layout(g, B \cup {base}, top2)
      BY <2>1, <2>2, <2>3, CarveTiling
    <2>6. base \notin B
      BY <2>1, <2>2, <2>3, CarveTiling
    <2>7. \A c \in B : EndOf(g, c) = EndOf(h, c) /\ EndOf(h, c) <= base
      <3>1. \A c \in B : EndOf(g, c) = EndOf(h, c)
        BY <2>2 DEF EndOf
      <3>2. ASSUME NEW c \in B
            PROVE  EndOf(h, c) <= top /\ EndOf(h, c) \in Nat
        <4>1. /\ c \in Nat /\ sizeAt(h, c) \in Nat
              /\ EndOf(h, c) = c + sizeAt(h, c) + 2 /\ EndOf(h, c) <= top
          BY <1>0, <1>1, BlockWords DEF Layout
        <4> QED BY <4>1
      <3> QED BY <3>1, <3>2, <1>1, <1>2, <2>3
    <2> QED BY <2>4, <2>5, <2>6, <2>7
  <1>8. FreeIn(g, B2) = F
    BY <1>4, <1>6, <1>7 DEF FreeIn, F
  <1>9. TagsAgree(g, B2)
    <2>1. EndOf(g, base) - 1 = base + 1 + n
      BY <1>0, <1>4
    <2>2. \A c \in B : g.lo[EndOf(g, c) - 1] = g.lo[c]
      BY <1>0, <1>1, <1>5, <1>7 DEF TagsAgree, FOOTER
    <2> QED BY <2>1, <2>2, <1>4 DEF TagsAgree, FOOTER
  <1>10. Listed(g, F)
    <2>1. SameClasses(g, h, F)
      BY <1>0, <1>1, <1>6 DEF SameClasses, ClassOf
    <2>2. \A c \in F : g.lo[c + 1] = h.lo[c + 1] /\ g.hi[c + 1] = h.hi[c + 1]
      BY <1>0, <1>1, <1>4, <1>5
    <2> QED BY <2>1, <2>2, <1>1, <1>4, ListedFrame
  <1>11. Coalesced(g, B2)
    <2>1. \A c, d \in F : EndOf(h, c) # d
      BY <1>0 DEF HeapOk, Coalesced, F
    <2> QED BY <2>1, <1>1, <1>7, <1>8 DEF Coalesced
  <1>12. g = ServedCarve(h, base, n)
    BY DEF g, ServedCarve
  <1>13. SamePayload(g, h, B)
    <2> SUFFICES ASSUME NEW c \in B, NEW a \in c + 1 .. c + sizeAt(h, c)
                 PROVE  a \in Addr /\ g.lo[a] = h.lo[a] /\ g.hi[a] = h.hi[a]
      BY DEF SamePayload
    <2>1. a \in Addr /\ a \in Nat /\ c \in Nat /\ sizeAt(h, c) \in Nat
      BY <1>1, PayloadApart
    <2>2. EndOf(h, c) = c + sizeAt(h, c) + 2 /\ EndOf(h, c) <= base
      BY <1>1, <1>7, BlockWords DEF Layout
    <2>3. a # base /\ a # base + 1 + n
      BY <2>1, <2>2, <1>0
    <2> QED BY <2>1, <2>3, <1>4
  <1> QED BY <1>4, <1>6, <1>7, <1>8, <1>9, <1>10, <1>11, <1>12, <1>13
          DEF HeapOk, CarveDone, F

\* Serving the front of a free block, the rest r staying free.
SplitDone(g, h, B, top, b, n, r) ==
  /\ HeapOk(g, B \cup {r}, top)
  /\ r \notin B
  /\ FreeIn(g, B \cup {r}) = (FreeIn(h, B) \ {b}) \cup {r}
  /\ sizeAt(g, b) = n
  /\ \A c \in B \ {b} : sizeAt(g, c) = sizeAt(h, c)
  /\ SamePayload(g, h, B \ FreeIn(h, B))

\* A split block keeps its front, and the remainder is a free block of its own.
LEMMA SplitOk ==
  ASSUME NEW h, NEW B, NEW top, HeapOk(h, B, top), NEW b \in FreeIn(h, B),
         NEW n, n \in Nat, n >= 1, Splits(sizeAt(h, b), n)
  PROVE  SplitDone(ServedSplit(h, b, n), h, B, top, b, n, RemBase(b, n))
  <1> DEFINE u  == unlinkFree(h, b)
             m  == sizeAt(h, b)
             v  == writeTags(u, b, n, FALSE)
             r  == b + n + 2
             k  == m - n - 2
             w  == writeTags(v, r, k, TRUE)
             g  == insertFree(w, r)
             F  == FreeIn(h, B)
             B2 == B \cup {r}
  <1>1. /\ Layout(h, B, top) /\ TagsAgree(h, B) /\ F \in SUBSET B /\ Listed(h, F)
        /\ b \in B /\ b \in F
    BY DEF HeapOk, FreeIn
  <1>2. /\ Layout(u, B, top) /\ TagsAgree(u, B) /\ Listed(u, F \ {b})
        /\ FreeIn(u, B) = F
        /\ \A c \in B : sizeAt(u, c) = sizeAt(h, c) /\ EndOf(u, c) = EndOf(h, c)
        /\ SamePayload(u, h, B \ F)
    <2> HIDE DEF F
    <2> QED BY <1>1, UnlinkOk DEF SameTags, F
  <1>3. /\ m \in Nat /\ m >= n + 3 /\ b \in Nat /\ m < FREE_BIT
        /\ b \in Addr /\ EndOf(h, b) = b + m + 2
        /\ b + 1 + m \in Addr /\ EndOf(h, b) <= top /\ top \in Nat
    BY <1>1, BlockWords DEF Layout, Splits, MIN_SPLIT_EXTENT
  <1>4. g = splitServed(u, b, m, n) /\ r = RemBase(b, n)
    <2>1. r = RemBase(b, n) /\ k = RemSize(m, n)
      BY <1>3 DEF RemBase, RemSize, PREFIX, FOOTER
    <2>2. Splits(m, n)
      OBVIOUS
    <2> HIDE DEF u, m, r, k
    <2> QED BY <2>1, <2>2 DEF splitServed
  <1> HIDE DEF u, F, m
  <1>5. /\ r \in Addr /\ r + 1 + k \in Addr /\ b + 1 + n \in Addr
        /\ n < FREE_BIT /\ k < FREE_BIT /\ k \in Nat /\ k >= 1 /\ r \in Nat
        /\ r + k + 2 = b + m + 2
    BY <1>3, ConstantsAssumption DEF Addr
  <1>6. /\ v \in HeapType /\ v.hi = u.hi /\ v.head = u.head
        /\ v.lo[b] = v.lo[b + 1 + n]
        /\ sizeAt(v, b) = n /\ ~isFree(v, b)
        /\ \A a \in Addr \ {b, b + 1 + n} : v.lo[a] = u.lo[a]
    <2>1. u \in HeapType /\ b \in Addr /\ b + 1 + n \in Addr /\ n < FREE_BIT
      BY <1>2, <1>3, <1>5 DEF Layout
    <2>2. n \in Nat
      BY <1>3
    <2>3. Tagged(v, u, b, n) /\ ~isFree(v, b)
      BY <2>1, <2>2, TagAllocated
    <2> QED BY <2>3 DEF Tagged
  <1> HIDE DEF v, k
  <1>7. /\ w \in HeapType /\ w.hi = v.hi /\ w.head = v.head
        /\ w.lo[r] = w.lo[r + 1 + k]
        /\ sizeAt(w, r) = k /\ EndOf(w, r) = r + k + 2 /\ isFree(w, r)
        /\ \A a \in Addr \ {r, r + 1 + k} : w.lo[a] = v.lo[a]
    <2>1. /\ v \in HeapType /\ r \in Addr /\ k \in Nat /\ r + 1 + k \in Addr
          /\ k < FREE_BIT
      BY <1>5, <1>6
    <2> HIDE DEF r
    <2>2. Tagged(w, v, r, k) /\ isFree(w, r)
      BY <2>1, TagFreed
    <2> QED BY <2>2 DEF Tagged
  <1> HIDE DEF w
  <1>8. /\ w.lo[b] = v.lo[b] /\ w.lo[b + 1 + n] = w.lo[b]
        /\ sizeAt(w, b) = n /\ ~isFree(w, b) /\ EndOf(w, b) = r
    <2>1. w.lo[b] = v.lo[b] /\ w.lo[b + 1 + n] = v.lo[b + 1 + n]
      BY <1>3, <1>5, <1>7
    <2>2. sizeAt(w, b) = n /\ ~isFree(w, b)
      BY <2>1, <1>6 DEF sizeAt, isFree
    <2>3. EndOf(w, b) = r
      BY <2>2, <1>3 DEF EndOf, PREFIX, FOOTER
    <2> QED BY <2>1, <2>2, <2>3, <1>6
  <1>9. ASSUME NEW c \in B \ {b}
        PROVE  /\ w.lo[c] = u.lo[c] /\ w.lo[c + 1] = u.lo[c + 1]
               /\ w.lo[EndOf(u, c) - 1] = u.lo[EndOf(u, c) - 1]
    <2>1. /\ c \in Addr /\ c \in Nat /\ sizeAt(u, c) \in Nat /\ sizeAt(u, c) >= 1
          /\ EndOf(u, c) = c + sizeAt(u, c) + 2
          /\ c + 1 \in Addr /\ c + 1 + sizeAt(u, c) \in Addr
          /\ b < c \/ EndOf(u, c) <= b
      BY <1>1, <1>2, BlockWords DEF Layout
    <2>2. c < b \/ EndOf(u, b) <= c
      BY <1>1, <1>2, BlockWords DEF Layout
    <2>3. EndOf(u, b) = b + m + 2
      BY <1>1, <1>2, <1>3
    <2>4. \A a \in Addr : a < b \/ b + m + 2 <= a => w.lo[a] = u.lo[a]
      <3> SUFFICES ASSUME NEW a \in Addr, a < b \/ b + m + 2 <= a
                   PROVE  w.lo[a] = u.lo[a]
        OBVIOUS
      <3>1. a \in Int
        BY ConstantsAssumption DEF Addr
      <3>2. a # b /\ a # b + 1 + n /\ a # r /\ a # r + 1 + k
        BY <3>1, <1>3, <1>5
      <3> QED BY <3>2, <1>6, <1>7
    <2> QED BY <2>1, <2>2, <2>3, <2>4, <1>3
  <1>10. \A c \in B \ {b} : sizeAt(w, c) = sizeAt(u, c) /\ isFree(w, c) = isFree(u, c)
    BY <1>9 DEF sizeAt, isFree
  <1>11. /\ Layout(w, B2, top) /\ r \notin B
         /\ \A c \in B \ {b} : EndOf(w, c) = EndOf(u, c)
    <2>1. b < r /\ r < EndOf(u, b) /\ EndOf(w, r) = EndOf(u, b)
      BY <1>1, <1>2, <1>3, <1>5, <1>7
    <2>2. /\ sizeAt(w, b) >= 1 /\ sizeAt(w, r) >= 1 /\ EndOf(w, b) = r
          /\ r \in Addr /\ w \in HeapType /\ b \in B /\ Layout(u, B, top)
          /\ \A c \in B \ {b} : sizeAt(w, c) = sizeAt(u, c)
      BY <1>1, <1>2, <1>5, <1>7, <1>8, <1>10
    <2> HIDE DEF r
    <2> QED BY <2>1, <2>2, SplitTiling
  <1>12. TagsAgree(w, B2)
    <2>1. EndOf(w, b) - 1 = b + 1 + n /\ EndOf(w, r) - 1 = r + 1 + k
      BY <1>3, <1>5, <1>7, <1>8
    <2>2. \A c \in B \ {b} : w.lo[EndOf(w, c) - 1] = w.lo[c]
      BY <1>2, <1>9, <1>11 DEF TagsAgree, FOOTER
    <2> QED BY <2>1, <2>2, <1>7, <1>8 DEF TagsAgree, FOOTER
  <1>13. FreeIn(w, B2) = (F \ {b}) \cup {r}
    BY <1>1, <1>2, <1>7, <1>8, <1>10, <1>11 DEF FreeIn
  <1>14. Listed(w, F \ {b})
    <2>1. SameClasses(w, u, F \ {b})
      BY <1>1, <1>10 DEF SameClasses, ClassOf
    <2>2. \A c \in F \ {b} : w.lo[c + 1] = u.lo[c + 1] /\ w.hi[c + 1] = u.hi[c + 1]
      BY <1>1, <1>6, <1>7, <1>9
    <2>3. u \in HeapType /\ w.head = u.head
      BY <1>2, <1>6, <1>7 DEF Layout
    <2> QED BY <2>1, <2>2, <2>3, <1>2, <1>7, ListedFrame
  <1>15. /\ Layout(g, B2, top) /\ TagsAgree(g, B2)
         /\ Listed(g, (F \ {b}) \cup {r})
         /\ FreeIn(g, B2) = (F \ {b}) \cup {r}
         /\ SameTags(g, w, B2)
         /\ SamePayload(g, w, B2 \ ((F \ {b}) \cup {r}))
    <2>1. F \ {b} \in SUBSET B2 /\ r \in B2 /\ r \notin F \ {b}
      BY <1>1, <1>11
    <2> HIDE DEF r, B2
    <2> QED BY <2>1, <1>11, <1>12, <1>13, <1>14, InsertOk
  <1>16. Coalesced(g, B2)
    <2>1. \A c, d \in F : EndOf(h, c) # d
      BY DEF HeapOk, Coalesced, F
    <2>2. \A c \in F \ {b} : EndOf(g, c) = EndOf(h, c)
      BY <1>1, <1>2, <1>11, <1>15 DEF SameTags
    <2>3. EndOf(g, r) = EndOf(h, b)
      BY <1>3, <1>5, <1>7, <1>15 DEF SameTags
    <2>4. \A c \in B : EndOf(h, c) # r
      <3>1. \A c \in B : EndOf(h, c) <= top /\ (EndOf(h, c) < top => EndOf(h, c) \in B)
        BY <1>1 DEF Layout, Tiling
      <3>2. r < top
        BY <1>3, <1>5
      <3> QED BY <3>1, <3>2, <1>11
    <2>5. EndOf(h, b) # r
      BY <1>1, <2>4
    <2> HIDE DEF r
    <2> QED BY <2>1, <2>2, <2>3, <2>4, <2>5, <1>1, <1>15 DEF Coalesced
  <1>17. /\ sizeAt(g, b) = n
         /\ \A c \in B \ {b} : sizeAt(g, c) = sizeAt(h, c)
    BY <1>1, <1>2, <1>8, <1>10, <1>15 DEF SameTags
  <1>18. HeapOk(g, B2, top)
    BY <1>15, <1>16 DEF HeapOk
  <1>20. SamePayload(g, h, B \ F)
    <2> SUFFICES ASSUME NEW c \in B \ F, NEW a \in c + 1 .. c + sizeAt(h, c)
                 PROVE  a \in Addr /\ g.lo[a] = h.lo[a] /\ g.hi[a] = h.hi[a]
      BY DEF SamePayload
    <2>1. /\ a \in Addr /\ a \in Nat /\ sizeAt(h, b) \in Nat /\ c # b
          /\ a < b \/ b + 1 + sizeAt(h, b) < a
      BY <1>1, PayloadApart
    <2>2. a # b /\ a # b + 1 + n /\ a # r /\ a # r + 1 + k
      BY <2>1, <1>3, <1>5 DEF m
    <2>3. c \in B2 \ ((F \ {b}) \cup {r}) /\ sizeAt(w, c) = sizeAt(h, c)
      BY <2>1, <1>1, <1>2, <1>10, <1>11
    <2>4. g.lo[a] = w.lo[a] /\ g.hi[a] = w.hi[a]
      BY <2>3, <1>15 DEF SamePayload
    <2>5. u.lo[a] = h.lo[a] /\ u.hi[a] = h.hi[a]
      BY <1>2 DEF SamePayload
    <2> QED BY <2>1, <2>2, <2>4, <2>5, <1>6, <1>7
  <1> HIDE DEF g, r
  <1>19. g = ServedSplit(h, b, n)
    BY <1>4 DEF u, m, ServedSplit
  <1> QED BY <1>4, <1>11, <1>15, <1>17, <1>18, <1>19, <1>20 DEF SplitDone, F

\* The backward merge finds the free block that ends where b starts.
LEMMA PrevOk ==
  ASSUME NEW h, NEW B, NEW top, Layout(h, B, top), TagsAgree(h, B), NEW b \in B
  PROVE  /\ JoinsPrev(h, b) => /\ PrevBase(h, b) \in FreeIn(h, B)
                               /\ EndOf(h, PrevBase(h, b)) = b
                               /\ SizeOf(h.lo[b - FOOTER]) = sizeAt(h, PrevBase(h, b))
         /\ ~JoinsPrev(h, b) => \A c \in FreeIn(h, B) : EndOf(h, c) # b
  <1>1. \A c \in B : EndOf(h, c) = b =>
          /\ h.lo[b - FOOTER] = h.lo[c]
          /\ SizeOf(h.lo[b - FOOTER]) = sizeAt(h, c)
          /\ FreeBitOf(h.lo[b - FOOTER]) = isFree(h, c)
          /\ PrevBase(h, b) = c
          /\ b > ArenaBase
    <2> SUFFICES ASSUME NEW c \in B, EndOf(h, c) = b
                 PROVE  /\ h.lo[b - FOOTER] = h.lo[c]
                        /\ SizeOf(h.lo[b - FOOTER]) = sizeAt(h, c)
                        /\ FreeBitOf(h.lo[b - FOOTER]) = isFree(h, c)
                        /\ PrevBase(h, b) = c
                        /\ b > ArenaBase
      OBVIOUS
    <2>1. h.lo[b - FOOTER] = h.lo[c]
      BY DEF TagsAgree
    <2>2. /\ c \in Nat /\ c \in Addr /\ sizeAt(h, c) \in Nat
          /\ EndOf(h, c) = c + sizeAt(h, c) + 2
      BY BlockWords DEF Layout
    <2>3. SizeOf(h.lo[b - FOOTER]) = sizeAt(h, c)
      BY <2>1 DEF sizeAt
    <2>4. PrevBase(h, b) = c
      BY <2>2, <2>3 DEF PrevBase, PREFIX, FOOTER
    <2>5. b > ArenaBase
      BY <2>2, ConstantsAssumption DEF Addr
    <2> QED BY <2>1, <2>3, <2>4, <2>5 DEF isFree
  <1>2. b # ArenaBase => \E c \in B : EndOf(h, c) = b
    BY DEF Layout, Tiling
  <1>3. JoinsPrev(h, b) => b # ArenaBase
    BY ConstantsAssumption DEF JoinsPrev
  <1>4. ASSUME JoinsPrev(h, b)
        PROVE  /\ PrevBase(h, b) \in FreeIn(h, B)
               /\ EndOf(h, PrevBase(h, b)) = b
               /\ SizeOf(h.lo[b - FOOTER]) = sizeAt(h, PrevBase(h, b))
    <2>1. PICK c \in B : EndOf(h, c) = b
      BY <1>2, <1>3, <1>4
    <2>2. /\ SizeOf(h.lo[b - FOOTER]) = sizeAt(h, c)
          /\ FreeBitOf(h.lo[b - FOOTER]) = isFree(h, c)
          /\ PrevBase(h, b) = c
      BY <1>1, <2>1
    <2> QED BY <1>4, <2>1, <2>2 DEF JoinsPrev, FreeIn
  <1>5. ASSUME ~JoinsPrev(h, b), NEW c \in FreeIn(h, B), EndOf(h, c) = b
        PROVE  FALSE
    BY <1>1, <1>5 DEF JoinsPrev, FreeIn
  <1> QED BY <1>4, <1>5

\* What RawFree knows when it tags the merged block b of n words free and
\* lists it: B2 is what is left of the blocks B, F the blocks still listed.
Mergeable(h, B, top, B2, b, n, F, e) ==
  /\ Layout(h, B, top) /\ TagsAgree(h, B)
  /\ B2 \in SUBSET B /\ b \in B2 /\ n \in Nat /\ n >= 1
  /\ F = FreeIn(h, B) \cap (B2 \ {b}) /\ Listed(h, F)
  /\ e \in Nat /\ e = b + n + 2 /\ (e = top \/ (e < top /\ e \in B2))
  /\ \A c \in B2 \ {b} : c < b \/ e <= c
  /\ \A c \in B \ B2 : b < c /\ c < e
  /\ e \notin F /\ \A c \in F : EndOf(h, c) # b
  /\ \A c, d \in F : EndOf(h, c) # d

Merged(h, b, n) == insertFree(writeTags(h, b, n, TRUE), b)

MergeDone(g, h, top, B2, b, F) ==
  /\ HeapOk(g, B2, top)
  /\ FreeIn(g, B2) = F \cup {b}
  /\ \A c \in B2 \ {b} : sizeAt(g, c) = sizeAt(h, c)
  /\ SamePayload(g, h, B2 \ (F \cup {b}))

\* Tagging and listing it gives a good heap.
LEMMA MergeOk ==
  ASSUME NEW h, NEW B, NEW top, NEW B2, NEW b, NEW n, NEW F, NEW e,
         Mergeable(h, B, top, B2, b, n, F, e)
  PROVE  MergeDone(Merged(h, b, n), h, top, B2, b, F)
  <1> DEFINE w == writeTags(h, b, n, TRUE)
             g == insertFree(w, b)
  <1>m. /\ Layout(h, B, top) /\ TagsAgree(h, B)
        /\ B2 \in SUBSET B /\ b \in B2 /\ n \in Nat /\ n >= 1
        /\ F = FreeIn(h, B) \cap (B2 \ {b}) /\ Listed(h, F)
        /\ e \in Nat /\ e = b + n + 2 /\ (e = top \/ (e < top /\ e \in B2))
        /\ \A c \in B2 \ {b} : c < b \/ e <= c
        /\ \A c \in B \ B2 : b < c /\ c < e
        /\ e \notin F /\ \A c \in F : EndOf(h, c) # b
        /\ \A c, d \in F : EndOf(h, c) # d
    BY DEF Mergeable
  <1>1. /\ h \in HeapType /\ B \in SUBSET Addr /\ top \in Nat
        /\ b \in Addr /\ b \in Nat /\ b \in B /\ F \in SUBSET B2
        /\ b \notin F
    BY <1>m, ConstantsAssumption DEF Layout, Addr
  <1>2. top <= ArenaBase + ARENA_WORDS
    BY <1>m, ConstantsAssumption DEF Layout, Tiling
  <1>3. e <= top /\ e > b
    BY <1>m, <1>1
  <1>4. b + 1 + n \in Addr /\ n < FREE_BIT /\ e - 1 = b + 1 + n
    BY <1>m, <1>1, <1>2, <1>3, ConstantsAssumption DEF Addr
  <1>5. /\ w \in HeapType /\ w.hi = h.hi /\ w.head = h.head
        /\ w.lo[b] = w.lo[b + 1 + n]
        /\ sizeAt(w, b) = n /\ EndOf(w, b) = e /\ isFree(w, b)
        /\ \A a \in Addr \ {b, b + 1 + n} : w.lo[a] = h.lo[a]
    <2>1. h \in HeapType /\ b \in Addr /\ n \in Nat /\ b + 1 + n \in Addr /\ n < FREE_BIT
      BY <1>m, <1>1, <1>4
    <2>2. e = b + n + 2
      BY <1>m
    <2>3. Tagged(w, h, b, n) /\ isFree(w, b)
      BY <2>1, TagFreed
    <2> QED BY <2>2, <2>3 DEF Tagged
  <1> HIDE DEF w
  <1>6. ASSUME NEW c \in B2 \ {b}
        PROVE  /\ w.lo[c] = h.lo[c] /\ w.lo[c + 1] = h.lo[c + 1]
               /\ w.lo[EndOf(h, c) - 1] = h.lo[EndOf(h, c) - 1]
    <2>1. /\ c \in Addr /\ c \in Nat /\ sizeAt(h, c) \in Nat /\ sizeAt(h, c) >= 1
          /\ EndOf(h, c) = c + sizeAt(h, c) + 2
          /\ c + 1 \in Addr /\ c + 1 + sizeAt(h, c) \in Addr
          /\ b < c \/ EndOf(h, c) <= b
      BY <1>m, <1>1, BlockWords DEF Layout
    <2>2. c < b \/ e <= c
      BY <1>m
    <2> QED BY <1>m, <2>1, <2>2, <1>1, <1>4, <1>5
  <1>7. \A c \in B2 \ {b} : sizeAt(w, c) = sizeAt(h, c) /\ isFree(w, c) = isFree(h, c)
    BY <1>m, <1>6 DEF sizeAt, isFree
  <1>8. /\ Layout(w, B2, top)
        /\ \A c \in B2 \ {b} : EndOf(w, c) = EndOf(h, c)
    <2>1. /\ w \in HeapType /\ Layout(h, B, top) /\ B2 \in SUBSET B /\ b \in B2
          /\ e \in Nat /\ e > b /\ EndOf(w, b) = e /\ sizeAt(w, b) >= 1
          /\ \A c \in B2 \ {b} : sizeAt(w, c) = sizeAt(h, c)
      BY <1>m, <1>3, <1>5, <1>7
    <2>2. /\ e = top \/ (e < top /\ e \in B2)
          /\ \A c \in B2 \ {b} : c < b \/ e <= c
          /\ \A c \in B \ B2 : b < c /\ c < e
      BY <1>m
    <2> QED BY ONLY <2>1, <2>2, MergeTiling
  <1>9. TagsAgree(w, B2)
    <2>1. EndOf(w, b) - 1 = b + 1 + n
      BY <1>m, <1>4, <1>5
    <2>2. \A c \in B2 \ {b} : w.lo[EndOf(w, c) - 1] = w.lo[c]
      BY <1>m, <1>6, <1>8 DEF TagsAgree, FOOTER
    <2> QED BY <1>m, <2>1, <2>2, <1>5 DEF TagsAgree, FOOTER
  <1>10. FreeIn(w, B2) = F \cup {b}
    BY <1>m, <1>5, <1>7 DEF FreeIn
  <1>11. Listed(w, F)
    <2>1. SameClasses(w, h, F)
      BY <1>m, <1>7 DEF SameClasses, ClassOf
    <2>2. \A c \in F : w.lo[c + 1] = h.lo[c + 1] /\ w.hi[c + 1] = h.hi[c + 1]
      BY <1>m, <1>5, <1>6
    <2> QED BY <1>m, <2>1, <2>2, <1>1, <1>5, ListedFrame
  <1>12. /\ Layout(g, B2, top) /\ TagsAgree(g, B2)
         /\ Listed(g, F \cup {b})
         /\ FreeIn(g, B2) = F \cup {b}
         /\ SameTags(g, w, B2)
         /\ SamePayload(g, w, B2 \ (F \cup {b}))
    BY <1>m, <1>1, <1>8, <1>9, <1>10, <1>11, InsertOk
  <1> HIDE DEF g
  <1>13. /\ EndOf(g, b) = e
         /\ \A c \in B2 \ {b} : EndOf(g, c) = EndOf(h, c) /\ sizeAt(g, c) = sizeAt(h, c)
    BY <1>m, <1>5, <1>7, <1>8, <1>12 DEF SameTags
  <1>14. Coalesced(g, B2)
    <2>1. \A c \in F : EndOf(g, c) = EndOf(h, c)
      BY <1>m, <1>1, <1>13
    <2>2. e # b
      BY <1>m, <1>1, <1>3
    <2> QED BY <1>m, <2>1, <2>2, <1>12, <1>13 DEF Coalesced
  <1>15. HeapOk(g, B2, top)
    BY <1>12, <1>14 DEF HeapOk
  <1>16. SamePayload(g, h, B2 \ (F \cup {b}))
    <2> SUFFICES ASSUME NEW c \in B2 \ (F \cup {b}), NEW a \in c + 1 .. c + sizeAt(h, c)
                 PROVE  a \in Addr /\ g.lo[a] = h.lo[a] /\ g.hi[a] = h.hi[a]
      BY DEF SamePayload
    <2>1. c \in B /\ c # b /\ c \in B2 /\ (c < b \/ e <= c)
      BY <1>m
    <2>2. /\ a \in Addr /\ a \in Nat /\ c \in Nat /\ sizeAt(h, c) \in Nat
          /\ a < b \/ b + 1 + sizeAt(h, b) < a
          /\ sizeAt(h, b) \in Nat
      BY <1>m, <1>1, <2>1, PayloadApart
    <2>3. /\ EndOf(h, c) = c + sizeAt(h, c) + 2
          /\ c # b => b < c \/ EndOf(h, c) <= b
      BY <1>m, <1>1, <2>1, BlockWords DEF Layout
    <2>4. a # b /\ a # b + 1 + n
      BY <2>1, <2>2, <2>3, <1>m, <1>1
    <2>5. g.lo[a] = w.lo[a] /\ g.hi[a] = w.hi[a]
      BY <2>1, <1>7, <1>12 DEF SamePayload
    <2> QED BY <2>2, <2>4, <2>5, <1>5
  <1> QED BY <1>12, <1>13, <1>15, <1>16 DEF g, w, Merged, MergeDone

\* What callers write inside their payloads changes no tag and no link, and
\* no other payload.
FillDone(g, h, B, top, b, n, v) ==
  /\ HeapOk(g, B, top)
  /\ FreeIn(g, B) = FreeIn(h, B)
  /\ \A c \in B : sizeAt(g, c) = sizeAt(h, c)
  /\ SamePayload(g, h, B \ {b})
  /\ \A a \in b + 1 .. b + n : a \in Addr /\ g.lo[a] = v /\ g.hi[a] = v

\* Filling the payload of a held block reaches no other word.
LEMMA FillOk ==
  ASSUME NEW h, NEW B, NEW top, HeapOk(h, B, top), NEW b \in B,
         b \notin FreeIn(h, B), NEW n \in Nat, n <= sizeAt(h, b), NEW v \in Nat
  PROVE  FillDone(FillWords(h, payloadPtr(b), n, v), h, B, top, b, n, v)
  <1> DEFINE g == FillWords(h, payloadPtr(b), n, v)
             F == FreeIn(h, B)
  <1>1. /\ h \in HeapType /\ B \in SUBSET Addr /\ top \in Nat
        /\ Layout(h, B, top) /\ TagsAgree(h, B) /\ Listed(h, F) /\ F \in SUBSET B
    BY DEF HeapOk, Layout, FreeIn
  <1>2. g = [lo   |-> [a \in Addr |-> IF a \in b + 1 .. b + 1 + n - 1 THEN v ELSE h.lo[a]],
             hi   |-> [a \in Addr |-> IF a \in b + 1 .. b + 1 + n - 1 THEN v ELSE h.hi[a]],
             head |-> h.head]
    BY DEF FillWords, payloadPtr, PREFIX
  <1> HIDE DEF g, F
  <1>3. /\ g \in HeapType /\ g.head = h.head
    BY <1>1, <1>2 DEF HeapType
  <1>4. \A a \in Addr : a \notin b + 1 .. b + n => g.lo[a] = h.lo[a] /\ g.hi[a] = h.hi[a]
    <2>1. b \in Int
      BY <1>1, ConstantsAssumption DEF Addr
    <2> QED BY <1>2, <2>1
  <1>5. /\ b \in Nat /\ sizeAt(h, b) \in Nat /\ EndOf(h, b) = b + sizeAt(h, b) + 2
    BY <1>1, BlockWords DEF Layout
  <1>6. ASSUME NEW c \in B
        PROVE  /\ g.lo[c] = h.lo[c]
               /\ c # b => g.lo[c + 1] = h.lo[c + 1] /\ g.hi[c + 1] = h.hi[c + 1]
               /\ g.lo[EndOf(h, c) - 1] = h.lo[EndOf(h, c) - 1]
    <2>1. /\ c \in Addr /\ c \in Nat /\ sizeAt(h, c) \in Nat /\ sizeAt(h, c) >= 1
          /\ EndOf(h, c) = c + sizeAt(h, c) + 2
          /\ c + 1 \in Addr /\ c + 1 + sizeAt(h, c) \in Addr
          /\ c # b => b < c \/ EndOf(h, c) <= b
      BY <1>1, BlockWords DEF Layout
    <2>2. c # b => c < b \/ EndOf(h, b) <= c
      BY <1>1, BlockWords DEF Layout
    <2>3. c \notin b + 1 .. b + n /\ c + 1 + sizeAt(h, c) \notin b + 1 .. b + n
      BY <2>1, <2>2, <1>5
    <2>4. c # b => c + 1 \notin b + 1 .. b + n
      BY <2>1, <2>2, <1>5
    <2>5. EndOf(h, c) - 1 = c + 1 + sizeAt(h, c)
      BY <2>1
    <2> QED BY <2>1, <2>3, <2>4, <2>5, <1>4
  <1>7. \A c \in B : sizeAt(g, c) = sizeAt(h, c) /\ isFree(g, c) = isFree(h, c)
    BY <1>6 DEF sizeAt, isFree
  <1>8. Tiling(g, B, top) /\ \A c \in B : EndOf(g, c) = EndOf(h, c)
    BY <1>1, <1>3, <1>7, TilingFrame
  <1>9. FreeIn(g, B) = F
    BY <1>7 DEF FreeIn, F
  <1>10. TagsAgree(g, B)
    BY <1>1, <1>6, <1>8 DEF TagsAgree, FOOTER
  <1>11. Listed(g, F)
    <2>1. SameClasses(g, h, F)
      BY <1>1, <1>7 DEF SameClasses, ClassOf
    <2>2. \A c \in F : g.lo[c + 1] = h.lo[c + 1] /\ g.hi[c + 1] = h.hi[c + 1]
      BY <1>1, <1>6 DEF F
    <2> QED BY <2>1, <2>2, <1>1, <1>3, ListedFrame
  <1>12. Coalesced(g, B)
    BY <1>1, <1>8, <1>9 DEF Coalesced, HeapOk, FreeIn, F
  <1>13. Layout(g, B, top)
    BY <1>1, <1>3, <1>8 DEF Layout
  <1>14. SamePayload(g, h, B \ {b})
    <2> SUFFICES ASSUME NEW c \in B \ {b}, NEW a \in c + 1 .. c + sizeAt(h, c)
                 PROVE  a \in Addr /\ g.lo[a] = h.lo[a] /\ g.hi[a] = h.hi[a]
      BY DEF SamePayload
    <2>1. a \in Addr /\ a \in Nat /\ (a < b \/ b + 1 + sizeAt(h, b) < a)
      BY <1>1, PayloadApart
    <2> QED BY <2>1, <1>4, <1>5
  <1>15. \A a \in b + 1 .. b + n : a \in Addr /\ g.lo[a] = v /\ g.hi[a] = v
    <2> SUFFICES ASSUME NEW a \in b + 1 .. b + n
                 PROVE  a \in Addr /\ g.lo[a] = v /\ g.hi[a] = v
      OBVIOUS
    <2>1. a \in b + 1 .. b + sizeAt(h, b) /\ b + 1 + n - 1 = b + n
      BY <1>5
    <2>2. a \in Addr
      BY <2>1, <1>1, PayloadApart
    <2> QED BY <2>1, <2>2, <1>2
  <1> QED BY <1>7, <1>9, <1>10, <1>11, <1>12, <1>13, <1>14, <1>15
          DEF HeapOk, FillDone, g, F

(***************************************************************************)
(* The inductive invariant.  No property below is inductive alone: a merge *)
(* trusts the footer before it (TagsInSync) to find a block (Tiled) whose  *)
(* links (ListsLinked) let it be unlinked, and what callers write is       *)
(* harmless because they own exactly the allocated payloads (OwnersMatch). *)
(***************************************************************************)
RequestOk ==
  /\ pc \in {"pop", "scan"} => req.need >= 1
  /\ pc = "pop" => cursor \in Free /\ sizeAt(heap, cursor) = req.need
  /\ pc = "scan" => cursor = 0 \/ cursor \in Free

Counted ==
  liveBlocks = Cardinality(DOMAIN live)
               + (IF pc \in {"pop", "scan", "exhausted"} THEN 1 ELSE 0)

IInv ==
  /\ TypeOK
  /\ HeapOk(heap, blocks, frontier)
  /\ OwnersMatch
  /\ RequestOk
  /\ Counted
  /\ TrapOnlyDouble

\* The payload of an allocated block is an address of the arena.
LEMMA AllocatedAddr ==
  ASSUME TypeOK
  PROVE  Allocated \subseteq Addr /\ Allocated \subseteq Nat
  <1>1. Allocated \subseteq Addr
    BY DEF TypeOK, Allocated
  <1>2. Addr \subseteq Nat
    BY ConstantsAssumption DEF Addr
  <1> QED BY <1>1, <1>2

\* The payload the free tags say is taken is what callers hold.
LEMMA HeldIsAllocated ==
  ASSUME TypeOK, OwnersMatch, NEW p
  PROVE  p \in DOMAIN live <=> blockBaseOf(p) \in Allocated /\ p = blockBaseOf(p) + 1
  <1>1. Allocated \subseteq Nat
    BY AllocatedAddr
  <1>2. DOMAIN live = {c + 1 : c \in Allocated}
    BY DEF OwnersMatch, payloadPtr, PREFIX
  <1>3. ASSUME NEW c \in Allocated, p = c + 1
        PROVE  blockBaseOf(p) = c
    BY <1>1, <1>3 DEF blockBaseOf, PREFIX
  <1> QED BY <1>2, <1>3

\* The call in progress hands out block b of the good heap h, which holds
\* everything the callers hold unchanged.
Serves(h, b) ==
  /\ HeapOk(h, blocks', frontier')
  /\ b \in blocks' /\ b \notin Allocated
  /\ blocks' \ FreeIn(h, blocks') = Allocated \cup {b}
  /\ \A c \in Allocated : sizeAt(h, c) = sizeAt(heap, c)
  /\ SamePayload(h, heap, Allocated)
  /\ req.need >= 1 /\ sizeAt(h, b) \in req.need .. req.need + 2
  /\ Return(h, b, req)
  /\ liveBlocks' = liveBlocks

\* The caller holds block b, zeroed when it asked for that, and everything
\* held before is where it was.
Served(b) ==
  /\ HeapOk(heap', blocks', frontier')
  /\ OwnersMatch'
  /\ Allocated' = Allocated \cup {b}
  /\ \A c \in Allocated : sizeAt(heap', c) = sizeAt(heap, c)
  /\ SamePayload(heap', heap, Allocated)
  /\ DOMAIN live' = DOMAIN live \cup {b + 1} /\ b + 1 \notin DOMAIN live
  /\ live'[b + 1] = req.need /\ b \in Nat /\ b + 1 \in Addr
  /\ \A p \in DOMAIN live : live'[p] = live[p]
  /\ req.zero => \A a \in b + 1 .. b + req.need : heap'.lo[a] = 0 /\ heap'.hi[a] = 0

\* A call returns a block of a good heap: the heap stays good and the caller
\* now holds that block.
LEMMA ReturnOk ==
  ASSUME TypeOK, OwnersMatch, NEW h, NEW b, Serves(h, b)
  PROVE  Served(b)
  <1> DEFINE B == blocks'
             top == frontier'
  <1>0. /\ HeapOk(h, B, top) /\ b \in B /\ b \notin Allocated
        /\ B \ FreeIn(h, B) = Allocated \cup {b}
        /\ \A c \in Allocated : sizeAt(h, c) = sizeAt(heap, c)
        /\ SamePayload(h, heap, Allocated)
        /\ req.need >= 1 /\ sizeAt(h, b) \in req.need .. req.need + 2
        /\ Return(h, b, req)
    BY DEF Serves
  <1>a. Layout(h, B, top) /\ b \notin FreeIn(h, B)
    BY <1>0 DEF HeapOk
  <1>b. req.need \in Nat
    BY DEF TypeOK
  <1>c. Allocated \subseteq Nat
    BY AllocatedAddr
  <1>1. /\ Layout(h, B, top) /\ b \notin FreeIn(h, B) /\ req.need \in Nat
        /\ Allocated \subseteq Nat /\ Allocated \subseteq B
    BY <1>0, <1>a, <1>b, <1>c
  <1>2. /\ b \in Nat /\ b + 1 \in Addr /\ sizeAt(h, b) \in Nat
        /\ req.need <= sizeAt(h, b)
    <2>1. /\ h \in HeapType /\ B \in SUBSET Addr /\ top \in Nat
          /\ Tiling(h, B, top) /\ b \in B
      BY <1>0, <1>a DEF Layout
    <2>2. b \in Nat /\ b + 1 \in Addr /\ sizeAt(h, b) \in Nat
      BY ONLY <2>1, BlockWords
    <2> QED BY <2>2, <1>0, <1>b
  <1>3. /\ HeapOk(heap', B, top)
        /\ FreeIn(heap', B) = FreeIn(h, B)
        /\ \A c \in B : sizeAt(heap', c) = sizeAt(h, c)
        /\ SamePayload(heap', h, B \ {b})
        /\ req.zero => \A a \in b + 1 .. b + req.need :
                          a \in Addr /\ heap'.lo[a] = 0 /\ heap'.hi[a] = 0
    <2>1. CASE req.zero
      <3>1. heap' = FillWords(h, payloadPtr(b), req.need, 0)
        BY <2>1, <1>0 DEF Return, MemZero
      <3>2. 0 \in Nat
        OBVIOUS
      <3>3. FillDone(heap', h, B, top, b, req.need, 0)
        BY <3>1, <3>2, <1>0, <1>1, <1>2, FillOk
      <3> QED BY <3>3 DEF FillDone
    <2>2. CASE ~req.zero
      <3>1. SamePayload(h, h, B \ {b})
        BY <1>a, PayloadApart DEF SamePayload
      <3>2. heap' = h
        BY <2>2, <1>0 DEF Return
      <3> QED BY <2>2, <3>1, <3>2, <1>0
    <2> QED BY <2>1, <2>2
  <1>4. Allocated' = Allocated \cup {b}
    BY <1>0, <1>3 DEF Allocated, Free
  <1>5. /\ live' = [p \in DOMAIN live \cup {b + 1} |->
                      IF p = b + 1 THEN req.need ELSE live[p]]
        /\ DOMAIN live = {c + 1 : c \in Allocated}
    BY <1>0 DEF Return, OwnersMatch, payloadPtr, PREFIX
  <1>6. DOMAIN live' = DOMAIN live \cup {b + 1} /\ b + 1 \notin DOMAIN live
    BY <1>0, <1>1, <1>2, <1>5
  <1>7. live'[b + 1] = req.need /\ \A p \in DOMAIN live : live'[p] = live[p]
    BY <1>5, <1>6
  <1>8. OwnersMatch'
    <2>1. DOMAIN live' = {c + 1 : c \in Allocated'}
      BY <1>4, <1>5, <1>6
    <2>2. ASSUME NEW p \in DOMAIN live'
          PROVE  sizeAt(heap', blockBaseOf(p)) \in live'[p] .. live'[p] + 2
      <3>1. CASE p = b + 1
        BY <3>1, <1>0, <1>1, <1>2, <1>3, <1>7 DEF blockBaseOf, PREFIX
      <3>2. CASE p # b + 1
        <4>1. p \in DOMAIN live /\ live'[p] = live[p]
          BY <3>2, <1>6, <1>7
        <4>2. blockBaseOf(p) \in Allocated
          BY <4>1, HeldIsAllocated
        <4>3. sizeAt(heap', blockBaseOf(p)) = sizeAt(heap, blockBaseOf(p))
          BY <4>2, <1>0, <1>1, <1>3
        <4> QED BY <4>1, <4>3 DEF OwnersMatch, MIN_SPLIT_EXTENT
      <3> QED BY <3>1, <3>2
    <2> QED BY <2>1, <2>2 DEF OwnersMatch, payloadPtr, PREFIX, MIN_SPLIT_EXTENT
  <1>9. /\ \A c \in Allocated : sizeAt(heap', c) = sizeAt(heap, c)
        /\ SamePayload(heap', heap, Allocated)
    <2>1. \A c \in Allocated : sizeAt(h, c) = sizeAt(heap, c) /\ c \in B \ {b}
      BY <1>0, <1>1
    <2> QED BY <2>1, <1>0, <1>3 DEF SamePayload
  <1> QED BY <1>2, <1>3, <1>4, <1>6, <1>7, <1>8, <1>9 DEF Served

\* RawFree merges with whichever neighbours are free and keeps the heap good.
LEMMA RawFreeOk ==
  ASSUME TypeOK, HeapOk(heap, blocks, frontier), OwnersMatch,
         NEW ptr, RawFree(ptr)
  PROVE  /\ HeapOk(heap', blocks', frontier')
         /\ Allocated' = Allocated \ {blockBaseOf(ptr)}
         /\ \A c \in Allocated' : sizeAt(heap', c) = sizeAt(heap, c)
         /\ SamePayload(heap', heap, Allocated')
  <1> DEFINE B  == blocks
             F  == FreeIn(heap, blocks)
             b  == blockBaseOf(ptr)
             nx == EndOf(heap, b)
             N  == JoinsNext(b)
             h1 == IF N THEN unlinkFree(heap, nx) ELSE heap
             s1 == IF N THEN sizeAt(heap, b) + FOOTER + PREFIX + sizeAt(heap, nx)
                   ELSE sizeAt(heap, b)
             F1 == IF N THEN F \ {nx} ELSE F
             pv == PrevBase(h1, b)
             P  == JoinsPrev(h1, b)
             h2 == IF P THEN unlinkFree(h1, pv) ELSE h1
             s2 == IF P THEN SizeOf(h1.lo[b - FOOTER]) + PREFIX + FOOTER + s1 ELSE s1
             b2 == IF P THEN pv ELSE b
             F2 == IF P THEN F1 \ {pv} ELSE F1
             B2 == B \ ((IF N THEN {nx} ELSE {}) \cup (IF P THEN {b} ELSE {}))
             e  == b + s1 + 2
             g  == insertFree(writeTags(h2, b2, s2, TRUE), b2)
  <1>1. /\ heap' = g /\ blocks' = B2 /\ frontier' = frontier
        /\ ptr \in DOMAIN live
    BY DEF RawFree
  <1>2. b \in B /\ b \notin F
    BY <1>1, HeldIsAllocated DEF Allocated, Free
  <1>3. /\ heap \in HeapType /\ B \in SUBSET Addr /\ frontier \in Nat
        /\ Layout(heap, B, frontier) /\ Tiling(heap, B, frontier)
        /\ TagsAgree(heap, B) /\ Listed(heap, F) /\ F \in SUBSET B
        /\ \A c, d \in F : EndOf(heap, c) # d
    BY DEF HeapOk, Layout, FreeIn, Coalesced
  <1> HIDE DEF B, F, g, b
  <1>4. \A c \in B : /\ c \in Nat /\ sizeAt(heap, c) \in Nat /\ sizeAt(heap, c) >= 1
                     /\ EndOf(heap, c) = c + sizeAt(heap, c) + 2
                     /\ EndOf(heap, c) <= frontier
    BY <1>3, BlockWords
  <1>5. \A c, d \in B : c # d => d < c \/ EndOf(heap, c) <= d
    BY <1>3, BlockWords
  <1>6. \A c \in B : EndOf(heap, c) < frontier => EndOf(heap, c) \in B
    BY <1>3 DEF Tiling
  \* The block after b
  <1>7. N => nx \in F /\ nx \in B
    <2>1. N => nx < frontier /\ isFree(heap, nx)
      BY DEF JoinsNext
    <2> QED BY <2>1, <1>2, <1>6 DEF FreeIn, F, B
  <1>8. ~N => nx = frontier \/ (nx \in B /\ nx < frontier /\ nx \notin F)
    <2>1. ~N => ~(nx < frontier) \/ ~isFree(heap, nx)
      BY DEF JoinsNext
    <2>2. nx \in Nat /\ nx <= frontier
      BY <1>2, <1>4
    <2> QED BY <2>1, <2>2, <1>2, <1>3, <1>6 DEF FreeIn, F
  <1>9. /\ Layout(h1, B, frontier) /\ TagsAgree(h1, B) /\ Listed(h1, F1)
        /\ FreeIn(h1, B) = F /\ SameTags(h1, heap, B) /\ F1 \in SUBSET F
        /\ SamePayload(h1, heap, B \ F)
    <2>1. CASE N
      <3>1. LET u == unlinkFree(heap, nx)
            IN  /\ Layout(u, B, frontier) /\ TagsAgree(u, B)
                /\ Listed(u, F \ {nx})
                /\ FreeIn(u, B) = FreeIn(heap, B)
                /\ SameTags(u, heap, B) /\ SamePayload(u, heap, B \ F)
        BY <2>1, <1>3, <1>7, UnlinkOk
      <3> QED BY <3>1, <2>1 DEF F, B
    <2>2. CASE ~N
      <3>1. SamePayload(heap, heap, B \ F)
        BY <1>3, PayloadApart DEF SamePayload
      <3> QED BY <3>1, <2>2, <1>3 DEF SameTags, F, B
    <2> QED BY <2>1, <2>2
  <1>10. /\ e \in Nat /\ s1 \in Nat /\ s1 >= 1 /\ e > b
         /\ N => e = EndOf(heap, nx)
         /\ ~N => e = nx
    BY <1>2, <1>4, <1>7 DEF PREFIX, FOOTER
  <1>11. /\ e = frontier \/ (e \in B /\ e < frontier)
         /\ e \notin F
    <2>1. CASE N
      <3>1. e <= frontier /\ (e < frontier => e \in B)
        BY <2>1, <1>4, <1>6, <1>7, <1>10
      <3>2. e \notin F
        BY <2>1, <1>3, <1>7, <1>10
      <3> QED BY <3>1, <3>2, <1>3, <1>10
    <2>2. CASE ~N
      <3>1. \A c \in F : c # frontier
        BY <1>3, <1>4
      <3> QED BY <3>1, <2>2, <1>8, <1>10
    <2> QED BY <2>1, <2>2
  <1>12. \A c \in B : c # b /\ (N => c # nx) => c < b \/ e <= c
    <2> SUFFICES ASSUME NEW c \in B, c # b, N => c # nx
                 PROVE  c < b \/ e <= c
      OBVIOUS
    <2>1. c < b \/ nx <= c
      BY <1>2, <1>5
    <2>2. N => c < nx \/ e <= c
      BY <1>5, <1>7, <1>10
    <2> QED BY <2>1, <2>2, <1>2, <1>4, <1>7, <1>10
  <1>13. N => b < nx /\ nx < e
    BY <1>2, <1>4, <1>7, <1>10
  <1> HIDE DEF N, h1, F1, nx, e, s1
  \* The block before b
  <1>14. /\ P => /\ pv \in F /\ EndOf(h1, pv) = b
                 /\ SizeOf(h1.lo[b - FOOTER]) = sizeAt(h1, pv)
         /\ ~P => \A c \in F : EndOf(h1, c) # b
    BY <1>2, <1>9, PrevOk
  <1> HIDE DEF P, pv
  <1>15. /\ P => /\ pv \in F /\ pv \in B /\ EndOf(heap, pv) = b /\ pv < b
                 /\ SizeOf(h1.lo[b - FOOTER]) = sizeAt(heap, pv)
                 /\ pv \in F1
         /\ ~P => \A c \in F : EndOf(heap, c) # b
    <2>1. \A c \in B : sizeAt(h1, c) = sizeAt(heap, c) /\ EndOf(h1, c) = EndOf(heap, c)
      BY <1>9 DEF SameTags
    <2>2. ASSUME P
          PROVE  /\ pv \in F /\ pv \in B /\ EndOf(heap, pv) = b /\ pv < b
                 /\ SizeOf(h1.lo[b - FOOTER]) = sizeAt(heap, pv)
      BY <2>1, <2>2, <1>3, <1>4, <1>14
    <2>3. P => pv \in F1
      BY <2>2, <1>2, <1>4, <1>7, <1>13 DEF F1
    <2> QED BY <2>1, <2>2, <2>3, <1>3, <1>14
  <1>16. /\ Layout(h2, B, frontier) /\ TagsAgree(h2, B) /\ Listed(h2, F2)
         /\ FreeIn(h2, B) = F /\ SameTags(h2, h1, B)
         /\ SamePayload(h2, h1, B \ F)
    <2>1. CASE P
      <3>1. F1 \in SUBSET B
        BY <1>3, <1>9
      <3>2. LET u == unlinkFree(h1, pv)
            IN  /\ Layout(u, B, frontier) /\ TagsAgree(u, B)
                /\ Listed(u, F1 \ {pv})
                /\ FreeIn(u, B) = FreeIn(h1, B)
                /\ SameTags(u, h1, B) /\ SamePayload(u, h1, B \ F1)
        BY <2>1, <3>1, <1>9, <1>15, UnlinkOk
      <3>3. SamePayload(unlinkFree(h1, pv), h1, B \ F)
        BY <3>2, <1>9 DEF SamePayload
      <3> QED BY <2>1, <3>2, <3>3, <1>9
    <2>2. CASE ~P
      <3>1. SamePayload(h1, h1, B \ F)
        BY <1>9, PayloadApart DEF SamePayload
      <3> QED BY <2>2, <3>1, <1>9 DEF SameTags
    <2> QED BY <2>1, <2>2
  <1>17. \A c \in B : EndOf(h2, c) = EndOf(heap, c) /\ sizeAt(h2, c) = sizeAt(heap, c)
    BY <1>9, <1>16 DEF SameTags
  <1>18. /\ b2 \in B /\ b2 \in Nat /\ s2 \in Nat /\ s2 >= 1 /\ e = b2 + s2 + 2
         /\ b2 <= b
    <2>1. CASE P
      <3>1. b = pv + sizeAt(heap, pv) + 2 /\ sizeAt(heap, pv) \in Nat /\ pv \in Nat
        BY <2>1, <1>4, <1>15
      <3> QED BY <2>1, <3>1, <1>2, <1>4, <1>10, <1>15 DEF PREFIX, FOOTER, e
    <2>2. CASE ~P
      BY <2>2, <1>2, <1>4, <1>10 DEF e
    <2> QED BY <2>1, <2>2
  <1>19. F2 = F \cap (B2 \ {b2})
    BY <1>2, <1>3, <1>9, <1>15 DEF F1
  <1>20. b2 \in B2 /\ B2 \in SUBSET B
    BY <1>2, <1>4, <1>7, <1>13, <1>15
  <1>21. e = frontier \/ (e < frontier /\ e \in B2)
    BY <1>2, <1>4, <1>7, <1>10, <1>11, <1>13
  <1>22. \A c \in B2 \ {b2} : c < b2 \/ e <= c
    <2> SUFFICES ASSUME NEW c \in B, c # b2, c # b, N => c # nx
                 PROVE  c < b2 \/ e <= c
      <3> SUFFICES ASSUME NEW c \in B2 \ {b2} PROVE c < b2 \/ e <= c
        OBVIOUS
      <3>1. c \in B /\ c # b2 /\ c # b /\ (N => c # nx)
        OBVIOUS
      <3> QED BY <3>1
    <2>1. c < b \/ e <= c
      BY <1>12
    <2>2. P => c < pv \/ b <= c
      BY <1>5, <1>15
    <2> QED BY <2>1, <2>2, <1>2, <1>4
  <1>23. \A c \in B \ B2 : b2 < c /\ c < e
    BY <1>2, <1>4, <1>7, <1>10, <1>13, <1>15
  <1>24. e \notin F2 /\ \A c \in F2 : EndOf(h2, c) # b2
    <2>1. \A c \in F : EndOf(heap, c) # b2
      BY <1>3, <1>15
    <2>2. F2 \in SUBSET F
      BY <1>19
    <2> QED BY <2>1, <2>2, <1>3, <1>11, <1>17
  <1>25. \A c, d \in F2 : EndOf(h2, c) # d
    BY <1>3, <1>17, <1>19
  <1> HIDE DEF h2, F2, b2, s2, B2
  <1>26. /\ HeapOk(g, B2, frontier)
         /\ FreeIn(g, B2) = F2 \cup {b2}
         /\ \A c \in B2 \ {b2} : sizeAt(g, c) = sizeAt(h2, c)
         /\ SamePayload(g, h2, B2 \ (F2 \cup {b2}))
    <2>1. /\ F2 = FreeIn(h2, B) \cap (B2 \ {b2}) /\ Listed(h2, F2)
          /\ Layout(h2, B, frontier) /\ TagsAgree(h2, B)
          /\ B2 \in SUBSET B /\ b2 \in B2 /\ s2 \in Nat /\ s2 >= 1
          /\ e \in Nat /\ e = b2 + s2 + 2
      BY <1>10, <1>16, <1>18, <1>19, <1>20
    <2>2. Mergeable(h2, B, frontier, B2, b2, s2, F2, e)
      BY <2>1, <1>21, <1>22, <1>23, <1>24, <1>25 DEF Mergeable
    <2>3. g = Merged(h2, b2, s2)
      BY DEF g, Merged
    <2>4. MergeDone(g, h2, frontier, B2, b2, F2)
      BY ONLY <2>2, <2>3, MergeOk
    <2> QED BY <2>4 DEF MergeDone
  <1>27. Allocated' = (B \ F) \ {b}
    <2>1. Allocated' = B2 \ (F2 \cup {b2})
      BY <1>1, <1>26 DEF Allocated, Free
    <2>2. B2 \ (F2 \cup {b2}) = (B \ F) \ {b}
      BY <1>2, <1>3, <1>7, <1>15, <1>19 DEF B2, b2
    <2> QED BY <2>1, <2>2
  <1>28. \A c \in Allocated' : sizeAt(heap', c) = sizeAt(heap, c)
    <2> SUFFICES ASSUME NEW c \in Allocated' PROVE sizeAt(heap', c) = sizeAt(heap, c)
      OBVIOUS
    <2>1. c \in B2 /\ c # b2 /\ c \in B
      BY <1>2, <1>7, <1>15, <1>27 DEF B2, b2
    <2> QED BY <2>1, <1>1, <1>17, <1>26
  <1>29. SamePayload(heap', heap, Allocated')
    <2>1. /\ Allocated' \subseteq B \ F
          /\ Allocated' \subseteq B2 \ (F2 \cup {b2})
      BY <1>1, <1>26, <1>27 DEF Allocated, Free
    <2>2. \A c \in B : sizeAt(h1, c) = sizeAt(heap, c) /\ sizeAt(h2, c) = sizeAt(heap, c)
      BY <1>9, <1>17 DEF SameTags
    <2> QED BY <2>1, <2>2, <1>1, <1>9, <1>16, <1>26 DEF SamePayload
  <1> QED BY <1>1, <1>26, <1>27, <1>28, <1>29 DEF Allocated, Free, F, B, b


(***************************************************************************)
(* The invariant holds initially and every action keeps it.                *)
(***************************************************************************)
LEMMA InitIInv == Init => IInv
  <1> SUFFICES ASSUME Init PROVE IInv
    OBVIOUS
  <1>1. /\ heap = [lo |-> [a \in Addr |-> 0], hi |-> [a \in Addr |-> 0],
                   head |-> [c \in Classes |-> 0]]
        /\ frontier = 0 /\ liveBlocks = 0 /\ blocks = {} /\ cursor = 0
        /\ pc = "idle" /\ req = [need |-> 0, zero |-> FALSE]
        /\ live = [p \in {} |-> 0] /\ DOMAIN live = {}
    BY DEF Init, NoReq
  <1>2. heap \in HeapType
    BY <1>1 DEF HeapType, Link
  <1>3. TypeOK
    BY <1>1, <1>2 DEF TypeOK, HeapType, Link
  <1>4. HeapOk(heap, blocks, frontier)
    <2>1. Layout(heap, blocks, frontier)
      BY <1>1, <1>2, ConstantsAssumption DEF Layout, Tiling
    <2>2. TagsAgree(heap, blocks) /\ FreeIn(heap, blocks) = {} /\ Coalesced(heap, blocks)
      BY <1>1 DEF TagsAgree, FreeIn, Coalesced
    <2>3. Listed(heap, {})
      <3>1. Linked(heap, {})
        BY <1>1 DEF Linked
      <3>2. Ranks(heap, {}, [c \in {} |-> 0])
        BY DEF Ranks
      <3> QED BY <3>1, <3>2 DEF Listed
    <2> QED BY <2>1, <2>2, <2>3 DEF HeapOk
  <1>5. OwnersMatch
    BY <1>1 DEF OwnersMatch, Allocated
  <1>6. Cardinality(DOMAIN live) = 0
    BY <1>1, FS_EmptySet
  <1> QED BY <1>1, <1>3, <1>4, <1>5, <1>6 DEF IInv, RequestOk, Counted, TrapOnlyDouble

\* What callers hold is finite, so it can be counted.
LEMMA HeldFinite ==
  ASSUME TypeOK
  PROVE  IsFiniteSet(DOMAIN live) /\ Cardinality(DOMAIN live) \in Nat
  <1>1. IsFiniteSet(Addr)
    <2>1. ArenaBase \in Int /\ ArenaBase + ARENA_WORDS - 1 \in Int
      BY ConstantsAssumption
    <2> QED BY <2>1, FS_Interval DEF Addr
  <1>2. DOMAIN live \subseteq Addr
    BY DEF TypeOK
  <1>3. IsFiniteSet(DOMAIN live)
    BY <1>1, <1>2, FS_Subset
  <1> QED BY <1>3, FS_CardinalityType

\* A step that touches neither memory nor what callers hold.
LEMMA SameHeap ==
  ASSUME IInv, heap' = heap, blocks' = blocks, frontier' = frontier, live' = live
  PROVE  HeapOk(heap', blocks', frontier') /\ OwnersMatch'
  BY DEF IInv, OwnersMatch, Allocated, Free, FreeIn, isFree, sizeAt

\* Every accepted request is for at least one word.
LEMMA AlignUpPositive ==
  ASSUME NEW bytes \in Int, bytes > 0
  PROVE  alignUp(bytes) \in Nat /\ alignUp(bytes) >= 1
  BY DEF alignUp

\* RejectAlloc aborts and touches no memory.
LEMMA RejectAllocStep ==
  ASSUME IInv, NEW bytes, RejectAlloc(bytes)
  PROVE  IInv'
  <1>1. /\ heap' = heap /\ blocks' = blocks /\ frontier' = frontier /\ live' = live
        /\ liveBlocks' = liveBlocks /\ cursor' = cursor /\ req' = req
        /\ pc = "idle" /\ pc' = "rejected"
    BY DEF RejectAlloc
  <1>2. TypeOK'
    BY <1>1 DEF IInv, TypeOK, Aborts
  <1>3. HeapOk(heap', blocks', frontier') /\ OwnersMatch'
    BY <1>1, SameHeap
  <1>4. RequestOk' /\ Counted' /\ TrapOnlyDouble'
    BY <1>1 DEF IInv, RequestOk, Counted, TrapOnlyDouble
  <1> QED BY <1>2, <1>3, <1>4 DEF IInv

\* RawAlloc starts a request: the class head or the large head it
\* looks at is a free block of that class.
LEMMA RawAllocStep ==
  ASSUME IInv, NEW bytes \in RequestBytes, NEW zero \in BOOLEAN, RawAlloc(bytes, zero)
  PROVE  IInv'
  <1> DEFINE need == alignUp(bytes)
  <1>1. /\ heap' = heap /\ blocks' = blocks /\ frontier' = frontier /\ live' = live
        /\ liveBlocks' = liveBlocks + 1
        /\ req' = [need |-> need, zero |-> zero]
        /\ pc = "idle"
        /\ pc' = IF SmallHit(need) THEN "pop" ELSE "scan"
        /\ cursor' = IF SmallHit(need) THEN heap.head[need - 1] ELSE heap.head[-1]
        /\ bytes > 0
    BY DEF RawAlloc
  <1>2. need \in Nat /\ need >= 1
    BY <1>1, AlignUpPositive, ConstantsAssumption
  <1> HIDE DEF need
  <1>3. HeapOk(heap, blocks, frontier) /\ Listed(heap, Free) /\ heap \in HeapType
    BY DEF IInv, HeapOk, Layout, Free
  <1>4. -1 \in Classes
    BY ConstantsAssumption DEF Classes
  <1>5. /\ cursor' \in Link
        /\ pc' = "pop" => cursor' \in Free /\ sizeAt(heap, cursor') = need
        /\ pc' = "scan" => cursor' = 0 \/ cursor' \in Free
    <2>1. CASE SmallHit(need)
      <3>1. need - 1 \in Classes /\ heap.head[need - 1] # 0
        BY <2>1, <1>2, ConstantsAssumption DEF SmallHit, Classes
      <3>2. /\ heap.head[need - 1] \in Free
            /\ ClassOf(heap, heap.head[need - 1]) = need - 1
        BY <3>1, <1>3 DEF Listed, Linked
      <3>3. sizeAt(heap, heap.head[need - 1]) \in Nat
        BY <3>2, <1>3, BlockWords DEF HeapOk, Layout, Free, FreeIn
      <3>4. sizeAt(heap, heap.head[need - 1]) = need
        BY <3>2, <3>3, <1>2, ConstantsAssumption DEF ClassOf, classIndexOf
      <3>5. heap.head[need - 1] \in Link
        BY <3>1, <1>3 DEF HeapType
      <3> QED BY <2>1, <3>2, <3>4, <3>5, <1>1
    <2>2. CASE ~SmallHit(need)
      <3>1. heap.head[-1] = 0 \/ heap.head[-1] \in Free
        BY <1>3, <1>4 DEF Listed, Linked
      <3>2. heap.head[-1] \in Link
        BY <1>3, <1>4 DEF HeapType
      <3> QED BY <2>2, <3>1, <3>2, <1>1
    <2> QED BY <2>1, <2>2
  <1>6. TypeOK'
    <2>1. req' \in [need: Nat, zero: BOOLEAN]
      BY <1>1, <1>2
    <2>2. liveBlocks' \in Nat
      BY <1>1 DEF IInv, TypeOK
    <2>3. pc' \in {"idle", "pop", "scan"}
      BY <1>1
    <2> QED BY <1>1, <1>5, <2>1, <2>2, <2>3 DEF IInv, TypeOK
  <1>7. HeapOk(heap', blocks', frontier') /\ OwnersMatch'
    BY <1>1, SameHeap
  <1>8. RequestOk'
    <2>1. Free' = Free /\ sizeAt(heap', cursor') = sizeAt(heap, cursor')
      BY <1>1 DEF Free, FreeIn, isFree, sizeAt
    <2>2. req'.need = need
      BY <1>1
    <2> QED BY <2>1, <2>2, <1>1, <1>2, <1>5 DEF RequestOk
  <1>9. Counted'
    <2>0. Cardinality(DOMAIN live) \in Nat
      BY HeldFinite DEF IInv
    <2>1. liveBlocks = Cardinality(DOMAIN live)
      BY <2>0, <1>1 DEF IInv, Counted
    <2>2. liveBlocks' = Cardinality(DOMAIN live') + 1
      BY <1>1, <2>1
    <2> QED BY <2>2, <1>1 DEF Counted
  <1>10. TrapOnlyDouble'
    BY <1>1 DEF TrapOnlyDouble
  <1> QED BY <1>6, <1>7, <1>8, <1>9, <1>10 DEF IInv

\* The first-fit scan moves on to another block of its list.
LEMMA ScanNextStep ==
  ASSUME IInv, ScanNext
  PROVE  IInv'
  <1>1. /\ heap' = heap /\ blocks' = blocks /\ frontier' = frontier /\ live' = live
        /\ liveBlocks' = liveBlocks /\ req' = req /\ pc = "scan" /\ pc' = pc
        /\ cursor # 0 /\ cursor' = getNext(heap, cursor)
    BY DEF ScanNext
  <1>2. cursor \in Free /\ Listed(heap, Free)
    BY <1>1 DEF IInv, RequestOk, HeapOk, Free
  <1>3. cursor' = 0 \/ cursor' \in Free
    BY <1>1, <1>2 DEF Listed, Linked
  <1>4. cursor' \in Link
    BY <1>3 DEF IInv, TypeOK, Free, FreeIn, Link
  <1>5. TypeOK'
    BY <1>1, <1>4 DEF IInv, TypeOK
  <1>6. HeapOk(heap', blocks', frontier') /\ OwnersMatch'
    BY <1>1, SameHeap
  <1>7. Free' = Free
    BY <1>1 DEF Free, FreeIn, isFree
  <1>8. RequestOk' /\ Counted' /\ TrapOnlyDouble'
    BY <1>1, <1>3, <1>7 DEF IInv, RequestOk, Counted, TrapOnlyDouble
  <1> QED BY <1>5, <1>6, <1>8 DEF IInv

\* carve gives up: at most the frontier's lazy initialization happens.
LEMMA CarveExhaustedStep ==
  ASSUME IInv, CarveExhausted
  PROVE  IInv'
  <1>1. /\ heap' = heap /\ blocks' = blocks /\ frontier' = CarveBase /\ live' = live
        /\ liveBlocks' = liveBlocks /\ req' = req /\ cursor' = cursor
        /\ pc = "scan" /\ pc' = "exhausted"
    BY DEF CarveExhausted
  <1>2. HeapOk(heap, blocks, frontier) /\ Layout(heap, blocks, frontier)
    BY DEF IInv, HeapOk
  <1>3. HeapOk(heap', blocks', frontier')
    <2>1. CASE frontier = 0
      <3>1. blocks = {}
        <4>1. ASSUME NEW c \in blocks
              PROVE  FALSE
          <5>1. /\ EndOf(heap, c) = c + sizeAt(heap, c) + 2 /\ EndOf(heap, c) <= 0
                /\ c \in Nat /\ sizeAt(heap, c) \in Nat
            BY <2>1, <1>2, BlockWords DEF Layout
          <5> QED BY <5>1
        <4> QED BY <4>1
      <3>2. frontier' = ArenaBase
        BY <2>1, <1>1 DEF CarveBase
      <3>3. Layout(heap', blocks', frontier')
        BY <3>1, <3>2, <1>1, <1>2, ConstantsAssumption DEF Layout, Tiling
      <3> QED BY <3>3, <1>1, <1>2 DEF HeapOk
    <2>2. CASE frontier # 0
      BY <2>2, <1>1, <1>2 DEF CarveBase
    <2> QED BY <2>1, <2>2
  <1>4. OwnersMatch'
    BY <1>1 DEF IInv, OwnersMatch, Allocated, Free, FreeIn, isFree, sizeAt
  <1>5. TypeOK'
    BY <1>1, ConstantsAssumption DEF IInv, TypeOK, CarveBase, Aborts
  <1>6. RequestOk' /\ Counted' /\ TrapOnlyDouble'
    BY <1>1 DEF IInv, RequestOk, Counted, TrapOnlyDouble
  <1> QED BY <1>3, <1>4, <1>5, <1>6 DEF IInv

\* The double-free trap stops the run on a block that is free.
LEMMA FreeTrappedStep ==
  ASSUME IInv, NEW p \in Addr, FreeTrapped(p)
  PROVE  IInv'
  <1>1. /\ heap' = heap /\ blocks' = blocks /\ frontier' = frontier /\ live' = live
        /\ liveBlocks' = liveBlocks /\ req' = req /\ cursor' = p
        /\ pc = "idle" /\ pc' = "trapped" /\ isFree(heap, blockBaseOf(p))
    BY DEF FreeTrapped
  <1>2. p \notin DOMAIN live
    BY <1>1, HeldIsAllocated DEF IInv, Allocated, Free, FreeIn
  <1>3. TypeOK'
    BY <1>1 DEF IInv, TypeOK, Aborts, Link
  <1>4. HeapOk(heap', blocks', frontier') /\ OwnersMatch'
    BY <1>1, SameHeap
  <1>5. RequestOk' /\ Counted' /\ TrapOnlyDouble'
    BY <1>1, <1>2 DEF IInv, RequestOk, Counted, TrapOnlyDouble
  <1> QED BY <1>3, <1>4, <1>5 DEF IInv

\* A step that hands out a block keeps the invariant.
LEMMA ServesKeepsIInv ==
  ASSUME IInv, pc \in {"pop", "scan"}, NEW h, NEW b, Serves(h, b)
  PROVE  IInv'
  <1>1. Served(b) /\ Return(h, b, req) /\ liveBlocks' = liveBlocks
    BY ReturnOk DEF IInv, Serves
  <1>2. /\ HeapOk(heap', blocks', frontier') /\ OwnersMatch'
        /\ DOMAIN live' = DOMAIN live \cup {b + 1} /\ b + 1 \notin DOMAIN live
        /\ b + 1 \in Addr
        /\ heap' \in HeapType /\ blocks' \in SUBSET Addr /\ frontier' \in Nat
    BY <1>1 DEF Served, HeapOk, Layout
  <1>3. pc' = "idle" /\ cursor' = 0 /\ req' = [need |-> 0, zero |-> FALSE]
    BY <1>1 DEF Return, NoReq
  <1>4. /\ DOMAIN live' \subseteq Addr
        /\ \A p \in DOMAIN live' : live'[p] \in Nat
    BY <1>1 DEF IInv, TypeOK, Served
  <1>5. TypeOK'
    BY <1>1, <1>2, <1>3, <1>4 DEF IInv, TypeOK, HeapType, Link
  <1>6. Counted'
    <2>1. Cardinality(DOMAIN live') = Cardinality(DOMAIN live) + 1
      BY <1>2, HeldFinite, FS_AddElement DEF IInv
    <2>2. Cardinality(DOMAIN live) \in Nat
      BY HeldFinite DEF IInv
    <2>3. liveBlocks = Cardinality(DOMAIN live) + 1
      BY DEF IInv, Counted
    <2>4. liveBlocks' = Cardinality(DOMAIN live')
      BY <2>1, <2>3, <1>1
    <2> QED BY <2>1, <2>2, <2>4, <1>3 DEF Counted
  <1>7. RequestOk' /\ TrapOnlyDouble'
    BY <1>3 DEF RequestOk, TrapOnlyDouble
  <1> QED BY <1>2, <1>5, <1>6, <1>7 DEF IInv

\* Popping an exact class hands out a whole free block.
LEMMA PopClassServes ==
  ASSUME IInv, PopClass
  PROVE  pc = "pop" /\ \E h : Serves(h, cursor)
  <1> DEFINE h == ServedWhole(heap, cursor)
  <1>1. /\ TypeOK /\ OwnersMatch /\ HeapOk(heap, blocks, frontier)
        /\ pc = "pop" /\ cursor \in FreeIn(heap, blocks) /\ cursor \in blocks
        /\ sizeAt(heap, cursor) = req.need /\ req.need >= 1
        /\ frontier' = frontier /\ blocks' = blocks /\ liveBlocks' = liveBlocks
    BY DEF IInv, RequestOk, PopClass, Free, FreeIn
  <1>2. Return(h, cursor, req)
    BY <1>1 DEF PopClass, ServedWhole
  <1>3. /\ HeapOk(h, blocks, frontier)
        /\ FreeIn(h, blocks) = FreeIn(heap, blocks) \ {cursor}
        /\ \A c \in blocks : sizeAt(h, c) = sizeAt(heap, c)
        /\ SamePayload(h, heap, blocks \ FreeIn(heap, blocks))
    <2>1. WholeDone(h, heap, blocks, frontier, cursor)
      BY <1>1, ServeWholeOk
    <2> QED BY <2>1 DEF WholeDone
  <1> HIDE DEF h
  <1>4. /\ blocks \ FreeIn(h, blocks) = Allocated \cup {cursor}
        /\ cursor \notin Allocated
        /\ \A c \in Allocated : sizeAt(h, c) = sizeAt(heap, c)
        /\ SamePayload(h, heap, Allocated)
    BY <1>1, <1>3 DEF Allocated, Free
  <1>5. sizeAt(h, cursor) \in req.need .. req.need + 2
    BY <1>1, <1>3 DEF TypeOK
  <1>6. Serves(h, cursor)
    BY <1>1, <1>2, <1>3, <1>4, <1>5 DEF Serves
  <1> QED BY <1>1, <1>6

\* The first fit is handed out whole or split.
LEMMA ScanHitServes ==
  ASSUME IInv, ScanHit
  PROVE  pc = "scan" /\ \E h : Serves(h, cursor)
  <1> DEFINE have == sizeAt(heap, cursor)
             h == splitServed(unlinkFree(heap, cursor), cursor, have, req.need)
             B == IF Splits(have, req.need)
                  THEN blocks \cup {RemBase(cursor, req.need)} ELSE blocks
  <1>1. /\ TypeOK /\ OwnersMatch /\ HeapOk(heap, blocks, frontier)
        /\ pc = "scan" /\ cursor \in FreeIn(heap, blocks) /\ cursor \in blocks
        /\ have >= req.need /\ req.need >= 1 /\ req.need \in Nat
        /\ frontier' = frontier /\ blocks' = B /\ liveBlocks' = liveBlocks
        /\ Return(h, cursor, req)
    BY DEF IInv, RequestOk, ScanHit, Fits, Free, FreeIn, TypeOK
  <1>2. have \in Nat
    BY <1>1, BlockWords DEF HeapOk, Layout
  <1>3. /\ HeapOk(h, B, frontier) /\ cursor \in B
        /\ B \ FreeIn(h, B) = Allocated \cup {cursor} /\ cursor \notin Allocated
        /\ \A c \in Allocated : sizeAt(h, c) = sizeAt(heap, c)
        /\ SamePayload(h, heap, Allocated)
        /\ sizeAt(h, cursor) \in req.need .. req.need + 2
    <2>1. CASE Splits(have, req.need)
      <3> DEFINE r == RemBase(cursor, req.need)
      <3>1. B = blocks \cup {r}
        BY <2>1
      <3>2. /\ HeapOk(h, blocks \cup {r}, frontier)
            /\ r \notin blocks
            /\ FreeIn(h, blocks \cup {r}) = (FreeIn(heap, blocks) \ {cursor}) \cup {r}
            /\ sizeAt(h, cursor) = req.need
            /\ \A c \in blocks \ {cursor} : sizeAt(h, c) = sizeAt(heap, c)
            /\ SamePayload(h, heap, blocks \ FreeIn(heap, blocks))
        <4>1. h = ServedSplit(heap, cursor, req.need)
          BY DEF ServedSplit
        <4>2. /\ HeapOk(heap, blocks, frontier) /\ cursor \in FreeIn(heap, blocks)
              /\ req.need \in Nat /\ req.need >= 1
              /\ Splits(sizeAt(heap, cursor), req.need)
          BY <2>1, <1>1
        <4> HIDE DEF h
        <4>3. SplitDone(h, heap, blocks, frontier, cursor, req.need, r)
          BY ONLY <4>1, <4>2, SplitOk
        <4> HIDE DEF r
        <4> QED BY <4>3 DEF SplitDone
      <3> HIDE DEF r, h, B
      <3>3. cursor # r
        BY <1>1, <3>2
      <3>4. SamePayload(h, heap, Allocated)
        BY <3>2 DEF Allocated, Free
      <3> QED BY <3>1, <3>2, <3>3, <3>4, <1>1, <1>2 DEF Allocated, Free
    <2>2. CASE ~Splits(have, req.need)
      <3>1. h = ServedWhole(heap, cursor)
        BY <2>2 DEF splitServed, ServedWhole
      <3>2. /\ HeapOk(h, blocks, frontier)
            /\ FreeIn(h, blocks) = FreeIn(heap, blocks) \ {cursor}
            /\ \A c \in blocks : sizeAt(h, c) = sizeAt(heap, c)
            /\ SamePayload(h, heap, blocks \ FreeIn(heap, blocks))
        <4>1. WholeDone(h, heap, blocks, frontier, cursor)
          BY <3>1, <1>1, ServeWholeOk
        <4> HIDE DEF h
        <4> QED BY <4>1 DEF WholeDone
      <3>3. have < req.need + 3
        BY <2>2, <1>1, <1>2 DEF Splits, MIN_SPLIT_EXTENT
      <3>4. B = blocks
        BY <2>2
      <3>5. sizeAt(h, cursor) = have
        BY <3>2, <1>1
      <3>6. SamePayload(h, heap, Allocated)
        BY <3>2 DEF Allocated, Free
      <3> HIDE DEF h, B, have
      <3> QED BY <3>2, <3>3, <3>4, <3>5, <3>6, <1>1, <1>2 DEF Allocated, Free
    <2> QED BY <2>1, <2>2
  <1> HIDE DEF h, B
  <1>4. Serves(h, cursor)
    BY <1>1, <1>3 DEF Serves
  <1> QED BY <1>1, <1>4

\* A new block is carved and handed out.
LEMMA CarveServes ==
  ASSUME IInv, Carve
  PROVE  pc = "scan" /\ \E h : Serves(h, CarveBase)
  <1> DEFINE base == CarveBase
             n == req.need
             h == ServedCarve(heap, base, n)
             top == base + n + 2
  <1>1. /\ TypeOK /\ OwnersMatch /\ HeapOk(heap, blocks, frontier)
        /\ pc = "scan" /\ n >= 1 /\ n \in Nat
        /\ blocks' = blocks \cup {base} /\ liveBlocks' = liveBlocks
        /\ Return(h, base, req)
    BY DEF IInv, RequestOk, Carve, TypeOK, ServedCarve
  <1>2. /\ base \in Nat
        /\ frontier = 0 => base = ArenaBase
        /\ frontier # 0 => base = frontier
    BY <1>1, ConstantsAssumption DEF CarveBase, TypeOK
  <1>3. frontier' = top /\ base + n + 2 <= ArenaBase + ARENA_WORDS
    BY <1>1, <1>2, ConstantsAssumption DEF Carve, Exhausted, PREFIX, FOOTER
  <1>4. /\ HeapOk(h, blocks \cup {base}, top)
        /\ base \notin blocks
        /\ FreeIn(h, blocks \cup {base}) = FreeIn(heap, blocks)
        /\ sizeAt(h, base) = n
        /\ \A c \in blocks : sizeAt(h, c) = sizeAt(heap, c)
        /\ SamePayload(h, heap, blocks)
    <2>1. h = ServedCarve(heap, base, n)
      OBVIOUS
    <2>2. top = base + n + 2
      OBVIOUS
    <2> HIDE DEF h, top, base
    <2>3. CarveReady(heap, blocks, frontier, base, n, top)
      BY <2>2, <1>1, <1>2, <1>3 DEF CarveReady
    <2>4. CarveDone(h, heap, blocks, base, n, top)
      BY ONLY <2>1, <2>3, CarveOk
    <2> QED BY <2>4 DEF CarveDone
  <1> HIDE DEF h, top, base
  <1>5. /\ blocks' \ FreeIn(h, blocks') = Allocated \cup {base}
        /\ base \notin Allocated /\ base \in blocks'
        /\ \A c \in Allocated : sizeAt(h, c) = sizeAt(heap, c)
        /\ sizeAt(h, base) \in n .. n + 2
    BY <1>1, <1>4 DEF Allocated, Free, FreeIn
  <1>6. SamePayload(h, heap, Allocated)
    BY <1>4 DEF Allocated, SamePayload
  <1>7. Serves(h, base)
    BY <1>1, <1>3, <1>4, <1>5, <1>6 DEF Serves
  <1> QED BY <1>1, <1>7 DEF base

\* Serving from a class list keeps the invariant.
LEMMA PopClassStep ==
  ASSUME IInv, PopClass
  PROVE  IInv'
  BY PopClassServes, ServesKeepsIInv

\* Serving from the scanned list keeps the invariant.
LEMMA ScanHitStep ==
  ASSUME IInv, ScanHit
  PROVE  IInv'
  BY ScanHitServes, ServesKeepsIInv

\* Carving from the frontier keeps the invariant.
LEMMA CarveStep ==
  ASSUME IInv, Carve
  PROVE  IInv'
  BY CarveServes, ServesKeepsIInv

\* RawFree returns a held block, merged with its free neighbours.
LEMMA RawFreeStep ==
  ASSUME IInv, NEW ptr \in Addr, RawFree(ptr)
  PROVE  IInv'
  <1>1. /\ TypeOK /\ OwnersMatch /\ HeapOk(heap, blocks, frontier)
        /\ pc = "idle" /\ pc' = pc /\ cursor' = cursor /\ req' = req
        /\ ptr \in DOMAIN live
        /\ live' = [p \in DOMAIN live \ {ptr} |-> live[p]]
        /\ liveBlocks' = liveBlocks - 1
    BY DEF IInv, RawFree
  <1>2. /\ HeapOk(heap', blocks', frontier')
        /\ Allocated' = Allocated \ {blockBaseOf(ptr)}
        /\ \A c \in Allocated' : sizeAt(heap', c) = sizeAt(heap, c)
        /\ SamePayload(heap', heap, Allocated')
    BY <1>1, RawFreeOk
  <1>3. blockBaseOf(ptr) \in Allocated /\ ptr = blockBaseOf(ptr) + 1
    BY <1>1, HeldIsAllocated
  <1>4. DOMAIN live' = DOMAIN live \ {ptr} /\ \A p \in DOMAIN live' : live'[p] = live[p]
    BY <1>1
  <1>5. OwnersMatch'
    <2>0. Allocated \subseteq Nat
      BY <1>1, AllocatedAddr
    <2>1. DOMAIN live = {c + 1 : c \in Allocated}
      BY <1>1 DEF OwnersMatch, payloadPtr, PREFIX
    <2>2. DOMAIN live' = {c + 1 : c \in Allocated'}
      <3> DEFINE q == blockBaseOf(ptr)
      <3>1. q \in Nat /\ q \in Allocated /\ ptr = q + 1 /\ Allocated' = Allocated \ {q}
        BY <2>0, <1>2, <1>3
      <3> HIDE DEF q
      <3> QED BY <3>1, <2>0, <2>1, <1>4
    <2>3. ASSUME NEW p \in DOMAIN live'
          PROVE  sizeAt(heap', blockBaseOf(p)) \in live'[p] .. live'[p] + 2
      <3>1. p \in DOMAIN live /\ p # ptr /\ live'[p] = live[p]
        BY <1>4
      <3>2. blockBaseOf(p) \in Allocated /\ p = blockBaseOf(p) + 1
        BY <3>1, <1>1, HeldIsAllocated
      <3>3. blockBaseOf(p) \in Allocated'
        BY <3>1, <3>2, <1>2, <1>3
      <3>4. sizeAt(heap', blockBaseOf(p)) = sizeAt(heap, blockBaseOf(p))
        BY <3>3, <1>2
      <3> QED BY <3>1, <3>4, <1>1 DEF OwnersMatch, MIN_SPLIT_EXTENT
    <2> QED BY <2>2, <2>3 DEF OwnersMatch, payloadPtr, PREFIX, MIN_SPLIT_EXTENT
  <1>6. /\ Cardinality(DOMAIN live') = Cardinality(DOMAIN live) - 1
        /\ Cardinality(DOMAIN live') \in Nat
    <2>1. IsFiniteSet(DOMAIN live) /\ Cardinality(DOMAIN live) \in Nat
      BY <1>1, HeldFinite
    <2>2. IsFiniteSet(DOMAIN live') /\ Cardinality(DOMAIN live') = Cardinality(DOMAIN live) - 1
      BY <2>1, <1>1, <1>4, FS_RemoveElement
    <2> QED BY <2>2, FS_CardinalityType
  <1>7. liveBlocks' = Cardinality(DOMAIN live')
    <2>1. liveBlocks = Cardinality(DOMAIN live) + 0
      BY <1>1 DEF IInv, Counted
    <2> QED BY <2>1, <1>1, <1>6, HeldFinite
  <1>8. TypeOK'
    <2>1. heap' \in HeapType /\ blocks' \in SUBSET Addr /\ frontier' \in Nat
      BY <1>2 DEF HeapOk, Layout
    <2>2. DOMAIN live' \subseteq Addr /\ \A p \in DOMAIN live' : live'[p] \in Nat
      BY <1>1, <1>4 DEF TypeOK
    <2> QED BY <2>1, <2>2, <1>1, <1>6, <1>7 DEF TypeOK, HeapType
  <1>9. RequestOk' /\ TrapOnlyDouble'
    BY <1>1 DEF RequestOk, TrapOnlyDouble
  <1>10. Counted'
    BY <1>1, <1>6, <1>7 DEF Counted
  <1> QED BY <1>2, <1>5, <1>8, <1>9, <1>10 DEF IInv

\* A caller's store stays inside its payload.
LEMMA CallerWriteOk ==
  ASSUME IInv, NEW p \in DOMAIN live, NEW v \in UserWords, CallerWrite(p, v)
  PROVE  /\ HeapOk(heap', blocks, frontier)
         /\ FreeIn(heap', blocks) = FreeIn(heap, blocks)
         /\ \A c \in blocks : sizeAt(heap', c) = sizeAt(heap, c)
         /\ SamePayload(heap', heap, blocks \ {blockBaseOf(p)})
  <1> DEFINE b == blockBaseOf(p)
             n == live[p]
  <1>1. /\ TypeOK /\ OwnersMatch /\ HeapOk(heap, blocks, frontier)
        /\ heap' = FillWords(heap, p, n, v)
    BY DEF IInv, CallerWrite
  <1>2. b \in Allocated /\ p = payloadPtr(b)
    BY <1>1, HeldIsAllocated DEF payloadPtr, PREFIX
  <1>3. n \in Nat /\ v \in Nat /\ n <= sizeAt(heap, b)
    <2>1. n \in Nat /\ v \in Nat
      BY <1>1, ConstantsAssumption DEF TypeOK
    <2>2. sizeAt(heap, b) \in n .. n + 2
      BY <1>1 DEF OwnersMatch, MIN_SPLIT_EXTENT
    <2> QED BY <2>1, <2>2
  <1>4. b \in blocks /\ b \notin FreeIn(heap, blocks)
    BY <1>2 DEF Allocated, Free
  <1> HIDE DEF b, n
  <1>5. FillDone(heap', heap, blocks, frontier, b, n, v)
    BY <1>1, <1>2, <1>3, <1>4, FillOk
  <1> QED BY <1>5 DEF b, FillDone

\* What a caller stores in its object keeps the invariant.
LEMMA CallerWriteStep ==
  ASSUME IInv, NEW p \in DOMAIN live, NEW v \in UserWords, CallerWrite(p, v)
  PROVE  IInv'
  <1>1. /\ TypeOK /\ OwnersMatch /\ HeapOk(heap, blocks, frontier)
        /\ pc = "idle" /\ pc' = pc /\ cursor' = cursor /\ req' = req
        /\ blocks' = blocks /\ frontier' = frontier /\ live' = live
        /\ liveBlocks' = liveBlocks
    BY DEF IInv, CallerWrite
  <1>5. /\ HeapOk(heap', blocks, frontier)
        /\ FreeIn(heap', blocks) = FreeIn(heap, blocks)
        /\ \A c \in blocks : sizeAt(heap', c) = sizeAt(heap, c)
    BY CallerWriteOk
  <1>6. OwnersMatch'
    <2>1. Allocated' = Allocated
      BY <1>1, <1>5 DEF Allocated, Free
    <2>2. \A q \in DOMAIN live : blockBaseOf(q) \in blocks
      BY <1>1, HeldIsAllocated DEF Allocated
    <2> QED BY <2>1, <2>2, <1>1, <1>5 DEF OwnersMatch
  <1>7. heap' \in HeapType
    BY <1>5 DEF HeapOk, Layout
  <1>8. TypeOK'
    BY <1>1, <1>7 DEF TypeOK, HeapType
  <1>9. RequestOk' /\ TrapOnlyDouble' /\ Counted'
    BY <1>1 DEF RequestOk, TrapOnlyDouble, Counted, IInv
  <1> QED BY <1>1, <1>5, <1>6, <1>8, <1>9 DEF IInv

\* Every step of the allocator or of its callers keeps the invariant.
LEMMA NextIInv ==
  ASSUME IInv, [Next]_vars
  PROVE  IInv'
  <1>1. CASE Next
    <2>1. ASSUME NEW n \in RequestBytes, RejectAlloc(n)
          PROVE  IInv'
      BY <2>1, RejectAllocStep
    <2>2. ASSUME NEW n \in RequestBytes, NEW z \in BOOLEAN, RawAlloc(n, z)
          PROVE  IInv'
      BY <2>2, RawAllocStep
    <2>3. CASE Serve
      BY <2>3, PopClassStep, ScanNextStep, ScanHitStep, CarveStep, CarveExhaustedStep
         DEF Serve
    <2>4. ASSUME NEW p \in Addr, RawFree(p) \/ FreeTrapped(p)
          PROVE  IInv'
      BY <2>4, RawFreeStep, FreeTrappedStep
    <2>5. ASSUME NEW p \in DOMAIN live, NEW v \in UserWords, CallerWrite(p, v)
          PROVE  IInv'
      BY <2>5, CallerWriteStep
    <2> QED BY <1>1, <2>1, <2>2, <2>3, <2>4, <2>5 DEF Next
  <1>2. CASE UNCHANGED vars
    <2>1. /\ heap' = heap /\ blocks' = blocks /\ frontier' = frontier /\ live' = live
          /\ liveBlocks' = liveBlocks /\ req' = req /\ cursor' = cursor /\ pc' = pc
      BY <1>2 DEF vars
    <2>2. HeapOk(heap', blocks', frontier') /\ OwnersMatch'
      BY <2>1, SameHeap
    <2>3. TypeOK' /\ RequestOk' /\ Counted' /\ TrapOnlyDouble'
      BY <2>1 DEF IInv, TypeOK, RequestOk, Counted, TrapOnlyDouble,
                  Free, FreeIn, isFree, sizeAt
    <2> QED BY <2>2, <2>3 DEF IInv
  <1> QED BY <1>1, <1>2

(***************************************************************************)
(* The results.                                                            *)
(***************************************************************************)
\* The inductive invariant holds in every reachable state.
THEOREM Invariance == Spec => []IInv
  BY InitIInv, NextIInv, PTL DEF Spec

\* Every variable keeps its type: in particular liveBlocks never goes below
\* zero and no list head leaves the arena.
THEOREM TypeCorrect == Spec => []TypeOK
  <1>1. IInv => TypeOK
    BY DEF IInv
  <1> QED BY <1>1, Invariance, PTL

\* The arena is tiled whatever sequence of calls is made.
THEOREM ArenaTiled == Spec => []Tiled
  <1>1. IInv => Tiled
    BY DEF IInv, HeapOk, Layout, Tiled
  <1> QED BY <1>1, Invariance, PTL

\* Header and footer of every block agree whatever callers store.
THEOREM BoundaryTags == Spec => []TagsInSync
  <1>1. IInv => TagsInSync
    BY DEF IInv, HeapOk, TagsInSync
  <1> QED BY <1>1, Invariance, PTL

\* The free bits say exactly what callers hold, and no block is handed out
\* smaller than asked or with room to split.
THEOREM Ownership == Spec => []OwnersMatch
  <1>1. IInv => OwnersMatch
    BY DEF IInv
  <1> QED BY <1>1, Invariance, PTL

\* RawFree leaves no two neighbouring free blocks.
THEOREM FullCoalescing == Spec => []NoAdjacentFree
  <1>1. IInv => NoAdjacentFree
    BY DEF IInv, HeapOk, NoAdjacentFree
  <1> QED BY <1>1, Invariance, PTL

\* The doubly-linked lists stay linked through every insertion and unlinking.
THEOREM ListIntegrity == Spec => []ListsLinked
  <1>1. IInv => ListsLinked
    BY DEF IInv, HeapOk, Listed, ListsLinked, Free
  <1> QED BY <1>1, Invariance, PTL

\* The leak counter is exact between calls.
THEOREM ExactCount == Spec => []LiveBlocksExact
  <1>1. ASSUME IInv PROVE LiveBlocksExact
    <2>1. Cardinality(DOMAIN live) \in Nat
      BY <1>1, HeldFinite DEF IInv
    <2> QED BY <1>1, <2>1 DEF IInv, Counted, LiveBlocksExact
  <1> QED BY <1>1, Invariance, PTL

\* The double-free trap never fires on a block its caller still holds.
THEOREM NoFalseTrap == Spec => []TrapOnlyDouble
  <1>1. IInv => TrapOnlyDouble
    BY DEF IInv
  <1> QED BY <1>1, Invariance, PTL

\* When everything has been freed the carved arena is one free block.
THEOREM Reforms == Spec => []AllFreedReforms
  <1>1. ASSUME IInv PROVE AllFreedReforms
    <2> SUFFICES ASSUME DOMAIN live = {}, frontier > ArenaBase
                 PROVE  blocks = {ArenaBase} /\ EndOf(heap, ArenaBase) = frontier
      BY DEF AllFreedReforms
    <2>1. /\ Layout(heap, blocks, frontier) /\ NoAdjacentFree /\ OwnersMatch
      BY <1>1 DEF IInv, HeapOk, NoAdjacentFree
    <2>2. FreeIn(heap, blocks) = blocks
      <3>1. Allocated = {}
        BY <2>1 DEF OwnersMatch
      <3> QED BY <3>1 DEF Allocated, Free, FreeIn
    <2>3. \A b, c \in blocks : EndOf(heap, b) # c
      BY <2>1, <2>2 DEF NoAdjacentFree, Coalesced
    <2>4. /\ ArenaBase \in blocks
          /\ EndOf(heap, ArenaBase) <= frontier
          /\ EndOf(heap, ArenaBase) < frontier => EndOf(heap, ArenaBase) \in blocks
      BY <2>1 DEF Layout, Tiling
    <2>5. EndOf(heap, ArenaBase) \in Nat /\ frontier \in Nat
      <3>1. /\ EndOf(heap, ArenaBase) = ArenaBase + sizeAt(heap, ArenaBase) + 2
            /\ ArenaBase \in Nat /\ sizeAt(heap, ArenaBase) \in Nat
        BY <2>1, <2>4, BlockWords DEF Layout
      <3> QED BY <3>1, <2>1 DEF Layout
    <2>6. EndOf(heap, ArenaBase) = frontier
      BY <2>3, <2>4, <2>5
    <2>7. \A b \in blocks : b # ArenaBase => \E c \in blocks : EndOf(heap, c) = b
      BY <2>1 DEF Layout, Tiling
    <2> QED BY <2>3, <2>4, <2>6, <2>7
  <1> QED BY <1>1, Invariance, PTL

(***************************************************************************)
(* The lists reach every free block.                                       *)
(***************************************************************************)
Members(h, F, ci) == {b \in F : ClassOf(h, b) = ci}

\* What holds the head of a list and, with a block, the next one, holds the
\* whole list.
LEMMA ListClosure ==
  ASSUME NEW h, NEW F, Listed(h, F), IsFiniteSet(F), 0 \notin F,
         NEW ci, NEW P,
         h.head[ci] = 0 \/ h.head[ci] \in P,
         \A b \in P \cap Members(h, F, ci) : getNext(h, b) = 0 \/ getNext(h, b) \in P
  PROVE  Members(h, F, ci) \subseteq P
  <1> DEFINE U == Members(h, F, ci) \ P
  <1> SUFFICES ASSUME U # {} PROVE FALSE
    OBVIOUS
  <1>1. Linked(h, F)
    BY DEF Listed
  <1>2. PICK r : Ranks(h, F, r)
    BY DEF Listed
  <1>3. IsFiniteSet(U)
    <2>1. U \subseteq F
      BY DEF Members
    <2> QED BY <2>1, FS_Subset
  <1> DEFINE q == [b \in U |-> r[b]]
  <1>4. q \in [U -> Int]
    BY <1>2 DEF Ranks, Members
  <1> HIDE DEF U, q
  <1>5. PICK b \in U : \A c \in U : q[b] <= q[c]
    BY <1>3, <1>4, LowestRank
  <1>6. b \in F /\ ClassOf(h, b) = ci /\ b \notin P
    BY DEF U, Members
  <1>7. CASE getPrev(h, b) = 0
    <2>1. h.head[ci] = b
      BY <1>1, <1>6, <1>7 DEF Linked
    <2> QED BY <1>6, <2>1
  <1>8. CASE getPrev(h, b) # 0
    <2> DEFINE p == getPrev(h, b)
    <2>1. p \in F /\ ClassOf(h, p) = ci /\ getNext(h, p) = b
      BY <1>1, <1>6, <1>8 DEF Linked
    <2> HIDE DEF p
    <2>2. b # 0
      BY <1>6
    <2>3. r[p] < r[b] /\ r[p] \in Int /\ r[b] \in Int
      BY <1>2, <1>6, <2>1, <2>2 DEF Ranks
    <2>4. p \notin U
      BY <1>5, <2>3 DEF q
    <2>5. p \in P \cap Members(h, F, ci)
      BY <2>1, <2>4 DEF U, Members
    <2> QED BY <1>6, <2>1, <2>2, <2>5
  <1> QED BY <1>7, <1>8

\* f is the walk of N links from the block hd.
Walk(h, hd, N, f) ==
  f = [n \in 0 .. N |-> IF n = 0 THEN hd ELSE getNext(h, f[n - 1])]

\* The walk of a list is defined as far as one cares to go.
LEMMA WalkDefined ==
  ASSUME NEW h, NEW hd, NEW N \in Nat
  PROVE  \E f : Walk(h, hd, N, f)
  <1> DEFINE Walks(k, f) == f = [n \in 0 .. k |-> IF n = 0 THEN hd ELSE getNext(h, f[n - 1])]
             T == {k \in Nat : ~ \E f : Walks(k, f)}
  <1> SUFFICES ASSUME N \in T PROVE FALSE
    BY DEF Walks, Walk
  <1>1. PICK k \in T : \A m \in T : k <= m
    <2> HIDE DEF Walks
    <2>1. T \in SUBSET Nat
      OBVIOUS
    <2> HIDE DEF T
    <2> QED BY <2>1, LeastNatural
  <1>2. k # 0
    <2>1. Walks(0, [n \in 0 .. 0 |-> hd])
      OBVIOUS
    <2> QED BY <2>1
  <1>3. k - 1 \in Nat /\ k - 1 \notin T
    <2>1. k \in Nat /\ k - 1 \in Nat /\ ~(k <= k - 1)
      BY <1>2
    <2> HIDE DEF T
    <2> QED BY <1>1, <2>1
  <1>4. PICK f : Walks(k - 1, f)
    BY <1>3
  <1> DEFINE g == [n \in 0 .. k |-> IF n = k THEN getNext(h, f[k - 1]) ELSE f[n]]
  <1>5. Walks(k, g)
    <2>1. \A n \in 0 .. k : g[n] = IF n = k THEN getNext(h, f[k - 1]) ELSE f[n]
      OBVIOUS
    <2>2. \A n \in 0 .. k - 1 : f[n] = IF n = 0 THEN hd ELSE getNext(h, f[n - 1])
      BY <1>4
    <2>3. ASSUME NEW n \in 0 .. k
          PROVE  g[n] = IF n = 0 THEN hd ELSE getNext(h, g[n - 1])
      <3>1. CASE n = k
        <4>1. g[n - 1] = f[k - 1] /\ g[n] = getNext(h, f[k - 1])
          BY <1>3, <3>1, <2>1
        <4> QED BY <3>1, <4>1, <1>2
      <3>2. CASE n # k
        <4>1. n \in 0 .. k - 1 /\ g[n] = f[n] /\ (n # 0 => g[n - 1] = f[n - 1])
          BY <1>3, <3>2, <2>1
        <4> QED BY <4>1, <2>2
      <3> QED BY <3>1, <3>2
    <2>4. g = [n \in 0 .. k |-> g[n]]
      OBVIOUS
    <2> HIDE DEF g
    <2> QED BY <2>3, <2>4
  <1> QED BY <1>5

\* A walk from the head meets every block of the list, each once, and then
\* the null link.
LEMMA WalkReachesAll ==
  ASSUME NEW h, NEW F, Listed(h, F), IsFiniteSet(F), 0 \notin F, NEW ci \in Classes,
         NEW N, N = Cardinality(Members(h, F, ci)), NEW chain, Walk(h, h.head[ci], N, chain)
  PROVE  /\ {chain[n] : n \in 0 .. N - 1} = Members(h, F, ci)
         /\ chain[N] = 0
  <1> DEFINE M == Members(h, F, ci)
             T == {n \in 0 .. N : chain[n] \notin M}
             Head(k) == {chain[n] : n \in 0 .. k - 1}
  <1>1. IsFiniteSet(M) /\ N \in Nat /\ M \subseteq F /\ 0 \notin M
    <2>1. M \subseteq F
      BY DEF Members
    <2> QED BY <2>1, FS_Subset, FS_CardinalityType
  <1>2. Linked(h, F)
    BY DEF Listed
  <1>3. PICK r : Ranks(h, F, r)
    BY DEF Listed
  <1>4. /\ chain[0] = h.head[ci]
        /\ \A n \in 0 .. N - 1 : chain[n + 1] = getNext(h, chain[n])
    <2>1. \A n \in 0 .. N : chain[n] = IF n = 0 THEN h.head[ci] ELSE getNext(h, chain[n - 1])
      BY DEF Walk
    <2>2. ASSUME NEW n \in 0 .. N - 1 PROVE chain[n + 1] = getNext(h, chain[n])
      <3>1. n + 1 \in 0 .. N /\ n + 1 # 0 /\ (n + 1) - 1 = n
        BY <1>1
      <3> QED BY <2>1, <3>1
    <2> QED BY <1>1, <2>1, <2>2
  <1>5. chain[0] = 0 \/ chain[0] \in M
    BY <1>2, <1>4 DEF Linked, Members
  <1>6. \A n \in 0 .. N - 1 : chain[n] \in M => chain[n + 1] = 0 \/ chain[n + 1] \in M
    BY <1>2, <1>4 DEF Linked, Members
  <1> HIDE DEF M
  \* While the walk is on the list the ranks grow, so it meets no block twice.
  <1>7. ASSUME NEW k \in Nat, k <= N + 1, \A n \in 0 .. k - 1 : chain[n] \in M
        PROVE  /\ Cardinality(0 .. k - 1) = k /\ IsFiniteSet(0 .. k - 1)
               /\ \A m, n \in 0 .. k - 1 : m # n => chain[m] # chain[n]
    <2> DEFINE f == [n \in 0 .. k - 1 |-> r[chain[n]]]
    <2>1. \A n \in 0 .. k - 1 : f[n] \in Int
      BY <1>1, <1>3, <1>7 DEF Ranks
    <2>2. ASSUME NEW n \in 0 .. k - 1, n + 1 <= k - 1
          PROVE  f[n] < f[n + 1]
      <3>1. n + 1 \in 0 .. k - 1 /\ n \in 0 .. N - 1
        BY <1>1, <1>7, <2>2
      <3>2. /\ chain[n] \in F /\ chain[n + 1] = getNext(h, chain[n])
            /\ getNext(h, chain[n]) # 0
        BY <1>1, <1>4, <1>7, <3>1
      <3> QED BY <1>3, <3>1, <3>2 DEF Ranks
    <2> HIDE DEF f
    <2>3. \A m, n \in 0 .. k - 1 : m < n => f[m] < f[n]
      BY <2>1, <2>2, GrowsSteadily
    <2>4. ASSUME NEW m \in 0 .. k - 1, NEW n \in 0 .. k - 1, m # n
          PROVE  chain[m] # chain[n]
      <3>1. f[m] # f[n]
        BY <2>1, <2>3, <2>4
      <3> QED BY <3>1 DEF f
    <2>5. Cardinality(0 .. k - 1) = k /\ IsFiniteSet(0 .. k - 1)
      <3>1. /\ IsFiniteSet(0 .. k - 1)
            /\ Cardinality(0 .. k - 1) = IF 0 > k - 1 THEN 0 ELSE k - 1 - 0 + 1
        <4>1. 0 \in Int /\ k - 1 \in Int
          OBVIOUS
        <4> QED BY ONLY <4>1, FS_Interval
      <3> QED BY <3>1
    <2> QED BY <2>4, <2>5
  <1>8. T # {}
    <2> SUFFICES ASSUME T = {} PROVE FALSE
      OBVIOUS
    <2> DEFINE D == 0 .. (N + 1) - 1
               g == [n \in D |-> chain[n]]
    <2>1. \A n \in D : chain[n] \in M
      <3>1. \A n \in 0 .. N : chain[n] \in M
        OBVIOUS
      <3> QED BY <3>1, <1>1
    <2>2. /\ IsFiniteSet(D) /\ Cardinality(D) = N + 1
          /\ \A m, n \in D : m # n => chain[m] # chain[n]
      <3>1. N + 1 \in Nat /\ N + 1 <= N + 1
        BY <1>1
      <3> HIDE DEF T
      <3> QED BY <3>1, <2>1, <1>7
    <2>3. g \in [D -> M] /\ \A m, n \in D : m # n => g[m] # g[n]
      BY <2>1, <2>2
    <2>4. Cardinality(M) < Cardinality(D)
      BY <1>1, <2>2 DEF M
    <2> HIDE DEF D, g
    <2> QED BY <1>1, <2>2, <2>3, <2>4, FS_PigeonHole DEF D
  <1>9. PICK k \in T : \A n \in T : k <= n
    <2>1. T \in SUBSET Nat
      BY <1>1
    <2> HIDE DEF T
    <2> QED BY <1>8, <2>1, LeastNatural
  <1>10. /\ k \in 0 .. N /\ k \in Nat /\ chain[k] \notin M
         /\ \A n \in 0 .. k - 1 : chain[n] \in M
    <2>1. k \in 0 .. N /\ k \in Nat /\ chain[k] \notin M
      BY <1>1
    <2>2. ASSUME NEW n \in 0 .. k - 1 PROVE chain[n] \in M
      <3>1. n \in 0 .. N /\ ~(k <= n)
        BY <1>1, <2>1
      <3>2. n \notin T
        BY <1>9, <3>1
      <3> QED BY <3>1, <3>2
    <2> QED BY <2>1, <2>2
  <1>11. chain[k] = 0
    <2>1. CASE k = 0
      BY <2>1, <1>5, <1>10
    <2>2. CASE k # 0
      <3>1. k - 1 \in 0 .. k - 1 /\ k - 1 \in 0 .. N - 1 /\ (k - 1) + 1 = k
        BY <2>2, <1>1, <1>10
      <3> QED BY <3>1, <1>6, <1>10
    <2> QED BY <2>1, <2>2
  <1>12. Head(k) \subseteq M
    BY <1>10
  <1>13. M \subseteq Head(k)
    <2>1. h.head[ci] = 0 \/ h.head[ci] \in Head(k)
      <3>1. CASE k = 0
        BY <3>1, <1>4, <1>11
      <3>2. CASE k # 0
        <4>1. 0 \in 0 .. k - 1
          BY <3>2, <1>10
        <4> QED BY <4>1, <1>4
      <3> QED BY <3>1, <3>2
    <2>2. ASSUME NEW b \in Head(k)
          PROVE  getNext(h, b) = 0 \/ getNext(h, b) \in Head(k)
      <3>1. PICK n \in 0 .. k - 1 : b = chain[n]
        OBVIOUS
      <3>2. getNext(h, b) = chain[n + 1]
        <4>1. n \in 0 .. N - 1
          BY <1>1, <1>10
        <4> QED BY <4>1, <3>1, <1>4
      <3>3. CASE n + 1 = k
        BY <3>2, <3>3, <1>11
      <3>4. CASE n + 1 # k
        <4>1. n + 1 \in 0 .. k - 1
          BY <3>4, <1>10
        <4> QED BY <4>1, <3>2
      <3> QED BY <3>3, <3>4
    <2> HIDE DEF Head
    <2> QED BY <2>1, <2>2, ListClosure DEF M
  <1>14. k = N
    <2> DEFINE D == 0 .. k - 1
               g == [n \in D |-> chain[n]]
    <2>1. /\ IsFiniteSet(D) /\ Cardinality(D) = k
          /\ \A m, n \in D : m # n => chain[m] # chain[n]
      <3>1. k \in Nat /\ k <= N + 1
        BY <1>1, <1>10
      <3> HIDE DEF T
      <3> QED BY <3>1, <1>7, <1>10
    <2>2. g \in Bijection(D, M)
      <3>1. g \in [D -> M]
        BY <1>10
      <3>2. \A m, n \in D : g[m] = g[n] => m = n
        BY <2>1
      <3>3. \A b \in M : \E n \in D : g[n] = b
        BY <1>13
      <3> HIDE DEF D, g
      <3> QED BY <3>1, <3>2, <3>3 DEF Bijection, Injection, Surjection, IsInjective
    <2> HIDE DEF D, g
    <2>3. Cardinality(M) = Cardinality(D)
      <3>1. ExistsBijection(D, M)
        BY <2>2 DEF ExistsBijection
      <3> QED BY <2>1, <3>1, FS_Bijection
    <2> QED BY <2>1, <2>3 DEF M
  <1> QED BY <1>11, <1>12, <1>13, <1>14 DEF M

\* The blocks of the arena are finitely many and none is the null link.
LEMMA FreeFinite ==
  ASSUME TypeOK
  PROVE  IsFiniteSet(Free) /\ 0 \notin Free
  <1>1. Free \subseteq Addr
    BY DEF TypeOK, Free, FreeIn
  <1>2. IsFiniteSet(Addr) /\ 0 \notin Addr
    <2>1. ArenaBase \in Int /\ ArenaBase + ARENA_WORDS - 1 \in Int
      BY ConstantsAssumption
    <2>2. IsFiniteSet(Addr)
      BY <2>1, FS_Interval DEF Addr
    <2>3. 0 \notin Addr
      BY ConstantsAssumption DEF Addr
    <2> QED BY <2>2, <2>3
  <1> QED BY <1>1, <1>2, FS_Subset

\* ListsReachAll: no freed block is lost (insertFree, unlinkFree), whatever
\* order blocks are taken, split and merged in.
THEOREM ListsReach == Spec => []ListsReachAll
  <1>1. ASSUME IInv PROVE ListsReachAll
    <2>1. Listed(heap, Free) /\ IsFiniteSet(Free) /\ 0 \notin Free
      BY <1>1, FreeFinite DEF IInv, HeapOk, Free
    <2> SUFFICES ASSUME NEW ci \in Classes
                 PROVE  LET members == {b \in Free : ClassOf(heap, b) = ci}
                            chain[n \in 0 .. Cardinality(members)] ==
                              IF n = 0 THEN heap.head[ci] ELSE getNext(heap, chain[n - 1])
                        IN  /\ {chain[n] : n \in 0 .. Cardinality(members) - 1} = members
                            /\ chain[Cardinality(members)] = 0
      BY DEF ListsReachAll
    <2> DEFINE members == {b \in Free : ClassOf(heap, b) = ci}
               N == Cardinality(members)
               chain[n \in 0 .. N] ==
                 IF n = 0 THEN heap.head[ci] ELSE getNext(heap, chain[n - 1])
    <2>2. members = Members(heap, Free, ci)
      BY DEF Members
    <2>3. N \in Nat
      <3>1. IsFiniteSet(members)
        BY <2>1, FS_Subset
      <3> QED BY <3>1, FS_CardinalityType
    <2> HIDE DEF N, members
    <2>4. Walk(heap, heap.head[ci], N, chain)
      <3>1. \E f : Walk(heap, heap.head[ci], N, f)
        BY <2>3, WalkDefined
      <3>2. chain = CHOOSE f : Walk(heap, heap.head[ci], N, f)
        BY Zenon DEF Walk
      <3> HIDE DEF chain
      <3> QED BY <3>1, <3>2
    <2> HIDE DEF chain
    <2>5. {chain[n] : n \in 0 .. N - 1} = members /\ chain[N] = 0
      <3>1. N = Cardinality(Members(heap, Free, ci)) /\ ci \in Classes
        BY <2>2 DEF N
      <3> QED BY <3>1, <2>1, <2>2, <2>4, WalkReachesAll
    <2> QED BY <2>5 DEF chain, N, members
  <1> QED BY <1>1, Invariance, PTL

(***************************************************************************)
(* The arena is carved last.  The scan is many steps, so what it has seen  *)
(* is part of the invariant: Passed(P), the blocks P of the large list are *)
(* too small, and P is the list from its head up to the cursor.            *)
(***************************************************************************)
Passed(P) ==
  /\ P \subseteq Free
  /\ heap.head[-1] \in P \cup {cursor}
  /\ \A b \in P : sizeAt(heap, b) < req.need /\ getNext(heap, b) \in P \cup {cursor}

Scanned ==
  pc = "scan" => /\ req.need <= SMALL_MAX => heap.head[req.need - 1] = 0
                 /\ \E P : Passed(P)

\* Every step keeps what the scan has passed over too small.
LEMMA NextScanned ==
  ASSUME IInv, Scanned, [Next]_vars
  PROVE  Scanned'
  <1>1. ASSUME NEW bytes \in RequestBytes, NEW zero \in BOOLEAN, RawAlloc(bytes, zero)
        PROVE  Scanned'
    <2>1. /\ heap' = heap /\ blocks' = blocks /\ req'.need = alignUp(bytes)
          /\ pc' = IF SmallHit(alignUp(bytes)) THEN "pop" ELSE "scan"
          /\ cursor' = IF SmallHit(alignUp(bytes)) THEN heap.head[alignUp(bytes) - 1]
                       ELSE heap.head[-1]
      BY <1>1 DEF RawAlloc
    <2>2. SUFFICES ASSUME pc' = "scan" PROVE Scanned'
      BY DEF Scanned
    <2>3. ~SmallHit(alignUp(bytes)) /\ cursor' = heap.head[-1]
      BY <2>1, <2>2
    <2>4. Passed({})'
      BY <2>1, <2>3 DEF Passed
    <2>5. req'.need <= SMALL_MAX => heap'.head[req'.need - 1] = 0
      BY <2>1, <2>3 DEF SmallHit
    <2> QED BY <2>4, <2>5 DEF Scanned
  <1>2. CASE ScanNext
    <2>1. /\ heap' = heap /\ blocks' = blocks /\ req' = req /\ pc = "scan"
          /\ ~Fits /\ cursor' = getNext(heap, cursor) /\ cursor # 0
      BY <1>2 DEF ScanNext
    <2>2. PICK P : Passed(P)
      BY <2>1 DEF Scanned
    <2>3. cursor \in Free /\ Free' = Free
      BY <2>1 DEF IInv, RequestOk, Free, FreeIn, isFree
    <2>4. sizeAt(heap, cursor) < req.need
      <3>1. sizeAt(heap, cursor) \in Nat
        BY <2>3, BlockWords DEF IInv, HeapOk, Layout, Free, FreeIn
      <3> QED BY <2>1, <3>1 DEF Fits, IInv, TypeOK
    <2> PICK Q : Q = P \cup {cursor}
      OBVIOUS
    <2>5. Passed(Q)'
      BY <2>1, <2>2, <2>3, <2>4 DEF Passed, sizeAt, getNext
    <2> QED BY <2>1, <2>5 DEF Scanned
  <1>3. CASE UNCHANGED vars
    <2>1. /\ heap' = heap /\ blocks' = blocks /\ req' = req /\ cursor' = cursor /\ pc' = pc
      BY <1>3 DEF vars
    <2>2. Free' = Free
      BY <2>1 DEF Free, FreeIn, isFree
    <2> QED BY <2>1, <2>2 DEF Scanned, Passed, sizeAt, getNext
  <1>4. pc' # "scan" => Scanned'
    BY DEF Scanned
  <1>5. ASSUME NEW n \in RequestBytes, RejectAlloc(n) PROVE pc' # "scan"
    BY <1>5 DEF RejectAlloc
  <1>6. PopClass \/ ScanHit \/ Carve \/ CarveExhausted => pc' # "scan"
    BY DEF PopClass, ScanHit, Carve, CarveExhausted, Return
  <1>7. ASSUME NEW p \in Addr, RawFree(p) \/ FreeTrapped(p) PROVE pc' # "scan"
    BY <1>7 DEF RawFree, FreeTrapped
  <1>8. ASSUME NEW p, NEW v, CallerWrite(p, v) PROVE pc' # "scan"
    BY <1>8 DEF CallerWrite
  <1> QED BY <1>1, <1>2, <1>3, <1>4, <1>5, <1>6, <1>7, <1>8 DEF Next, Serve

\* CarveOnlyOnMiss: the frontier moves, or the arena is declared exhausted,
\* only when neither the exact class nor any large free block could serve
\* the request (RawAlloc's order of pop, firstFitLarge and carve).
THEOREM CarvesLast == Spec => CarveOnlyOnMiss
  <1>1. Init => Scanned
    BY DEF Init, Scanned
  <1>2. ASSUME IInv, Scanned, [Next]_vars
        PROVE  [pc = "scan" /\ (frontier' # frontier \/ pc' = "exhausted") =>
                  \A b \in Free :
                      /\ sizeAt(heap, b) # req.need
                      /\ sizeAt(heap, b) > SMALL_MAX => sizeAt(heap, b) < req.need]_vars
    <2> SUFFICES ASSUME pc = "scan", frontier' # frontier \/ pc' = "exhausted",
                        NEW b \in Free
                 PROVE  /\ sizeAt(heap, b) # req.need
                        /\ sizeAt(heap, b) > SMALL_MAX => sizeAt(heap, b) < req.need
      OBVIOUS
    <2>1. cursor = 0
      <3>1. Carve \/ CarveExhausted => cursor = 0
        BY DEF Carve, CarveExhausted
      <3>2. PopClass \/ ScanNext \/ ScanHit => frontier' = frontier /\ pc' # "exhausted"
        BY DEF PopClass, ScanNext, ScanHit, Return
      <3>3. ASSUME NEW n, RejectAlloc(n) PROVE FALSE
        BY <3>3 DEF RejectAlloc
      <3>4. ASSUME NEW n, NEW z, RawAlloc(n, z) PROVE FALSE
        BY <3>4 DEF RawAlloc
      <3>5. ASSUME NEW p, RawFree(p) \/ FreeTrapped(p) PROVE FALSE
        BY <3>5 DEF RawFree, FreeTrapped
      <3>6. ASSUME NEW p, NEW v, CallerWrite(p, v) PROVE FALSE
        BY <3>6 DEF CallerWrite
      <3>7. ~ UNCHANGED vars
        BY DEF vars
      <3> QED BY <1>2, <3>1, <3>2, <3>3, <3>4, <3>5, <3>6, <3>7 DEF Next, Serve
    <2>2. /\ Listed(heap, Free) /\ IsFiniteSet(Free) /\ 0 \notin Free
          /\ SMALL_MAX \in Nat /\ req.need \in Nat /\ req.need >= 1
          /\ sizeAt(heap, b) \in Nat
      <3>1. sizeAt(heap, b) \in Nat
        BY <1>2, BlockWords DEF IInv, HeapOk, Layout, Free, FreeIn
      <3>2. req.need \in Nat /\ req.need >= 1
        BY <1>2 DEF IInv, TypeOK, RequestOk
      <3> QED BY <1>2, <3>1, <3>2, FreeFinite, ConstantsAssumption
              DEF IInv, HeapOk, Free
    <2>3. PICK P : Passed(P)
      BY <1>2 DEF Scanned
    <2>4. Members(heap, Free, -1) \subseteq P
      <3>1. heap.head[-1] = 0 \/ heap.head[-1] \in P
        BY <2>1, <2>3 DEF Passed
      <3>2. \A c \in P \cap Members(heap, Free, -1) :
              getNext(heap, c) = 0 \/ getNext(heap, c) \in P
        BY <2>1, <2>3 DEF Passed
      <3> QED BY <2>2, <3>1, <3>2, ListClosure
    <2>5. ASSUME sizeAt(heap, b) > SMALL_MAX
          PROVE  sizeAt(heap, b) < req.need
      <3>1. ClassOf(heap, b) = -1
        BY <2>2, <2>5 DEF ClassOf, classIndexOf
      <3>2. b \in P
        BY <2>4, <3>1 DEF Members
      <3> QED BY <2>3, <3>2 DEF Passed
    <2>6. ASSUME sizeAt(heap, b) <= SMALL_MAX, sizeAt(heap, b) = req.need
          PROVE  FALSE
      <3>1. ClassOf(heap, b) = req.need - 1
        BY <2>2, <2>6 DEF ClassOf, classIndexOf
      <3>2. heap.head[req.need - 1] = 0
        BY <1>2, <2>6 DEF Scanned
      <3>3. Members(heap, Free, req.need - 1) \subseteq {}
        <4> DEFINE ci == req.need - 1
        <4>1. \A c \in {} \cap Members(heap, Free, ci) :
                getNext(heap, c) = 0 \/ getNext(heap, c) \in {}
          OBVIOUS
        <4>2. heap.head[ci] = 0
          BY <3>2
        <4> HIDE DEF ci
        <4>3. Members(heap, Free, ci) \subseteq {}
          BY <2>2, <4>1, <4>2, ListClosure
        <4> QED BY <4>3 DEF ci
      <3> QED BY <3>1, <3>3 DEF Members
    <2> QED BY <2>2, <2>5, <2>6
  <1>3. IInv /\ Scanned /\ [Next]_vars => Scanned'
    BY NextScanned
  <1> QED BY <1>1, <1>2, <1>3, Invariance, PTL DEF Spec, CarveOnlyOnMiss

(***************************************************************************)
(* The refinement of RawHeap.  A call in progress is the request asked, a  *)
(* step of the scan stutters, and the three ways of serving are Answer:    *)
(* what the callers hold is where it was (SamePayload) and the block handed *)
(* out shares no word with it.                                             *)
(***************************************************************************)

\* RawHeap's state as the allocator's gives it.
Asked   == IF pc \in {"pop", "scan", "exhausted"} THEN req ELSE NoReq
Running == pc \notin Aborts

\* What a caller holds lies in the payload of its own block.
LEMMA HeldWords ==
  ASSUME IInv, NEW p \in DOMAIN live
  PROVE  /\ live[p] \in Nat /\ p \in Nat /\ p = blockBaseOf(p) + 1
         /\ blockBaseOf(p) \in Allocated /\ blockBaseOf(p) \in blocks
         /\ blockBaseOf(p) \in Nat
         /\ \A i \in 0 .. live[p] - 1 :
              p + i \in blockBaseOf(p) + 1 .. blockBaseOf(p) + sizeAt(heap, blockBaseOf(p))
  <1> DEFINE b == blockBaseOf(p)
  <1>1. b \in Allocated /\ p = b + 1 /\ live[p] \in Nat /\ p \in Addr
    BY HeldIsAllocated DEF IInv, TypeOK
  <1>2. b \in blocks /\ b \in Nat /\ sizeAt(heap, b) \in Nat
    BY <1>1, BlockWords DEF IInv, HeapOk, Layout, Allocated
  <1>3. sizeAt(heap, b) \in live[p] .. live[p] + 2
    BY DEF IInv, OwnersMatch, MIN_SPLIT_EXTENT
  <1> HIDE DEF b
  <1>4. \A i \in 0 .. live[p] - 1 : p + i \in b + 1 .. b + sizeAt(heap, b)
    BY <1>1, <1>2, <1>3
  <1> QED BY <1>1, <1>2, <1>4 DEF b

\* The contents of an object whose payload a step leaves alone.
LEMMA SameContents ==
  ASSUME IInv, NEW p \in DOMAIN live, p \in DOMAIN live', live'[p] = live[p],
         NEW C, SamePayload(heap', heap, C), blockBaseOf(p) \in C
  PROVE  Contents'[p] = Contents[p]
  <1>1. \A i \in 0 .. live[p] - 1 :
          heap'.lo[p + i] = heap.lo[p + i] /\ heap'.hi[p + i] = heap.hi[p + i]
    <2> SUFFICES ASSUME NEW i \in 0 .. live[p] - 1
                 PROVE  heap'.lo[p + i] = heap.lo[p + i] /\ heap'.hi[p + i] = heap.hi[p + i]
      OBVIOUS
    <2> DEFINE a == p + i
    <2>1. a \in blockBaseOf(p) + 1 .. blockBaseOf(p) + sizeAt(heap, blockBaseOf(p))
      BY HeldWords
    <2> HIDE DEF a
    <2>2. heap'.lo[a] = heap.lo[a] /\ heap'.hi[a] = heap.hi[a]
      BY <2>1 DEF SamePayload
    <2> QED BY <2>2 DEF a
  <1>2. Contents[p] = [i \in 0 .. live[p] - 1 |-> <<heap.lo[p + i], heap.hi[p + i]>>]
    BY DEF Contents
  <1>3. Contents'[p] = [i \in 0 .. live[p] - 1 |-> <<heap'.lo[p + i], heap'.hi[p + i]>>]
    BY DEF Contents
  <1> QED BY <1>1, <1>2, <1>3

\* The empty heap is the empty memory.
LEMMA InitRefines == Init => Abstract!Init
  <1> SUFFICES ASSUME Init PROVE Abstract!Init
    OBVIOUS
  <1>1. pc = "idle" /\ live = [p \in {} |-> 0]
    BY DEF Init
  <1>2. Contents = [p \in {} |-> 0]
    BY <1>1 DEF Contents
  <1> QED BY <1>1, <1>2 DEF Abstract!Init, Abstract!NotAsked, NoReq, Aborts

\* A request that was refused, could not be served or freed twice.
LEMMA AbortRefines ==
  ASSUME IInv, NEW n,
         RejectAlloc(n) \/ CarveExhausted \/ FreeTrapped(n)
  PROVE  Abstract!Abort
  <1>1. /\ heap' = heap /\ live' = live /\ req' = req
        /\ pc \notin Aborts /\ pc' \in Aborts
        /\ \/ pc = "scan" /\ pc' = "exhausted"
           \/ pc = "idle" /\ pc' # "exhausted"
    <2>1. CASE RejectAlloc(n)
      BY <2>1 DEF RejectAlloc, Aborts
    <2>2. CASE CarveExhausted
      BY <2>2 DEF CarveExhausted, Aborts
    <2>3. CASE FreeTrapped(n)
      BY <2>3 DEF FreeTrapped, Aborts
    <2> QED BY <2>1, <2>2, <2>3
  <1>2. Contents' = Contents
    BY <1>1 DEF Contents
  <1>3. Asked' = Asked
    BY <1>1 DEF Asked, Aborts
  <1> QED BY <1>1, <1>2, <1>3 DEF Abstract!Abort, Asked

\* A request that is accepted is asked.
LEMMA AskRefines ==
  ASSUME IInv, NEW bytes \in RequestBytes, NEW zero \in BOOLEAN, RawAlloc(bytes, zero)
  PROVE  Abstract!Ask
  <1>1. /\ heap' = heap /\ live' = live
        /\ pc = "idle" /\ pc' \in {"pop", "scan"}
        /\ req' = [need |-> alignUp(bytes), zero |-> zero]
        /\ bytes > 0
    BY DEF RawAlloc
  <1>2. alignUp(bytes) \in Nat /\ alignUp(bytes) >= 1
    BY <1>1, AlignUpPositive, ConstantsAssumption
  <1>3. Contents' = Contents
    BY <1>1 DEF Contents
  <1>4. req' # [need |-> 0, zero |-> FALSE] /\ req'.need >= 1
    BY <1>1, <1>2
  <1> QED BY <1>1, <1>3, <1>4
          DEF Abstract!Ask, Abstract!NotAsked, NoReq, Aborts

\* However the request is served, the caller gets memory of its own.
LEMMA AnswerRefines ==
  ASSUME IInv, IInv', pc \in {"pop", "scan"}, NEW h, NEW b, Serves(h, b)
  PROVE  Abstract!Answer
  <1> DEFINE p == b + 1
             n == req.need
  <1>1. Served(b) /\ Return(h, b, req)
    BY ReturnOk DEF IInv, Serves
  <1>2. /\ DOMAIN live' = DOMAIN live \cup {p} /\ p \notin DOMAIN live
        /\ live'[p] = n /\ b \in Nat /\ p \in Addr
        /\ \A q \in DOMAIN live : live'[q] = live[q]
        /\ SamePayload(heap', heap, Allocated)
    BY <1>1 DEF Served
  <1>3. n \in Nat /\ n >= 1
    BY DEF IInv, TypeOK, RequestOk
  <1>4. \A q \in DOMAIN live : Contents'[q] = Contents[q]
    <2> SUFFICES ASSUME NEW q \in DOMAIN live PROVE Contents'[q] = Contents[q]
      OBVIOUS
    <2>1. blockBaseOf(q) \in Allocated
      BY HeldWords
    <2>2. q \in DOMAIN live' /\ live'[q] = live[q]
      BY <1>2
    <2> QED BY <2>1, <2>2, <1>2, SameContents
  <1>5. Contents'[p] = [i \in 0 .. n - 1 |-> <<heap'.lo[p + i], heap'.hi[p + i]>>]
    BY <1>2 DEF Contents
  <1>6. DOMAIN Contents' = DOMAIN Contents \cup {p} /\ p \notin DOMAIN Contents
    BY <1>2 DEF Contents
  <1> HIDE DEF p, n
  <1>7. ASSUME NEW i \in 0 .. n - 1
        PROVE  /\ p + i \in Addr
               /\ \A q \in DOMAIN live : \A j \in 0 .. live[q] - 1 : p + i # q + j
               /\ req.zero => Contents'[p][i] = <<0, 0>>
    <2>1. /\ Layout(heap', blocks', frontier')
          /\ b \in blocks' /\ Allocated \subseteq blocks' /\ b \notin Allocated
      BY <1>1 DEF Served, Serves, HeapOk, Allocated, Free
    <2>2. p + i \in b + 1 .. b + sizeAt(heap', b)
      <3>1. /\ sizeAt(heap', b) = sizeAt(heap', blockBaseOf(p))
            /\ p \in DOMAIN live'
        BY <1>2 DEF p, blockBaseOf, PREFIX
      <3>2. sizeAt(heap', b) \in n .. n + 2
        BY <3>1, <1>1, <1>2 DEF Served, OwnersMatch, MIN_SPLIT_EXTENT
      <3>3. p = b + 1
        BY DEF p
      <3>4. sizeAt(heap', b) \in Nat
        BY <2>1, BlockWords DEF Layout
      <3> QED BY <3>2, <3>3, <3>4, <1>2, <1>3
    <2>3. /\ p + i \in Addr
          /\ \A d \in blocks' : /\ d \in Nat /\ sizeAt(heap', d) \in Nat
                                /\ d # b => p + i < d \/ d + 1 + sizeAt(heap', d) < p + i
      BY <2>1, <2>2, PayloadApart
    <2>5. ASSUME NEW q \in DOMAIN live, NEW j \in 0 .. live[q] - 1
          PROVE  p + i # q + j
      <3> DEFINE c == blockBaseOf(q)
                 d == q + j
      <3>1. /\ c \in Allocated /\ c \in Nat
            /\ d \in c + 1 .. c + sizeAt(heap, c)
        BY HeldWords
      <3> HIDE DEF c, d
      <3>2. sizeAt(heap', c) = sizeAt(heap, c) /\ c # b /\ c \in blocks'
        BY <3>1, <2>1, <1>1 DEF Served
      <3>3. p + i < c \/ c + 1 + sizeAt(heap, c) < p + i
        BY <3>2, <2>3
      <3>4. p + i # d
        BY <3>1, <3>2, <3>3, <1>2, <1>3, <2>3
      <3> QED BY <3>4 DEF d
    <2>4. ASSUME req.zero
          PROVE  Contents'[p][i] = <<0, 0>>
      <3>1. p + i \in b + 1 .. b + n
        BY <1>2, <1>3 DEF p
      <3>2. heap'.lo[p + i] = 0 /\ heap'.hi[p + i] = 0
        BY <2>4, <3>1, <1>1 DEF Served, n
      <3> QED BY <3>2, <1>5
    <2> QED BY <2>3, <2>4, <2>5
  <1>8. /\ DOMAIN Contents = DOMAIN live
        /\ \A q \in DOMAIN live : DOMAIN Contents[q] = 0 .. live[q] - 1
        /\ DOMAIN Contents'[p] = 0 .. n - 1
    BY <1>5 DEF Contents
  <1>9. /\ Asked = req /\ Asked' = NoReq /\ Running /\ Running'
    BY <1>1 DEF Return, Asked, Running, Aborts
  <1>10. req # NoReq
    BY <1>3 DEF NoReq, n
  <1>11. p \in Addr \ DOMAIN Contents
    BY <1>2, <1>6
  <1>12. ASSUME NEW i \in 0 .. n - 1
         PROVE  /\ p + i \in Addr
                /\ \A q \in DOMAIN Contents : p + i \notin Abstract!Span(q)
                /\ req.zero => Contents'[p][i] = <<0, 0>>
    BY <1>7, <1>8 DEF Abstract!Span, Abstract!Words
  <1> HIDE DEF Contents
  <1> QED BY <1>4, <1>6, <1>8, <1>9, <1>10, <1>11, <1>12
          DEF Abstract!Answer, Abstract!NotAsked, NoReq, Asked, Running, n

\* RawFree takes one object away and leaves the contents of the others.
LEMMA FreeRefines ==
  ASSUME IInv, NEW ptr \in Addr, RawFree(ptr)
  PROVE  Abstract!Free
  <1>1. /\ pc = "idle" /\ pc' = pc /\ req' = req
        /\ ptr \in DOMAIN live
        /\ live' = [p \in DOMAIN live \ {ptr} |-> live[p]]
    BY DEF RawFree
  <1>2. /\ Allocated' = Allocated \ {blockBaseOf(ptr)}
        /\ SamePayload(heap', heap, Allocated')
    BY RawFreeOk DEF IInv
  <1>3. DOMAIN live' = DOMAIN live \ {ptr} /\ \A q \in DOMAIN live' : live'[q] = live[q]
    BY <1>1
  <1>4. ASSUME NEW q \in DOMAIN live \ {ptr} PROVE Contents'[q] = Contents[q]
    <2>1. /\ blockBaseOf(q) \in Allocated /\ q = blockBaseOf(q) + 1
          /\ ptr = blockBaseOf(ptr) + 1
      BY <1>1, HeldWords
    <2>2. blockBaseOf(q) \in Allocated'
      BY <2>1, <1>2
    <2> QED BY <2>2, <1>2, <1>3, SameContents
  <1>5. /\ Contents' = [q \in DOMAIN live' |-> Contents'[q]]
        /\ DOMAIN Contents = DOMAIN live
    BY DEF Contents
  <1>6. Contents' = [q \in DOMAIN Contents \ {ptr} |-> Contents[q]]
    <2> HIDE DEF Contents
    <2> QED BY <1>3, <1>4, <1>5
  <1>7. Asked = NoReq /\ Asked' = NoReq /\ Running /\ Running'
    BY <1>1 DEF Asked, Running, Aborts
  <1> HIDE DEF Contents
  <1> QED BY <1>1, <1>5, <1>6, <1>7
          DEF Abstract!Free, Abstract!NotAsked, NoReq, Asked, Running

\* A store changes one object.
LEMMA StoreRefines ==
  ASSUME IInv, NEW p \in DOMAIN live, NEW v \in UserWords, CallerWrite(p, v)
  PROVE  Abstract!Store
  <1>1. pc = "idle" /\ pc' = pc /\ req' = req /\ live' = live
    BY DEF CallerWrite
  <1>2. SamePayload(heap', heap, blocks \ {blockBaseOf(p)})
    BY CallerWriteOk
  <1>3. ASSUME NEW q \in DOMAIN live \ {p} PROVE Contents'[q] = Contents[q]
    <2>1. /\ blockBaseOf(q) \in blocks /\ q = blockBaseOf(q) + 1
          /\ p = blockBaseOf(p) + 1
      BY HeldWords
    <2>2. blockBaseOf(q) \in blocks \ {blockBaseOf(p)}
      BY <2>1
    <2> QED BY <2>2, <1>1, <1>2, SameContents
  <1>4. /\ DOMAIN Contents = DOMAIN live /\ DOMAIN Contents' = DOMAIN live
        /\ DOMAIN Contents[p] = 0 .. live[p] - 1
        /\ DOMAIN Contents'[p] = 0 .. live[p] - 1
    BY <1>1 DEF Contents
  <1>5. Asked = NoReq /\ Asked' = NoReq /\ Running /\ Running'
    BY <1>1 DEF Asked, Running, Aborts
  <1> HIDE DEF Contents
  <1> QED BY <1>3, <1>4, <1>5
          DEF Abstract!Store, Abstract!NotAsked, Abstract!Words, NoReq, Asked, Running

\* A step that leaves memory, holdings and request as they are.
LEMMA StutterRefines ==
  ASSUME heap' = heap, live' = live, req' = req, pc' = pc
  PROVE  UNCHANGED Abstract!vars
  <1>1. Contents' = Contents
    BY DEF Contents
  <1> QED BY <1>1 DEF Abstract!vars

\* Every step of the allocator is one of the memory, or leaves it as it is.
LEMMA NextRefines ==
  ASSUME IInv, IInv', [Next]_vars
  PROVE  [Abstract!Next]_(Abstract!vars)
  <1>1. ASSUME NEW n \in RequestBytes, RejectAlloc(n)
        PROVE  Abstract!Next
    BY <1>1, AbortRefines DEF Abstract!Next
  <1>2. ASSUME NEW n \in RequestBytes, NEW z \in BOOLEAN, RawAlloc(n, z)
        PROVE  Abstract!Next
    BY <1>2, AskRefines DEF Abstract!Next
  <1>3. CASE Serve
    <2>1. CASE PopClass
      BY <2>1, PopClassServes, AnswerRefines DEF Abstract!Next
    <2>2. CASE ScanNext
      <3>1. heap' = heap /\ live' = live /\ req' = req /\ pc' = pc
        BY <2>2 DEF ScanNext
      <3> QED BY <3>1, StutterRefines
    <2>3. CASE ScanHit
      BY <2>3, ScanHitServes, AnswerRefines DEF Abstract!Next
    <2>4. CASE Carve
      BY <2>4, CarveServes, AnswerRefines DEF Abstract!Next
    <2>5. CASE CarveExhausted
      BY <2>5, AbortRefines DEF Abstract!Next
    <2> QED BY <1>3, <2>1, <2>2, <2>3, <2>4, <2>5 DEF Serve
  <1>4. ASSUME NEW p \in Addr, RawFree(p) PROVE Abstract!Next
    BY <1>4, FreeRefines DEF Abstract!Next
  <1>5. ASSUME NEW p \in Addr, FreeTrapped(p) PROVE Abstract!Next
    BY <1>5, AbortRefines DEF Abstract!Next
  <1>6. ASSUME NEW p \in DOMAIN live, NEW v \in UserWords, CallerWrite(p, v)
        PROVE  Abstract!Next
    BY <1>6, StoreRefines DEF Abstract!Next
  <1>7. CASE UNCHANGED vars
    <2>1. heap' = heap /\ live' = live /\ req' = req /\ pc' = pc
      BY <1>7 DEF vars
    <2> QED BY <2>1, StutterRefines
  <1> QED BY <1>1, <1>2, <1>3, <1>4, <1>5, <1>6, <1>7 DEF Next

\* The allocator implements RawHeap: callers get memory nobody else holds,
\* zeroed on request, and it holds what they stored until they free it,
\* whatever RawAlloc splits and RawFree merges around it.
THEOREM Implements == Spec => ImplementsRawHeap
  <1>1. IInv /\ IInv' /\ [Next]_vars => [Abstract!Next]_(Abstract!vars)
    BY NextRefines
  <1> QED BY <1>1, InitRefines, Invariance, PTL
          DEF Spec, ImplementsRawHeap, Abstract!Spec
============================================================================
