----------------------------- MODULE FlowGraph -----------------------------
(***************************************************************************)
(* The control-flow graph, the dominators and the natural loops that       *)
(* perf/placement/layout.py --loops reports for one function: from the     *)
(* body of its span (LayoutSpan) to its basic blocks and the fixpoint of   *)
(* Cooper, Harvey and Kennedy (layout_loops.py).  One action is one visit  *)
(* of a node by the sweep.                                                 *)
(***************************************************************************)
EXTENDS LayoutSpan

VARIABLES
    recs,    \* the items of the span, NOP runs already classified
    body,    \* the function's own body, a prefix of them
    succ,    \* the successors of each block
    rpo,     \* the nodes in reverse postorder
    idom,    \* dominator tree under construction: node -> node or None
    at,      \* position in the sweep over the reverse postorder
    refined, \* whether this sweep has changed a dominator (changed)
    done

flow == <<recs, body, succ, rpo, idom, at, refined, done>>

---------------------------------------------------------------------------
(* Basic blocks, named by the index of their first item.                   *)

\* Item i falls through from the last item before it that is not pad.
FtIn(span, i) ==
    LET p == Before(span, i, "PAD") IN p # 0 /\ IsCode(span[p]) /\ span[p].ft

\* A branch, return, trap, or anything that is not code ends a block.
Breaks(span, i) ==
    LET p == Before(span, i, "PAD")
    IN p = 0 \/ ~IsCode(span[p]) \/ BranchTo(span[p]) # 0 \/ ~span[p].ft

BlocksOf(span) ==
    LET entered == Entered(span)
    IN {i \in DOMAIN span : IsCode(span[i]) /\ (i \in entered \/ Breaks(span, i))}

BlockOf(blocks, i) == Max({b \in blocks : b <= i})

\* The last instruction of block b.
LastOf(span, blocks, b) ==
    Max({i \in DOMAIN span : IsCode(span[i]) /\ BlockOf(blocks, i) = b})

\* The block that b's last instruction falls through to, and the one it branches to.
FallEdge(span, blocks, b) ==
    {c \in blocks : FtIn(span, c) /\ BlockOf(blocks, Before(span, c, "PAD")) = b}
JumpEdge(span, blocks, b) == JumpsTo(span, LastOf(span, blocks, b))

BuildBlocks(span) ==
    LET blocks == BlocksOf(span)
    IN [b \in blocks |-> FallEdge(span, blocks, b) \cup JumpEdge(span, blocks, b)]

Blocks == DOMAIN succ
Pred(b) == {a \in Blocks : b \in succ[a]}

\* The blocks that start at the span's entry, or the first block.
RootsOf(blocks) == IF 1 \in blocks THEN {1} ELSE {Min(blocks)}

---------------------------------------------------------------------------
(* Dominators, from a virtual root 0 that reaches every root.              *)

VRoot == 0
NoIdom == -1  \* no dominator yet: no node

PredV(n) == Pred(n) \cup (IF n \in RootsOf(Blocks) THEN {VRoot} ELSE {})

\* A block's successors in the order the edges were added.
Ordered(span, graph, n) ==
    LET roots == RootsOf(DOMAIN graph)
        fall == FallEdge(span, DOMAIN graph, n)
        jump == graph[n] \ fall
        One(S) == IF S = {} THEN <<>> ELSE <<Min(S)>>
    IN IF n = VRoot THEN One(roots) ELSE One(fall) \o One(jump)

EdgesOf(span, graph) == [n \in DOMAIN graph \cup {VRoot} |-> Ordered(span, graph, n)]

\* One turn of the search: the next edge of the node on top of the stack, or
\* the node is left.
DfsStep(edges, s) ==
    LET top == s.stack[Len(s.stack)]
        below == SubSeq(s.stack, 1, Len(s.stack) - 1)
        rest == Append(below, <<top[1], top[2] + 1>>)
        nxt == edges[top[1]][top[2]]
    IN IF s.stack = <<>> THEN s
       ELSE IF top[2] > Len(edges[top[1]])
            THEN [s EXCEPT !.stack = below, !.left = <<top[1]>> \o @]
       ELSE IF nxt \in s.seen THEN [s EXCEPT !.stack = rest]
       ELSE [s EXCEPT !.stack = Append(rest, <<nxt, 1>>), !.seen = @ \cup {nxt}]

\* The nodes a depth-first search from the virtual root leaves, last first.
ReversePostorder(span, graph) ==
    LET edges == EdgesOf(span, graph)
        start == [stack |-> <<<<VRoot, 1>>>>, seen |-> {VRoot}, left |-> <<>>]
        bound == 4 * (Cardinality(DOMAIN graph) + 1)
        dfs[k \in 0..bound] == IF k = 0 THEN start ELSE DfsStep(edges, dfs[k - 1])
    IN dfs[bound].left

NodeOrder == [n \in {rpo[i] : i \in DOMAIN rpo} |-> CHOOSE i \in DOMAIN rpo : rpo[i] = n]

\* The nodes that have a dominator.
Settled == {n \in DOMAIN idom : idom[n] # NoIdom}

\* Where the two dominator chains meet.
Meet(order, a, b) ==
    LET meet[p \in Settled \X Settled] ==
          IF p[1] = p[2] THEN p[1]
          ELSE IF order[p[1]] > order[p[2]] THEN meet[<<idom[p[1]], p[2]>>]
          ELSE meet[<<p[1], idom[p[2]]>>]
    IN meet[<<a, b>>]

\* The node's new dominator: the meet of its predecessors that have one.
NewIdom(order, n) ==
    LET ready == PredV(n) \cap Settled
        fold[S \in (SUBSET ready) \ {{}}] ==
          LET x == CHOOSE y \in S : TRUE
          IN IF Cardinality(S) = 1 THEN x ELSE Meet(order, x, fold[S \ {x}])
    IN IF ready = {} THEN NoIdom ELSE fold[ready]

\* Whether h dominates u: h is on u's dominator chain.
ChainOf(u) ==
    LET up == [x \in DOMAIN idom |-> IF x = VRoot \/ idom[x] = NoIdom THEN {} ELSE {idom[x]}]
    IN Closure({u}, up, SpanLength + 1)

Dominates(h, u) == h \in ChainOf(u)

\* Mutant of BackEdges: any edge to an earlier node.
RetreatingEdges == {e \in Blocks \X Blocks :
                      idom[e[1]] # NoIdom /\ e[2] \in succ[e[1]] /\ NodeOrder[e[2]] <= NodeOrder[e[1]]}

\* The loop of each header: the header and every block that reaches a back
\* edge's source without passing it.  Loops that share a header are one.
BackEdges == {e \in Blocks \X Blocks :
                idom[e[1]] # NoIdom /\ e[2] \in succ[e[1]] /\ Dominates(e[2], e[1])}

NaturalLoop(h) ==
    LET up == [x \in Blocks |-> IF x = h THEN {} ELSE Pred(x) \cap Settled]
    IN {h} \cup Closure({e[1] : e \in {b \in BackEdges : b[2] = h}}, up, SpanLength)

Headers == {e[2] : e \in BackEdges}

\* A loop's parent: the smallest larger loop that holds its header.
ParentOf(h) ==
    LET outer == {m \in Headers \ {h} : /\ h \in NaturalLoop(m)
                                        /\ Cardinality(NaturalLoop(m)) > Cardinality(NaturalLoop(h))}
        least == {m \in outer : \A o \in outer :
                    Cardinality(NaturalLoop(m)) <= Cardinality(NaturalLoop(o))}
    IN IF outer = {} THEN NoIdom ELSE Min(least)

---------------------------------------------------------------------------
GraphInit ==
    /\ \E span \in {s \in [1..SpanLength -> Items] : Emitted(s)} : recs = ClassifyNops(span)
    /\ body = Body(recs)
    /\ succ = BuildBlocks(body)
    /\ Blocks # {}
    /\ rpo = ReversePostorder(body, succ)
    /\ idom = [n \in Blocks \cup {VRoot} |-> IF n = VRoot THEN VRoot ELSE NoIdom]
    /\ at = 2
    /\ refined = FALSE
    /\ done = FALSE

\* One iteration of the sweep over the reverse postorder.
Visit ==
    /\ ~done /\ at <= Len(rpo)
    /\ LET n == rpo[at]
           new == NewIdom(NodeOrder, n)
           moves == new # NoIdom /\ idom[n] # new
       IN /\ idom' = IF moves THEN [idom EXCEPT ![n] = new] ELSE idom
          /\ refined' = (refined \/ moves)
    /\ at' = at + 1
    /\ UNCHANGED <<recs, body, succ, rpo, done>>

\* Mutant of Swept: one sweep is taken to be enough.
SweptOnce ==
    /\ ~done /\ at > Len(rpo)
    /\ done' = TRUE
    /\ UNCHANGED <<recs, body, succ, rpo, idom, at, refined>>

\* The sweep is over: another one if it changed anything.
Swept ==
    /\ ~done /\ at > Len(rpo)
    /\ IF refined THEN at' = 2 /\ refined' = FALSE /\ UNCHANGED done
                  ELSE done' = TRUE /\ UNCHANGED <<at, refined>>
    /\ UNCHANGED <<recs, body, succ, rpo, idom>>

GraphNext == Visit \/ Swept

GraphSpec == GraphInit /\ [][GraphNext]_flow

---------------------------------------------------------------------------
(* Reference definitions.                                                  *)

\* The blocks reached from the roots without passing h.
ReachedAvoiding(h) ==
    LET next == [x \in Blocks |-> succ[x] \ {h}] IN Closure(RootsOf(Blocks) \ {h}, next, SpanLength)

\* What the processor executes from the entry, NOPs and pad included.
Executed ==
    LET Runs(i) == i \in DOMAIN recs /\ recs[i].cls \in {"CODE", "PAD"}
        next == [i \in DOMAIN recs |->
                   {j \in DOMAIN recs : /\ Runs(j)
                                        /\ \/ recs[i].ft /\ j = i + 1
                                           \/ IsCode(recs[i]) /\ j = BranchTo(recs[i])}]
    IN IF Runs(1) THEN Closure({1}, next, Len(recs)) ELSE {}

\* Every instruction the processor can execute from the function's entry lies
\* in a block the graph reaches from its roots, and the other way round: no
\* jump, fall-through over pad, or NOP run is missed or invented
\* (classify_nops, owned_end and build_blocks agree on what runs).
GraphFollowsExecution ==
    IsCode(recs[1]) =>
      {i \in Executed : IsCode(recs[i])}
        = {i \in DOMAIN body : IsCode(body[i]) /\ BlockOf(Blocks, i) \in ReachedAvoiding(VRoot)}

\* When the sweeps stop, a block has no dominator exactly when nothing reaches
\* it, and its chain holds exactly the blocks every path to it passes
\* (layout_loops.dominators, dominates).
DominatorsExact ==
    done => \A u \in Blocks :
              /\ (idom[u] = NoIdom) <=> (u \notin ReachedAvoiding(VRoot))
              /\ idom[u] # NoIdom =>
                   \A h \in Blocks : Dominates(h, u) <=> (h = u \/ u \notin ReachedAvoiding(h))

\* Two loops are disjoint or one holds the other, a loop is entered only at
\* its header, and the reported parent is a loop that holds the whole child:
\* the nesting depth is well defined whatever the branches
\* (layout_loops.natural_loops, nest).
LoopsNest ==
    done => \A h \in Headers :
              /\ \A u \in NaturalLoop(h) : Dominates(h, u)
              /\ \A m \in Headers :
                   LET A == NaturalLoop(h)  B == NaturalLoop(m)
                   IN A \cap B = {} \/ A \subseteq B \/ B \subseteq A
              /\ ParentOf(h) # NoIdom => NaturalLoop(h) \subseteq NaturalLoop(ParentOf(h))
              /\ \A m \in Headers \ {h} :
                   h \in NaturalLoop(m) /\ m \notin NaturalLoop(h) => ParentOf(h) # NoIdom
=============================================================================
