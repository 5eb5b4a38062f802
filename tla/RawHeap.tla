------------------------------ MODULE RawHeap ------------------------------
(***************************************************************************)
(* What rt.RawAlloc, rt.RawAllocZero and rt.RawFree promise their callers: *)
(* memory nobody else holds, holding what its owner last stored in it (or  *)
(* zero, when the caller asked for that), until its owner frees it.  The   *)
(* only other outcome of a request is the end of the program.              *)
(***************************************************************************)
EXTENDS Integers

CONSTANT Memory    \* the addresses the allocator may hand out

VARIABLES
  data,     \* what is held: address -> its words, numbered from 0
  asked,    \* the size and kind of the request being served
  running   \* FALSE once the program has aborted

vars == <<data, asked, running>>

NotAsked == [need |-> 0, zero |-> FALSE]
Words(p) == DOMAIN data[p]
Span(p)  == {p + i : i \in Words(p)}

Init == data = [p \in {} |-> 0] /\ asked = NotAsked /\ running = TRUE

Ask ==
  /\ running /\ asked = NotAsked
  /\ asked' # NotAsked /\ asked'.need >= 1
  /\ UNCHANGED <<data, running>>

\* Any address outside every object held, and no object held is touched
Answer ==
  /\ running /\ asked # NotAsked
  /\ asked' = NotAsked
  /\ \E p \in Memory \ DOMAIN data :
       /\ DOMAIN data' = DOMAIN data \cup {p}
       /\ DOMAIN data'[p] = 0 .. asked.need - 1
       /\ \A i \in 0 .. asked.need - 1 :
            /\ p + i \in Memory
            /\ \A q \in DOMAIN data : p + i \notin Span(q)
            /\ asked.zero => data'[p][i] = <<0, 0>>
       /\ \A q \in DOMAIN data : data'[q] = data[q]
  /\ UNCHANGED running

Free ==
  /\ running /\ asked = NotAsked
  /\ \E p \in DOMAIN data : data' = [q \in DOMAIN data \ {p} |-> data[q]]
  /\ UNCHANGED <<asked, running>>

\* An owner stores into its own object only
Store ==
  /\ running /\ asked = NotAsked
  /\ \E p \in DOMAIN data :
       /\ DOMAIN data' = DOMAIN data
       /\ DOMAIN data'[p] = Words(p)
       /\ \A q \in DOMAIN data \ {p} : data'[q] = data[q]
  /\ UNCHANGED <<asked, running>>

Abort == running /\ running' = FALSE /\ UNCHANGED <<data, asked>>

Next == Ask \/ Answer \/ Free \/ Store \/ Abort

Spec == Init /\ [][Next]_vars
============================================================================
