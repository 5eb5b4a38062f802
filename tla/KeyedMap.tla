------------------------------ MODULE KeyedMap ------------------------------
(***************************************************************************)
(* What the hash containers of pkg/std/containers promise: a finite map    *)
(* from keys to values.  Keys that compare equal are one key, and the map  *)
(* remembers the key object of the last Put.                               *)
(***************************************************************************)
CONSTANTS
  Keys,   \* key objects
  Stored, \* the pairs of a key object and a value that callers put
  Ident,  \* key object -> the key it is equal to
  NoVal   \* the zero value

VARIABLES
  map,   \* Ident -> the key object and the value stored
  ret    \* the value and the flag the last call returned

vars == <<map, ret>>

Has(k) == Ident[k] \in DOMAIN map
Found(k) == IF Has(k) THEN <<map[Ident[k]].val, TRUE>> ELSE <<NoVal, FALSE>>
With(k, v) ==
  [c \in DOMAIN map \cup {Ident[k]} |->
     IF c = Ident[k] THEN [key |-> k, val |-> v] ELSE map[c]]

Init == map = [c \in {} |-> 0] /\ ret = <<NoVal, FALSE>>

Put(k, v) == map' = With(k, v) /\ ret' = <<NoVal, FALSE>>
Get(k) == ret' = Found(k) /\ UNCHANGED map

\* First wins: a key that is present keeps its value and its key object
GetOrPut(k, v) ==
  \/ Has(k) /\ ret' = Found(k) /\ UNCHANGED map
  \/ ~Has(k) /\ ret' = <<v, FALSE>> /\ map' = With(k, v)

Remove(k) ==
  /\ ret' = <<NoVal, Has(k)>>
  /\ map' = [c \in DOMAIN map \ {Ident[k]} |-> map[c]]

Next ==
  \/ \E k \in Keys : Get(k) \/ Remove(k)
  \/ \E p \in Stored : Put(p[1], p[2]) \/ GetOrPut(p[1], p[2])

Spec == Init /\ [][Next]_vars
=============================================================================
