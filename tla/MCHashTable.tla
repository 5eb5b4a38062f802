---------------------------- MODULE MCHashTable ----------------------------
(***************************************************************************)
(* HashTable with four keys, one of them as two objects that compare       *)
(* equal, in a table of 4 slots that the fourth key makes grow to 8.       *)
(***************************************************************************)
EXTENDS HashTable, TLC

CONSTANTS a, a2, b, c, d

MCKeys == {a, a2, b, c, d}
MCIdent == (a2 :> a) @@ [k \in {a, b, c, d} |-> k]

\* Each key object is put with a value of its own, so a value that went to
\* another key shows.
MCVals == MCKeys
MCStored == {<<k, k>> : k \in MCKeys}

\* 3 and 7 collide in 4 slots and not in 8; both wrap around to 0, the home of
\* others.  In the first function all keys collide in both capacities.
Homes(ha, hb, hc, hd) == (a :> ha) @@ (b :> hb) @@ (c :> hc) @@ (d :> hd)
MCHashers == {Homes(3, 3, 3, 3), Homes(3, 0, 3, 7), Homes(7, 0, 0, 3)}
============================================================================
