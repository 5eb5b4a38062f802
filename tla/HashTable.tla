----------------------------- MODULE HashTable -----------------------------
(***************************************************************************)
(* The open-addressing engine of the hash containers                       *)
(* (pkg/std/containers/table): linear probing over a power-of-two          *)
(* capacity, growth at 75% load, backward-shift deletion and cursors.      *)
(*                                                                         *)
(* A probe is one step.  The loops that move entries, the re-insertion of  *)
(* grow and the backward shift of Remove, are one step per slot.  A cursor *)
(* is followed until a mutation the source says invalidates it.            *)
(***************************************************************************)
EXTENDS Integers, FiniteSets

CONSTANTS
  Keys,         \* key objects
  Vals,         \* values
  Stored,       \* the pairs of a key object and a value that callers put
  Ident,        \* Eq: key objects are Equal when Ident agrees on them
  Hashers,      \* the Hash functions to consider, on what Ident yields
  InitialCap,   \* the capacity of a new table (8)
  NoKey, NoVal  \* the zero key and value

ASSUME TableAssumption ==
  /\ DOMAIN Ident = Keys
  /\ \A f \in Hashers, k \in Keys : f[Ident[k]] \in Nat
  /\ Stored \subseteq Keys \X Vals
  /\ InitialCap \in Nat /\ InitialCap >= 2
  /\ NoKey \notin Keys /\ NoVal \notin Vals

VARIABLES
  h,       \* the Hasher of the table
  t,       \* keys, vals and used by slot, count and cap
  pc,      \* "idle", "rehash" (in grow) or "shift" (in Remove)
  old,     \* grow's oldKeys, oldVals, oldUsed and oldCap
  i,       \* the slot grow re-inserts next (gi), or Remove's gap
  j,       \* the slot Remove's shift has reached
  adding,  \* the key, the value and what the call returns once grow is done
  ret,     \* what the last call returned
  cursor   \* [at: next slot, or -1 for no cursor; seen, due: history]

vars == <<h, t, pc, old, i, j, adding, ret, cursor>>
locals == <<old, i, j, adding>>

Equal(a, b) == Ident[a] = Ident[b]
Slots(tb) == 0 .. tb.cap - 1
Used(tb) == {s \in Slots(tb) : tb.used[s]}
Idents(tb) == {Ident[tb.keys[s]] : s \in Used(tb)}

NewTable(cap) ==
  [keys |-> [s \in 0 .. cap - 1 |-> NoKey], vals |-> [s \in 0 .. cap - 1 |-> NoVal],
   used |-> [s \in 0 .. cap - 1 |-> FALSE], count |-> 0, cap |-> cap]
NoTable == NewTable(0)
Nothing == <<NoVal, FALSE>>
NoAdding == [key |-> NoKey, val |-> NoVal, ret |-> Nothing]
NoCursor == [at |-> -1, seen |-> {}, due |-> {}]

----------------------------------------------------------------------------
(* Probing.  cap is a power of two, so "& mask" is "% cap".                 *)

home(tb, k) == h[Ident[k]] % tb.cap
Dist(tb, a, b) == (b - a) % tb.cap

\* The first slot of S that a linear probe for k meets
Probe(tb, k, S) ==
  CHOOSE s \in S : \A r \in S : Dist(tb, home(tb, k), s) <= Dist(tb, home(tb, k), r)

Vacant(tb) == Slots(tb) \ Used(tb)
Find(tb, k) == Probe(tb, k, Vacant(tb) \cup {s \in Used(tb) : Equal(k, tb.keys[s])})

Place(tb, k, v) ==
  LET s == Probe(tb, k, Vacant(tb))
  IN  [tb EXCEPT !.keys[s] = k, !.vals[s] = v, !.used[s] = TRUE]

----------------------------------------------------------------------------
(* Insertion                                                               *)

Overloaded(tb) == (tb.count + 1) * 4 > tb.cap * 3

\* insertAbsent, up to the end of the call or the start of grow
insertAbsent(k, v, r) ==
  IF Overloaded(t)
  THEN /\ pc' = "rehash"
       /\ old' = t /\ i' = 0
       /\ t' = [NewTable(2 * t.cap) EXCEPT !.count = t.count]
       /\ adding' = [key |-> k, val |-> v, ret |-> r]
       /\ cursor' = NoCursor
       /\ UNCHANGED <<j, ret>>
  ELSE /\ t' = [Place(t, k, v) EXCEPT !.count = @ + 1]
       /\ ret' = r
       /\ UNCHANGED <<pc, locals, cursor>>

\* Mutant: an overwrite keeps the key object of the first Put
PutKeepsKey(k, v) ==
  LET s == Find(t, k) IN
  /\ pc = "idle"
  /\ IF t.used[s]
     THEN /\ t' = [t EXCEPT !.vals[s] = v]
          /\ ret' = Nothing
          /\ UNCHANGED <<pc, locals, cursor>>
     ELSE insertAbsent(k, v, Nothing)
  /\ UNCHANGED h

Put(k, v) ==
  LET s == Find(t, k) IN
  /\ pc = "idle"
  /\ IF t.used[s]
     THEN /\ t' = [t EXCEPT !.keys[s] = k, !.vals[s] = v]
          /\ ret' = Nothing
          /\ UNCHANGED <<pc, locals, cursor>>
     ELSE insertAbsent(k, v, Nothing)
  /\ UNCHANGED h

GetOrPut(k, v) ==
  LET s == Find(t, k) IN
  /\ pc = "idle"
  /\ IF t.used[s]
     THEN ret' = <<t.vals[s], TRUE>> /\ UNCHANGED <<t, pc, locals, cursor>>
     ELSE insertAbsent(k, v, <<v, FALSE>>)
  /\ UNCHANGED h

\* One iteration of grow's loop
Rehash ==
  /\ pc = "rehash" /\ i < old.cap
  /\ i' = i + 1
  /\ t' = IF old.used[i] THEN Place(t, old.keys[i], old.vals[i]) ELSE t
  /\ UNCHANGED <<h, pc, old, j, adding, ret, cursor>>

\* insertAbsent after grow
InsertGrown ==
  /\ pc = "rehash" /\ i = old.cap
  /\ t' = [Place(t, adding.key, adding.val) EXCEPT !.count = @ + 1]
  /\ ret' = adding.ret
  /\ pc' = "idle" /\ old' = NoTable /\ i' = 0 /\ adding' = NoAdding
  /\ UNCHANGED <<h, j, cursor>>

Get(k) ==
  LET s == Find(t, k) IN
  /\ pc = "idle"
  /\ ret' = IF t.used[s] THEN <<t.vals[s], TRUE>> ELSE Nothing
  /\ UNCHANGED <<h, t, pc, locals, cursor>>

----------------------------------------------------------------------------
(* Removal                                                                 *)

\* A key found is gone from the map at once; the shift repairs the probe paths
Remove(k) ==
  LET s == Find(t, k) IN
  /\ pc = "idle"
  /\ ret' = <<NoVal, t.used[s]>>
  /\ IF t.used[s]
     THEN pc' = "shift" /\ i' = s /\ j' = s /\ cursor' = NoCursor
     ELSE UNCHANGED <<pc, i, j, cursor>>
  /\ UNCHANGED <<h, t, old, adding>>

\* Mutant: the wrapped interval is tested like the other
inRangeUnwrapped(a, x, b) == a < x /\ x <= b

\* x lies cyclically in (a, b]
inRange(a, x, b) == IF a < b THEN a < x /\ x <= b ELSE x > a \/ x <= b

Shift ==
  LET n == (j + 1) % t.cap IN
  /\ pc = "shift" /\ t.used[n]
  /\ j' = n
  /\ IF inRange(i, home(t, t.keys[n]), n)
     THEN UNCHANGED <<t, i>>
     ELSE /\ t' = [t EXCEPT !.keys[i] = t.keys[n], !.vals[i] = t.vals[n]]
          /\ i' = n
  /\ UNCHANGED <<h, pc, old, adding, ret, cursor>>

ShiftEnd ==
  /\ pc = "shift" /\ ~t.used[(j + 1) % t.cap]
  /\ t' = [t EXCEPT !.used[i] = FALSE, !.keys[i] = NoKey, !.vals[i] = NoVal,
                    !.count = @ - 1]
  /\ pc' = "idle" /\ i' = 0 /\ j' = 0
  /\ UNCHANGED <<h, old, adding, ret, cursor>>

----------------------------------------------------------------------------
(* Iteration.  seen is what the cursor has yielded, due what it must still *)
(* yield: the entries live since Iter.                                     *)

Iter ==
  /\ pc = "idle"
  /\ cursor' = [at |-> 0, seen |-> {}, due |-> Idents(t)]
  /\ UNCHANGED <<h, t, pc, locals, ret>>

\* Mutant: the slot looked at first is skipped
CursorNextSkips ==
  LET ahead == {s \in Used(t) : s > cursor.at}
      slot == CHOOSE s \in ahead : \A r \in ahead : s <= r
      e == Ident[t.keys[slot]]
  IN  /\ pc = "idle" /\ cursor.at >= 0
      /\ cursor' = IF ahead = {} THEN [cursor EXCEPT !.at = t.cap]
                   ELSE [at |-> slot + 1, seen |-> cursor.seen \cup {e},
                         due |-> cursor.due \ {e}]
      /\ UNCHANGED <<h, t, pc, locals, ret>>

CursorNext ==
  LET ahead == {s \in Used(t) : s >= cursor.at}
      slot == CHOOSE s \in ahead : \A r \in ahead : s <= r
      e == Ident[t.keys[slot]]
  IN  /\ pc = "idle" /\ cursor.at >= 0
      /\ cursor' = IF ahead = {} THEN [cursor EXCEPT !.at = t.cap]
                   ELSE [at |-> slot + 1, seen |-> cursor.seen \cup {e},
                         due |-> cursor.due \ {e}]
      /\ UNCHANGED <<h, t, pc, locals, ret>>

----------------------------------------------------------------------------
Init ==
  /\ h \in Hashers
  /\ t = NewTable(InitialCap)
  /\ pc = "idle" /\ old = NoTable /\ i = 0 /\ j = 0 /\ adding = NoAdding
  /\ ret = Nothing /\ cursor = NoCursor

Next ==
  \/ \E k \in Keys : Get(k) \/ Remove(k)
  \/ \E p \in Stored : Put(p[1], p[2]) \/ GetOrPut(p[1], p[2])
  \/ Rehash \/ InsertGrown \/ Shift \/ ShiftEnd
  \/ Iter \/ CursorNext

Spec == Init /\ [][Next]_vars

----------------------------------------------------------------------------
(* Properties                                                              *)

\* Every variable holds a value of its type; the slots are always the ones the
\* capacity names, in the middle of a growth too.
TypeOK ==
  LET Tables(cap) ==
        [keys : [0 .. cap - 1 -> Keys \cup {NoKey}], vals : [0 .. cap - 1 -> Vals \cup {NoVal}],
         used : [0 .. cap - 1 -> BOOLEAN], count : Nat, cap : {cap}]
  IN  /\ h \in Hashers /\ t.cap \in Nat \ {0} /\ t \in Tables(t.cap)
      /\ pc \in {"idle", "rehash", "shift"} /\ old \in Tables(old.cap)
      /\ i \in 0 .. t.cap /\ j \in 0 .. t.cap - 1
      /\ adding.key \in Keys \cup {NoKey}
      /\ ret \in (Vals \cup {NoVal}) \X BOOLEAN
      /\ cursor.at \in -1 .. t.cap

\* Between calls every entry can be found: no vacant slot lies on the probe path
\* from its home to it, whatever removals and growths came before
\* (table.bni:16-20, 188-194).
ProbePathsUnbroken ==
  pc = "idle" =>
    \A s \in Used(t) : \A r \in Vacant(t) :
      Dist(t, home(t, t.keys[s]), r) > Dist(t, home(t, t.keys[s]), s)

\* count is exact between calls and a quarter of the slots stay vacant, in a
\* growth too, so every probe and every shift ends (table.bni:104-111).
LoadBounded ==
  /\ 4 * Cardinality(Used(t)) <= 3 * t.cap
  /\ pc = "idle" => t.count = Cardinality(Used(t))

\* A vacant slot holds no key and no value, so what was stored is released
\* (table.bni:193-194).
VacatedReleased ==
  \A s \in Vacant(t) : t.keys[s] = NoKey /\ t.vals[s] = NoVal

\* The slots and the count are right at every step.
TableSound == TypeOK /\ ProbePathsUnbroken /\ LoadBounded /\ VacatedReleased

\* A cursor that nothing invalidated yields each entry once: never one it has
\* yielded, and by its end every entry that was live at Iter, while Puts overwrite
\* or insert without growth (table.bni:235-238, 252-255).
CursorExact ==
  /\ cursor.seen \cap cursor.due = {}
  /\ \A s \in Used(t) :
       s >= cursor.at /\ cursor.at >= 0 => Ident[t.keys[s]] \notin cursor.seen
  /\ cursor.at = t.cap => cursor.due = {}

\* The entries: the table's, or the old backing's during a growth, without the
\* gap of a removal.
Entries ==
  LET tb == IF pc = "rehash" THEN old ELSE t
      S == Used(tb) \ (IF pc = "shift" THEN {i} ELSE {})
      SlotOf(c) == CHOOSE s \in S : Ident[tb.keys[s]] = c
  IN  [c \in {Ident[tb.keys[s]] : s \in S} |->
         [key |-> tb.keys[SlotOf(c)], val |-> tb.vals[SlotOf(c)]]]

Abstract == INSTANCE KeyedMap WITH map <- Entries

\* The table implements a map with the key identity of its last Put.
ImplementsKeyedMap == Abstract!Spec
============================================================================
