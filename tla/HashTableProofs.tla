-------------------------- MODULE HashTableProofs --------------------------
(***************************************************************************)
(* Proofs about the hash-table engine, for any keys, hash functions and    *)
(* initial capacity: every entry can be found, the load stays bounded, a   *)
(* cursor is exact, and the table implements a map (KeyedMap).             *)
(***************************************************************************)
EXTENDS HashTable, LeastElements

(***************************************************************************)
(* The inductive invariant.  The three properties hold between calls; what *)
(* makes them inductive is what holds half-way through grow's re-insertion *)
(* and through the backward shift of Remove.                               *)
(***************************************************************************)
\* A table whose arrays have the length and the contents the code gives them:
\* an entry in every used slot, nothing in the others.
IsTable(tb) ==
  /\ tb.cap \in Nat /\ tb.cap >= 2 /\ tb.count \in Nat
  /\ tb \in [keys  : [Slots(tb) -> Keys \cup {NoKey}],
             vals  : [Slots(tb) -> Vals \cup {NoVal}],
             used  : [Slots(tb) -> BOOLEAN],
             count : Nat, cap : Nat]
  /\ \A s \in Used(tb) : tb.keys[s] \in Keys /\ tb.vals[s] \in Vals
  /\ \A s \in Vacant(tb) : tb.keys[s] = NoKey /\ tb.vals[s] = NoVal

\* Each entry of S is in front of the vacant slots, seen from the home that
\* the hash function f gives it.
HomeBy(f, tb, k) == f[Ident[k]] % tb.cap

Reachable(f, tb, S) ==
  \A s \in S : \A r \in Vacant(tb) :
    Dist(tb, HomeBy(f, tb, tb.keys[s]), s) < Dist(tb, HomeBy(f, tb, tb.keys[s]), r)

\* No two entries of S are for the same key.
Distinct(tb, S) ==
  \A s, r \in S : Ident[tb.keys[s]] = Ident[tb.keys[r]] => s = r

Sound(f, tb) ==
  /\ IsTable(tb) /\ Reachable(f, tb, Used(tb)) /\ Distinct(tb, Used(tb))
  /\ 4 * Cardinality(Used(tb)) <= 3 * tb.cap

Idle ==
  /\ Sound(h, t) /\ t.count = Cardinality(Used(t))
  /\ i = 0 /\ j = 0 /\ old = NoTable /\ adding = NoAdding

\* grow has moved the entries of the old slots below i, and the one being
\* added is none of them.
Growing ==
  /\ Sound(h, old) /\ old.count = Cardinality(Used(old))
  /\ Sound(h, t) /\ t.cap = 2 * old.cap /\ t.count = old.count
  /\ i \in 0 .. old.cap /\ j = 0
  /\ Cardinality(Used(t)) = Cardinality(Used(old) \cap (0 .. i - 1))
  /\ \A s \in Used(t) : \E r \in Used(old) \cap (0 .. i - 1) :
       t.keys[s] = old.keys[r] /\ t.vals[s] = old.vals[r]
  /\ \A r \in Used(old) \cap (0 .. i - 1) : \E s \in Used(t) :
       t.keys[s] = old.keys[r] /\ t.vals[s] = old.vals[r]
  /\ <<adding.key, adding.val>> \in Stored
  /\ adding.ret \in {Nothing, <<adding.val, FALSE>>}
  /\ Ident[adding.key] \notin Idents(old)

\* The slots from the gap i to j are used, every entry but the gap's is
\* reachable, and those after the gap up to j would be if the gap were vacant.
Shifting ==
  /\ IsTable(t) /\ 4 * Cardinality(Used(t)) <= 3 * t.cap
  /\ t.count = Cardinality(Used(t))
  /\ i \in Slots(t) /\ j \in Slots(t) /\ old = NoTable /\ adding = NoAdding
  /\ Distinct(t, Used(t) \ {i}) /\ Reachable(h, t, Used(t) \ {i})
  /\ \A s \in Slots(t) : Dist(t, i, s) <= Dist(t, i, j) =>
       /\ s \in Used(t)
       /\ s # i => Dist(t, HomeBy(h, t, t.keys[s]), s)
                     < Dist(t, HomeBy(h, t, t.keys[s]), i)

\* What the cursor has yielded is in the table, what it owes is ahead of it.
Following ==
  /\ cursor \in [at : Nat, seen : SUBSET Idents(t), due : SUBSET Idents(t)]
  /\ cursor.at <= t.cap
  /\ \A s \in Used(t) : s >= cursor.at => Ident[t.keys[s]] \notin cursor.seen
  /\ \A c \in cursor.due : \E s \in Used(t) : s >= cursor.at /\ Ident[t.keys[s]] = c

IInv ==
  /\ h \in Hashers
  /\ ret \in (Vals \cup {NoVal}) \X BOOLEAN
  /\ \/ pc = "idle" /\ Idle /\ (cursor = NoCursor \/ Following)
     \/ pc = "rehash" /\ Growing /\ cursor = NoCursor
     \/ pc = "shift" /\ Shifting /\ cursor = NoCursor

(***************************************************************************)
(* Slots and probing.                                                      *)
(***************************************************************************)

\* How far slot b is from slot a when the probe wraps around.
LEMMA DistIs ==
  ASSUME NEW tb, tb.cap \in Nat, tb.cap >= 2, NEW a \in Slots(tb), NEW b \in Slots(tb)
  PROVE  /\ Dist(tb, a, b) = IF a <= b THEN b - a ELSE b - a + tb.cap
         /\ Dist(tb, a, b) \in Nat
  BY DEF Dist, Slots

\* A key's home is a slot.
LEMMA HomeSlot ==
  ASSUME NEW tb, tb.cap \in Nat, tb.cap >= 2, h \in Hashers, NEW k \in Keys
  PROVE  home(tb, k) \in Slots(tb)
  <1>1. h[Ident[k]] \in Nat
    BY TableAssumption
  <1> QED BY <1>1 DEF home, Slots

\* There are finitely many slots, and a loaded table has a vacant one.
LEMMA SlotsFinite ==
  ASSUME NEW tb, tb.cap \in Nat, tb.cap >= 2
  PROVE  /\ IsFiniteSet(Slots(tb)) /\ IsFiniteSet(Used(tb))
         /\ Cardinality(Slots(tb)) = tb.cap /\ Cardinality(Used(tb)) \in Nat
         /\ 4 * Cardinality(Used(tb)) <= 3 * tb.cap => Vacant(tb) # {}
  <1>1. IsFiniteSet(Slots(tb)) /\ Cardinality(Slots(tb)) = tb.cap
    <2>1. 0 \in Int /\ tb.cap - 1 \in Int /\ 0 <= tb.cap - 1 /\ (tb.cap - 1) - 0 + 1 = tb.cap
      OBVIOUS
    <2>2. /\ IsFiniteSet(0 .. tb.cap - 1)
          /\ Cardinality(0 .. tb.cap - 1)
               = IF 0 > tb.cap - 1 THEN 0 ELSE (tb.cap - 1) - 0 + 1
      BY ONLY <2>1, FS_Interval
    <2> QED BY <2>1, <2>2 DEF Slots
  <1>2. Used(tb) \in SUBSET Slots(tb)
    BY DEF Used
  <1>3. IsFiniteSet(Used(tb))
    BY <1>1, <1>2, FS_Subset
  <1>4. Cardinality(Used(tb)) \in Nat
    BY <1>3, FS_CardinalityType
  <1>5. ASSUME Vacant(tb) = {} PROVE Used(tb) = Slots(tb)
    BY <1>2, <1>5 DEF Vacant
  <1> QED BY <1>1, <1>3, <1>4, <1>5

\* A probe meets the slot of S that is nearest to the key's home.
LEMMA ProbeNearest ==
  ASSUME NEW tb, tb.cap \in Nat, tb.cap >= 2, h \in Hashers, NEW k \in Keys,
         NEW S \in SUBSET Slots(tb), S # {}
  PROVE  /\ Probe(tb, k, S) \in S
         /\ \A r \in S : r # Probe(tb, k, S) =>
              Dist(tb, home(tb, k), Probe(tb, k, S)) < Dist(tb, home(tb, k), r)
  <1> DEFINE d(s) == Dist(tb, home(tb, k), s)
             rank == [s \in S |-> d(s)]
  <1>1. home(tb, k) \in Slots(tb)
    BY HomeSlot
  <1>2. \A s \in S : d(s) \in Nat
    BY <1>1, DistIs
  <1>3. IsFiniteSet(S)
    BY SlotsFinite, FS_Subset
  <1> HIDE DEF d
  <1>4. rank \in [S -> Int]
    BY <1>2
  <1> HIDE DEF rank
  <1>5. PICK m \in S : \A r \in S : rank[m] <= rank[r]
    BY <1>3, <1>4, LowestRank
  <1>6. \A r \in S : d(m) <= d(r)
    BY <1>5 DEF rank
  <1>7. Probe(tb, k, S) \in S /\ \A r \in S : d(Probe(tb, k, S)) <= d(r)
    BY <1>6 DEF Probe, d
  <1>8. ASSUME NEW s \in S, NEW r \in S, d(s) = d(r) PROVE s = r
    <2>1. /\ d(s) = IF home(tb, k) <= s THEN s - home(tb, k) ELSE s - home(tb, k) + tb.cap
          /\ d(r) = IF home(tb, k) <= r THEN r - home(tb, k) ELSE r - home(tb, k) + tb.cap
      BY <1>1, DistIs DEF d
    <2>2. s \in 0 .. tb.cap - 1 /\ r \in 0 .. tb.cap - 1 /\ home(tb, k) \in 0 .. tb.cap - 1
      BY <1>1 DEF Slots
    <2> QED BY <2>1, <2>2, <1>8
  <1> QED BY <1>2, <1>7, <1>8 DEF d

\* What Find returns: the slot of the key's entry, or a vacant slot when the
\* key has none.
Finds(tb, k, s) ==
  /\ s \in Slots(tb)
  /\ tb.used[s] => s \in Used(tb) /\ Ident[tb.keys[s]] = Ident[k]
  /\ ~tb.used[s] => Ident[k] \notin Idents(tb)

\* probe ends at the slot of the key, or at the first empty one of its chain.
LEMMA FindOk ==
  ASSUME NEW tb, Sound(h, tb), h \in Hashers, NEW k \in Keys
  PROVE  Finds(tb, k, Find(tb, k))
  <1> DEFINE E == {s \in Used(tb) : Equal(k, tb.keys[s])}
             S == Vacant(tb) \cup E
             f == Find(tb, k)
  <1>1. /\ tb.cap \in Nat /\ tb.cap >= 2 /\ Used(tb) \in SUBSET Slots(tb)
        /\ S \in SUBSET Slots(tb) /\ Vacant(tb) # {}
    BY SlotsFinite DEF Sound, IsTable, Used, Vacant
  <1>2. /\ f \in S
        /\ \A r \in S : r # f => Dist(tb, home(tb, k), f) < Dist(tb, home(tb, k), r)
    <2>1. f = Probe(tb, k, S)
      BY DEF Find
    <2> HIDE DEF f, S
    <2>2. S # {}
      BY <1>1 DEF S
    <2> QED BY <1>1, <2>1, <2>2, ProbeNearest
  <1>3. ASSUME NEW u \in Used(tb), Ident[tb.keys[u]] = Ident[k]
        PROVE  f = u
    <2>1. u \in E
      BY <1>3 DEF Equal
    <2>2. home(tb, tb.keys[u]) = home(tb, k)
      BY <1>3 DEF home
    <2>3. \A r \in Vacant(tb) : Dist(tb, home(tb, k), u) < Dist(tb, home(tb, k), r)
      BY <2>2 DEF Sound, Reachable, HomeBy, home
    <2>4. \A r \in E : r = u
      BY <1>3 DEF Equal, Sound, Distinct
    <2>5. u \in Slots(tb) /\ f \in Slots(tb) /\ home(tb, k) \in Slots(tb)
      BY <1>1, <1>2, HomeSlot
    <2>6. /\ Dist(tb, home(tb, k), u) \in Nat
          /\ Dist(tb, home(tb, k), f) \in Nat
      BY <1>1, <2>5, DistIs
    <2> HIDE DEF f
    <2> QED BY <1>2, <2>1, <2>3, <2>4, <2>6
  <1>4. tb.used[f] <=> f \in Used(tb)
    BY <1>1, <1>2 DEF Used
  <1> HIDE DEF f
  <1>5. tb.used[f] => Ident[tb.keys[f]] = Ident[k]
    BY <1>2, <1>4 DEF Vacant, Equal
  <1>6. ~tb.used[f] => Ident[k] \notin Idents(tb)
    BY <1>3, <1>4 DEF Idents
  <1> QED BY <1>1, <1>2, <1>4, <1>5, <1>6 DEF Finds, f

(***************************************************************************)
(* Storing and moving entries.                                             *)
(***************************************************************************)

\* g is tb with the entry of k and v in its vacant slot s.
Placed(g, tb, k, v, s) ==
  /\ s \in Vacant(tb)
  /\ g.cap = tb.cap /\ g.count = tb.count
  /\ IsTable(g) /\ Reachable(h, g, Used(g)) /\ Distinct(g, Used(g))
  /\ Used(g) = Used(tb) \cup {s}
  /\ Cardinality(Used(g)) = Cardinality(Used(tb)) + 1
  /\ g.keys[s] = k /\ g.vals[s] = v
  /\ \A r \in Slots(tb) \ {s} : g.keys[r] = tb.keys[r] /\ g.vals[r] = tb.vals[r]

\* A new key goes to the first vacant slot after its home, where it is
\* reachable, and hides no other entry.
LEMMA PlaceOk ==
  ASSUME NEW tb, Sound(h, tb), h \in Hashers, NEW k \in Keys, NEW v \in Vals,
         Ident[k] \notin Idents(tb)
  PROVE  \E s : Placed(Place(tb, k, v), tb, k, v, s)
  <1> DEFINE s == Probe(tb, k, Vacant(tb))
             g == Place(tb, k, v)
  <1>1. /\ IsTable(tb) /\ tb.cap \in Nat /\ tb.cap >= 2
        /\ Reachable(h, tb, Used(tb)) /\ Distinct(tb, Used(tb))
        /\ Vacant(tb) # {} /\ Vacant(tb) \in SUBSET Slots(tb)
    BY SlotsFinite DEF Sound, IsTable, Vacant
  <1>2. /\ s \in Vacant(tb)
        /\ \A r \in Vacant(tb) : r # s =>
             Dist(tb, home(tb, k), s) < Dist(tb, home(tb, k), r)
    BY <1>1, ProbeNearest
  <1>3. g = [tb EXCEPT !.keys[s] = k, !.vals[s] = v, !.used[s] = TRUE]
    BY DEF Place
  <1> HIDE DEF s, g
  <1>4. /\ tb.keys \in [Slots(tb) -> Keys \cup {NoKey}]
        /\ tb.vals \in [Slots(tb) -> Vals \cup {NoVal}]
        /\ tb.used \in [Slots(tb) -> BOOLEAN]
        /\ tb = [keys |-> tb.keys, vals |-> tb.vals, used |-> tb.used,
                 count |-> tb.count, cap |-> tb.cap]
        /\ tb.count \in Nat
    BY <1>1 DEF IsTable
  <1>5. /\ g.keys = [tb.keys EXCEPT ![s] = k]
        /\ g.vals = [tb.vals EXCEPT ![s] = v]
        /\ g.used = [tb.used EXCEPT ![s] = TRUE]
        /\ g.count = tb.count /\ g.cap = tb.cap
        /\ g = [keys |-> g.keys, vals |-> g.vals, used |-> g.used,
                count |-> g.count, cap |-> g.cap]
    BY <1>3, <1>4
  <1>6. s \in Slots(tb) /\ s \notin Used(tb) /\ Slots(g) = Slots(tb)
    BY <1>1, <1>2, <1>5 DEF Vacant, Slots
  <1>7. /\ g.keys \in [Slots(tb) -> Keys \cup {NoKey}]
        /\ g.vals \in [Slots(tb) -> Vals \cup {NoVal}]
        /\ g.used \in [Slots(tb) -> BOOLEAN]
    <2>1. g.keys \in [Slots(tb) -> Keys \cup {NoKey}]
      BY <1>4, <1>5, k \in Keys \cup {NoKey}, Zenon
    <2>2. g.vals \in [Slots(tb) -> Vals \cup {NoVal}]
      BY <1>4, <1>5, v \in Vals \cup {NoVal}, Zenon
    <2>3. g.used \in [Slots(tb) -> BOOLEAN]
      BY <1>4, <1>5, TRUE \in BOOLEAN, Zenon
    <2> QED BY <2>1, <2>2, <2>3
  <1>8. /\ g.keys[s] = k /\ g.vals[s] = v
        /\ \A r \in Slots(tb) \ {s} : g.keys[r] = tb.keys[r] /\ g.vals[r] = tb.vals[r]
    BY <1>4, <1>5, <1>6
  <1>9. /\ Used(g) = Used(tb) \cup {s}
        /\ Vacant(g) = Vacant(tb) \ {s}
    <2>1. Used(g) = Used(tb) \cup {s}
      BY <1>4, <1>5, <1>6 DEF Used
    <2> QED BY <2>1, <1>6 DEF Vacant
  <1>10. IsTable(g)
    <2>1. \A r \in Used(g) : g.keys[r] \in Keys /\ g.vals[r] \in Vals
      BY <1>1, <1>6, <1>8, <1>9 DEF IsTable, Used
    <2>2. \A r \in Vacant(g) : g.keys[r] = NoKey /\ g.vals[r] = NoVal
      BY <1>1, <1>6, <1>8, <1>9 DEF IsTable, Vacant
    <2>3. g \in [keys  : [Slots(g) -> Keys \cup {NoKey}],
                 vals  : [Slots(g) -> Vals \cup {NoVal}],
                 used  : [Slots(g) -> BOOLEAN],
                 count : Nat, cap : Nat]
      BY <1>1, <1>4, <1>5, <1>6, <1>7
    <2> QED BY <2>1, <2>2, <2>3, <1>1, <1>4, <1>5 DEF IsTable
  <1>11. Reachable(h, g, Used(g))
    <2> SUFFICES ASSUME NEW r \in Used(g), NEW x \in Vacant(g)
                 PROVE  Dist(g, home(g, g.keys[r]), r) < Dist(g, home(g, g.keys[r]), x)
      BY DEF Reachable, HomeBy, home
    <2>1. \A key, a, b : home(g, key) = home(tb, key) /\ Dist(g, a, b) = Dist(tb, a, b)
      BY <1>5 DEF home, Dist
    <2>2. CASE r = s
      BY <2>1, <2>2, <1>2, <1>8, <1>9
    <2>3. CASE r # s
      <3>1. r \in Used(tb) /\ x \in Vacant(tb) /\ g.keys[r] = tb.keys[r]
        BY <2>3, <1>8, <1>9 DEF Used
      <3> QED BY <3>1, <2>1, <1>1 DEF Reachable, HomeBy, home
    <2> QED BY <2>2, <2>3
  <1>12. Distinct(g, Used(g))
    <2>1. \A r \in Used(tb) : g.keys[r] = tb.keys[r] /\ Ident[tb.keys[r]] # Ident[k]
      BY <1>6, <1>8 DEF Used, Idents
    <2> QED BY <2>1, <1>1, <1>8, <1>9 DEF Distinct
  <1>13. Cardinality(Used(g)) = Cardinality(Used(tb)) + 1
    BY <1>1, <1>6, <1>9, SlotsFinite, FS_AddElement
  <1>14. Placed(g, tb, k, v, s)
    BY <1>2, <1>5, <1>8, <1>9, <1>10, <1>11, <1>12, <1>13 DEF Placed
  <1> QED BY <1>14 DEF g

\* The count is no part of the slots.
Recounted(g, f, n) ==
  /\ g.cap = f.cap /\ g.count = n /\ g.keys = f.keys /\ g.vals = f.vals
  /\ g.used = f.used /\ Used(g) = Used(f)
  /\ IsTable(g)
  /\ \A S : /\ Distinct(f, S) => Distinct(g, S)
            /\ Reachable(h, f, S) => Reachable(h, g, S)

\* Setting the count of a table changes nothing else.
LEMMA RecountOk ==
  ASSUME NEW f, IsTable(f), NEW n \in Nat, NEW g, g = [f EXCEPT !.count = n]
  PROVE  Recounted(g, f, n)
  <1>1. f = [keys |-> f.keys, vals |-> f.vals, used |-> f.used,
             count |-> f.count, cap |-> f.cap]
    BY DEF IsTable
  <1>2. /\ g.cap = f.cap /\ g.count = n /\ g.keys = f.keys /\ g.vals = f.vals
        /\ g.used = f.used
        /\ g = [keys |-> g.keys, vals |-> g.vals, used |-> g.used,
                count |-> g.count, cap |-> g.cap]
    BY <1>1
  <1>3. Slots(g) = Slots(f) /\ Used(g) = Used(f) /\ Vacant(g) = Vacant(f)
    BY <1>2 DEF Slots, Used, Vacant
  <1>4. IsTable(g)
    BY <1>2, <1>3 DEF IsTable
  <1>5. \A key, a, b : home(g, key) = home(f, key) /\ Dist(g, a, b) = Dist(f, a, b)
    BY <1>2 DEF home, Dist
  <1>6. \A S : /\ Distinct(f, S) => Distinct(g, S)
               /\ Reachable(h, f, S) => Reachable(h, g, S)
    BY <1>2, <1>3, <1>5 DEF Distinct, Reachable, HomeBy, home
  <1> QED BY <1>2, <1>3, <1>4, <1>6 DEF Recounted

\* An empty table.
Empty(g, cap, n) ==
  /\ g.keys = [s \in 0 .. cap - 1 |-> NoKey]
  /\ g.vals = [s \in 0 .. cap - 1 |-> NoVal]
  /\ g.used = [s \in 0 .. cap - 1 |-> FALSE]
  /\ g.count = n /\ g.cap = cap
  /\ g = [keys |-> g.keys, vals |-> g.vals, used |-> g.used,
          count |-> g.count, cap |-> g.cap]

\* A table with no used slot is sound.
LEMMA EmptyOk ==
  ASSUME NEW cap \in Nat, cap >= 2, NEW n \in Nat, NEW g, Empty(g, cap, n)
  PROVE  /\ Sound(h, g) /\ g.cap = cap /\ g.count = n /\ Used(g) = {}
         /\ Cardinality(Used(g)) = 0
  <1>1. /\ g.keys = [s \in 0 .. cap - 1 |-> NoKey]
        /\ g.vals = [s \in 0 .. cap - 1 |-> NoVal]
        /\ g.used = [s \in 0 .. cap - 1 |-> FALSE]
        /\ g.count = n /\ g.cap = cap
        /\ g = [keys |-> g.keys, vals |-> g.vals, used |-> g.used,
                count |-> g.count, cap |-> g.cap]
    BY DEF Empty
  <1>2. Slots(g) = 0 .. cap - 1
    BY <1>1 DEF Slots
  <1>3. Used(g) = {}
    BY <1>1, <1>2 DEF Used
  <1>4. Cardinality(Used(g)) = 0
    BY <1>3, FS_EmptySet
  <1>5. IsTable(g)
    BY <1>1, <1>2, <1>3 DEF IsTable, Vacant
  <1> QED BY <1>1, <1>3, <1>4, <1>5 DEF Sound, Reachable, HomeBy, home, Distinct

\* g is tb with the entry in slot s replaced.
Rewritten(g, tb, k, v, s) ==
  /\ IsTable(g) /\ g.cap = tb.cap /\ g.count = tb.count
  /\ Used(g) = Used(tb) /\ Vacant(g) = Vacant(tb) /\ Slots(g) = Slots(tb)
  /\ g.keys[s] = k /\ g.vals[s] = v
  /\ \A r \in Slots(tb) \ {s} : g.keys[r] = tb.keys[r] /\ g.vals[r] = tb.vals[r]

\* Writing another key and value in a used slot changes nothing else.
LEMMA RewriteOk ==
  ASSUME NEW tb, IsTable(tb), NEW s \in Used(tb), NEW k \in Keys, NEW v \in Vals,
         NEW g, g = [tb EXCEPT !.keys[s] = k, !.vals[s] = v]
  PROVE  Rewritten(g, tb, k, v, s)
  <1>1. /\ tb.keys \in [Slots(tb) -> Keys \cup {NoKey}]
        /\ tb.vals \in [Slots(tb) -> Vals \cup {NoVal}]
        /\ tb.used \in [Slots(tb) -> BOOLEAN] /\ tb.count \in Nat
        /\ tb.cap \in Nat /\ tb.cap >= 2
        /\ tb = [keys |-> tb.keys, vals |-> tb.vals, used |-> tb.used,
                 count |-> tb.count, cap |-> tb.cap]
    BY DEF IsTable
  <1>2. /\ g.keys = [tb.keys EXCEPT ![s] = k]
        /\ g.vals = [tb.vals EXCEPT ![s] = v]
        /\ g.used = tb.used /\ g.count = tb.count /\ g.cap = tb.cap
        /\ g = [keys |-> g.keys, vals |-> g.vals, used |-> g.used,
                count |-> g.count, cap |-> g.cap]
    BY <1>1
  <1>3. Slots(g) = Slots(tb) /\ Used(g) = Used(tb) /\ Vacant(g) = Vacant(tb)
    BY <1>2 DEF Slots, Used, Vacant
  <1>4. s \in Slots(tb)
    BY DEF Used
  <1>5. /\ g.keys \in [Slots(tb) -> Keys \cup {NoKey}]
        /\ g.vals \in [Slots(tb) -> Vals \cup {NoVal}]
    <2>1. g.keys \in [Slots(tb) -> Keys \cup {NoKey}]
      BY <1>1, <1>2, k \in Keys \cup {NoKey}, Zenon
    <2>2. g.vals \in [Slots(tb) -> Vals \cup {NoVal}]
      BY <1>1, <1>2, v \in Vals \cup {NoVal}, Zenon
    <2> QED BY <2>1, <2>2
  <1>6. /\ g.keys[s] = k /\ g.vals[s] = v
        /\ \A r \in Slots(tb) \ {s} : g.keys[r] = tb.keys[r] /\ g.vals[r] = tb.vals[r]
    BY <1>1, <1>2, <1>4
  <1>7. IsTable(g)
    <2>1. \A r \in Used(g) : g.keys[r] \in Keys /\ g.vals[r] \in Vals
      BY <1>3, <1>4, <1>6 DEF IsTable, Used
    <2>2. \A r \in Vacant(g) : g.keys[r] = NoKey /\ g.vals[r] = NoVal
      BY <1>3, <1>6 DEF IsTable, Vacant
    <2> QED BY <2>1, <2>2, <1>1, <1>2, <1>3, <1>5 DEF IsTable
  <1> QED BY <1>2, <1>3, <1>6, <1>7 DEF Rewritten

\* A Put over an entry keeps the table sound: an equal key has the same home.
LEMMA OverwriteOk ==
  ASSUME NEW tb, Sound(h, tb), NEW s \in Used(tb), NEW k \in Keys, NEW v \in Vals,
         Ident[tb.keys[s]] = Ident[k], NEW g, Rewritten(g, tb, k, v, s)
  PROVE  Sound(h, g)
  <1>1. /\ IsTable(g) /\ g.cap = tb.cap
        /\ Used(g) = Used(tb) /\ Vacant(g) = Vacant(tb) /\ g.keys[s] = k
        /\ \A r \in Used(tb) : Ident[g.keys[r]] = Ident[tb.keys[r]]
    BY DEF Rewritten, Used
  <1>2. Distinct(g, Used(g))
    BY <1>1 DEF Sound, Distinct
  <1>3. Reachable(h, g, Used(g))
    <2>1. \A r \in Used(tb) : HomeBy(h, g, g.keys[r]) = HomeBy(h, tb, tb.keys[r])
      BY <1>1 DEF HomeBy
    <2>2. \A a, b : Dist(g, a, b) = Dist(tb, a, b)
      BY <1>1 DEF Dist
    <2> QED BY <2>1, <2>2, <1>1 DEF Sound, Reachable
  <1> QED BY <1>1, <1>2, <1>3 DEF Sound

\* g is tb with a new entry, counted.
Added(g, tb, k, v, s) ==
  /\ Sound(h, g) /\ g.count = Cardinality(Used(g)) /\ g.cap = tb.cap
  /\ s \in Vacant(tb) /\ Used(g) = Used(tb) \cup {s}
  /\ g.keys[s] = k /\ g.vals[s] = v
  /\ \A r \in Used(tb) : g.keys[r] = tb.keys[r] /\ g.vals[r] = tb.vals[r]

\* An absent key goes to the end of its chain and the chains stay whole.
LEMMA AddOk ==
  ASSUME NEW tb, Sound(h, tb), h \in Hashers, NEW k \in Keys, NEW v \in Vals,
         Ident[k] \notin Idents(tb), 4 * (Cardinality(Used(tb)) + 1) <= 3 * tb.cap,
         tb.count = Cardinality(Used(tb)),
         NEW g, g = [Place(tb, k, v) EXCEPT !.count = @ + 1]
  PROVE  \E s : Added(g, tb, k, v, s)
  <1> DEFINE f == Place(tb, k, v)
  <1>1. PICK s : Placed(f, tb, k, v, s)
    BY PlaceOk
  <1>2. g = [f EXCEPT !.count = f.count + 1]
    OBVIOUS
  <1> HIDE DEF f
  <1>3. IsTable(f) /\ f.count = tb.count /\ tb.count \in Nat /\ f.count + 1 \in Nat
    BY <1>1 DEF Placed, Sound, IsTable
  <1>4. Recounted(g, f, f.count + 1)
    BY <1>2, <1>3, RecountOk
  <1>5. s \in Vacant(tb) /\ \A r \in Used(tb) : r \in Slots(tb) \ {s}
    BY <1>1 DEF Placed, Vacant, Used
  <1>6. Sound(h, g) /\ g.count = Cardinality(Used(g))
    BY <1>1, <1>3, <1>4 DEF Sound, Placed, Recounted
  <1> QED BY <1>1, <1>4, <1>5, <1>6 DEF Added, Placed, Recounted

(***************************************************************************)
(* The invariant holds initially and every action keeps it.                *)
(***************************************************************************)
LEMMA InitIInv == Init => IInv
  <1> SUFFICES ASSUME Init PROVE IInv
    OBVIOUS
  <1>1. /\ h \in Hashers /\ t = NewTable(InitialCap) /\ pc = "idle" /\ old = NoTable
        /\ i = 0 /\ j = 0 /\ adding = NoAdding /\ ret = <<NoVal, FALSE>>
        /\ cursor = NoCursor
    BY DEF Init, Nothing
  <1>2. InitialCap \in Nat /\ InitialCap >= 2 /\ 0 \in Nat
    BY TableAssumption
  <1>3. Empty(t, InitialCap, 0)
    BY <1>1 DEF NewTable, Empty
  <1>4. Sound(h, t) /\ t.count = 0 /\ Cardinality(Used(t)) = 0
    BY <1>2, <1>3, EmptyOk
  <1> QED BY <1>1, <1>4 DEF IInv, Idle

\* A cursor survives what keeps its slots and adds none of the keys it knows.
LEMMA FollowingKept ==
  ASSUME Following, cursor' = cursor, t'.cap = t.cap,
         \A s \in Used(t) : s \in Used(t') /\ Ident[t'.keys[s]] = Ident[t.keys[s]],
         \A s \in Used(t') \ Used(t) : Ident[t'.keys[s]] \notin Idents(t)
  PROVE  Following'
  <1>1. Idents(t) \subseteq Idents(t')
    BY DEF Idents
  <1>2. cursor' \in [at : Nat, seen : SUBSET Idents(t'), due : SUBSET Idents(t')]
    BY <1>1 DEF Following
  <1>3. cursor'.at <= t'.cap
    BY DEF Following
  <1>4. \A s \in Used(t') : s >= cursor'.at => Ident[t'.keys[s]] \notin cursor'.seen
    <2>1. cursor.seen \subseteq Idents(t)
      BY DEF Following
    <2> QED BY <2>1 DEF Following
  <1>5. \A c \in cursor'.due : \E s \in Used(t') : s >= cursor'.at /\ Ident[t'.keys[s]] = c
    BY DEF Following
  <1> QED BY <1>2, <1>3, <1>4, <1>5 DEF Following

\* Putting an absent key adds its entry, or opens the growth that will.
LEMMA InsertAbsentCases ==
  ASSUME IInv, pc = "idle", h' = h, NEW k \in Keys, NEW v \in Vals, NEW r,
         Ident[k] \notin Idents(t), insertAbsent(k, v, r)
  PROVE  \/ /\ \E s : Added(t', t, k, v, s)
            /\ ret' = r /\ pc' = pc /\ old' = old /\ i' = i /\ j' = j
            /\ adding' = adding /\ cursor' = cursor
         \/ /\ pc' = "rehash" /\ old' = t /\ i' = 0 /\ j' = j
            /\ t' = [NewTable(2 * t.cap) EXCEPT !.count = t.count]
            /\ adding' = [key |-> k, val |-> v, ret |-> r]
            /\ cursor' = NoCursor /\ ret' = ret
  <1>1. CASE Overloaded(t)
    BY <1>1 DEF insertAbsent
  <1>2. CASE ~Overloaded(t)
    <2>1. /\ t' = [Place(t, k, v) EXCEPT !.count = @ + 1]
          /\ ret' = r /\ UNCHANGED <<pc, old, i, j, adding, cursor>>
      BY <1>2 DEF insertAbsent, locals
    <2>2. Sound(h, t) /\ t.count = Cardinality(Used(t)) /\ h \in Hashers
      BY DEF IInv, Idle
    <2>3. Cardinality(Used(t)) \in Nat /\ t.cap \in Nat
      BY <2>2, SlotsFinite DEF Sound, IsTable
    <2>4. 4 * (Cardinality(Used(t)) + 1) <= 3 * t.cap
      BY <1>2, <2>2, <2>3 DEF Overloaded
    <2>5. \E s : Added(t', t, k, v, s)
      BY <2>1, <2>2, <2>4, AddOk
    <2> QED BY <2>1, <2>5
  <1> QED BY <1>1, <1>2

\* insertAbsent adds the pair, or starts to grow the table first.
LEMMA InsertAbsentStep ==
  ASSUME IInv, pc = "idle", h' = h, NEW k \in Keys, NEW v \in Vals, NEW r,
         <<k, v>> \in Stored, r \in {Nothing, <<v, FALSE>>},
         Ident[k] \notin Idents(t), insertAbsent(k, v, r)
  PROVE  IInv'
  <1>1. /\ Idle /\ Sound(h, t) /\ h \in Hashers /\ t.count = Cardinality(Used(t))
        /\ cursor = NoCursor \/ Following
        /\ r \in (Vals \cup {NoVal}) \X BOOLEAN
    <2>1. Idle /\ h \in Hashers /\ (cursor = NoCursor \/ Following)
      BY DEF IInv
    <2>2. r \in (Vals \cup {NoVal}) \X BOOLEAN
      <3>1. /\ <<NoVal, FALSE>> \in (Vals \cup {NoVal}) \X BOOLEAN
            /\ <<v, FALSE>> \in (Vals \cup {NoVal}) \X BOOLEAN
        OBVIOUS
      <3> QED BY <3>1 DEF Nothing
    <2> QED BY <2>1, <2>2 DEF Idle
  <1>2. ASSUME NEW s, Added(t', t, k, v, s), ret' = r,
               UNCHANGED <<pc, old, i, j, adding, cursor>>
        PROVE  IInv'
    <2>1. Idle'
      BY <1>1, <1>2 DEF Idle, Added
    <2>2. Following => Following'
      <3>1. \A x \in Used(t) : x \in Used(t') /\ Ident[t'.keys[x]] = Ident[t.keys[x]]
        BY <1>2 DEF Added
      <3>2. \A x \in Used(t') \ Used(t) : Ident[t'.keys[x]] \notin Idents(t)
        BY <1>2 DEF Added
      <3> QED BY <3>1, <3>2, <1>2, FollowingKept DEF Added
    <2> QED BY <2>1, <2>2, <1>1, <1>2 DEF IInv
  <1>3. ASSUME pc' = "rehash", old' = t, i' = 0, j' = j,
               t' = [NewTable(2 * t.cap) EXCEPT !.count = t.count],
               adding' = [key |-> k, val |-> v, ret |-> r],
               cursor' = NoCursor, ret' = ret
        PROVE  IInv'
    <2>1. 2 * t.cap \in Nat /\ 2 * t.cap >= 2 /\ t.count \in Nat /\ t.cap \in Nat
      BY <1>1 DEF Sound, IsTable
    <2>2. /\ Sound(h, t') /\ t'.cap = 2 * t.cap /\ t'.count = t.count /\ Used(t') = {}
          /\ Cardinality(Used(t')) = 0
      <3> DEFINE cap2 == 2 * t.cap
      <3>1. Empty(t', cap2, t.count)
        BY <1>3 DEF NewTable, Empty
      <3>2. cap2 \in Nat /\ cap2 >= 2
        BY <2>1
      <3> HIDE DEF cap2
      <3>3. /\ Sound(h, t') /\ t'.cap = cap2 /\ t'.count = t.count /\ Used(t') = {}
            /\ Cardinality(Used(t')) = 0
        BY <3>1, <3>2, <2>1, EmptyOk
      <3> QED BY <3>3 DEF cap2
    <2>3. Used(t) \cap (0 .. 0 - 1) = {}
      OBVIOUS
    <2>4. Cardinality(Used(t) \cap (0 .. 0 - 1)) = 0
      BY <2>3, FS_EmptySet
    <2>5. j = 0
      BY <1>1 DEF Idle
    <2>6. Sound(h', old') /\ Sound(h', t') /\ old'.count = Cardinality(Used(old'))
      BY <1>1, <1>3, <2>2
    <2>7. /\ t'.cap = 2 * old'.cap /\ t'.count = old'.count
          /\ i' \in 0 .. old'.cap /\ j' = 0
      BY <1>3, <2>1, <2>2, <2>5
    <2>8. /\ Used(old') \cap (0 .. i' - 1) = {} /\ Used(t') = {}
          /\ Cardinality(Used(t')) = Cardinality(Used(old') \cap (0 .. i' - 1))
      BY <1>3, <2>2, <2>3, <2>4
    <2>9. /\ adding'.key = k /\ adding'.val = v /\ adding'.ret = r
      BY <1>3
    <2>10. Ident[k] \notin Idents(old')
      BY <1>3
    <2>11. Growing'
      BY <2>6, <2>7, <2>8, <2>9, <2>10 DEF Growing
    <2> QED BY <2>11, <1>1, <1>3 DEF IInv
  <1> QED BY <1>2, <1>3, InsertAbsentCases

\* What IInv says of a state between calls.
LEMMA BetweenCalls ==
  ASSUME IInv, pc = "idle"
  PROVE  /\ Idle /\ Sound(h, t) /\ IsTable(t) /\ h \in Hashers
         /\ t.count = Cardinality(Used(t))
         /\ cursor = NoCursor \/ Following
         /\ ret \in (Vals \cup {NoVal}) \X BOOLEAN
  BY DEF IInv, Idle, Sound

\* Only entries that callers put are stored.
LEMMA StoredPair ==
  ASSUME NEW k, NEW v, <<k, v>> \in Stored
  PROVE  k \in Keys /\ v \in Vals
  <1>1. <<k, v>> \in Keys \X Vals
    BY TableAssumption
  <1> QED BY <1>1

\* Put over an entry, or of an absent key.
LEMMA PutCases ==
  ASSUME IInv, NEW k, NEW v, <<k, v>> \in Stored, Put(k, v)
  PROVE  \/ \E s \in Used(t) :
              /\ Ident[t.keys[s]] = Ident[k] /\ Rewritten(t', t, k, v, s)
              /\ Sound(h, t') /\ ret' = Nothing
              /\ h' = h /\ UNCHANGED <<pc, old, i, j, adding, cursor>>
         \/ Ident[k] \notin Idents(t) /\ insertAbsent(k, v, Nothing) /\ h' = h
  <1> DEFINE s == Find(t, k)
  <1>1. k \in Keys /\ v \in Vals
    BY StoredPair
  <1>2. pc = "idle" /\ h' = h
    BY DEF Put
  <1>3. Sound(h, t) /\ IsTable(t) /\ Finds(t, k, s)
    BY <1>1, <1>2, BetweenCalls, FindOk
  <1>4. CASE t.used[s]
    <2>1. /\ t' = [t EXCEPT !.keys[s] = k, !.vals[s] = v]
          /\ ret' = Nothing /\ UNCHANGED <<pc, old, i, j, adding, cursor>>
      BY <1>4 DEF Put, locals
    <2> HIDE DEF s
    <2>2. s \in Used(t) /\ Ident[t.keys[s]] = Ident[k]
      BY <1>3, <1>4 DEF Finds
    <2>3. Rewritten(t', t, k, v, s)
      BY <1>1, <1>3, <2>1, <2>2, RewriteOk
    <2>4. Sound(h, t')
      BY <1>1, <1>3, <2>2, <2>3, OverwriteOk
    <2> QED BY <1>2, <2>1, <2>2, <2>3, <2>4
  <1>5. CASE ~t.used[s]
    <2>1. insertAbsent(k, v, Nothing)
      BY <1>5 DEF Put
    <2> QED BY <2>1, <1>2, <1>3, <1>5 DEF Finds
  <1> QED BY <1>4, <1>5

\* Put overwrites the value of its key, or inserts it.
LEMMA PutStep ==
  ASSUME IInv, NEW k, NEW v, <<k, v>> \in Stored, Put(k, v)
  PROVE  IInv'
  <1>1. pc = "idle" /\ k \in Keys /\ v \in Vals
    BY StoredPair DEF Put
  <1>2. ASSUME NEW s \in Used(t), Ident[t.keys[s]] = Ident[k], Rewritten(t', t, k, v, s),
               Sound(h, t'), ret' = Nothing, h' = h,
               UNCHANGED <<pc, old, i, j, adding, cursor>>
        PROVE  IInv'
    <2>1. /\ t'.count = t.count /\ Used(t') = Used(t) /\ t'.cap = t.cap
          /\ \A r \in Used(t) : Ident[t'.keys[r]] = Ident[t.keys[r]]
      BY <1>2 DEF Rewritten, Used
    <2>2. Idle'
      BY <2>1, <1>1, <1>2, BetweenCalls DEF Idle
    <2>3. Following => Following'
      BY <2>1, <1>2, FollowingKept
    <2>4. Nothing \in (Vals \cup {NoVal}) \X BOOLEAN
      BY DEF Nothing
    <2> QED BY <2>2, <2>3, <2>4, <1>1, <1>2, BetweenCalls DEF IInv
  <1>3. ASSUME Ident[k] \notin Idents(t), insertAbsent(k, v, Nothing), h' = h
        PROVE  IInv'
    BY <1>1, <1>3, InsertAbsentStep
  <1> QED BY <1>2, <1>3, PutCases

\* GetOrPut returns the entry it finds, and else puts.
LEMMA GetOrPutCases ==
  ASSUME IInv, NEW k, NEW v, <<k, v>> \in Stored, GetOrPut(k, v)
  PROVE  \/ \E s \in Used(t) :
              /\ Ident[t.keys[s]] = Ident[k] /\ ret' = <<t.vals[s], TRUE>>
              /\ UNCHANGED <<h, t, pc, old, i, j, adding, cursor>>
         \/ Ident[k] \notin Idents(t) /\ insertAbsent(k, v, <<v, FALSE>>) /\ h' = h
  <1> DEFINE s == Find(t, k)
  <1>1. k \in Keys /\ v \in Vals
    BY StoredPair
  <1>2. pc = "idle" /\ h' = h
    BY DEF GetOrPut
  <1>3. Finds(t, k, s)
    BY <1>1, <1>2, BetweenCalls, FindOk
  <1>4. CASE t.used[s]
    <2>1. /\ ret' = <<t.vals[s], TRUE>>
          /\ UNCHANGED <<t, pc, old, i, j, adding, cursor>>
      BY <1>4 DEF GetOrPut, locals
    <2> QED BY <2>1, <1>2, <1>3, <1>4 DEF Finds
  <1>5. CASE ~t.used[s]
    <2>1. insertAbsent(k, v, <<v, FALSE>>)
      BY <1>5 DEF GetOrPut
    <2> QED BY <2>1, <1>2, <1>3, <1>5 DEF Finds
  <1> QED BY <1>4, <1>5

\* A call that changes nothing but what it returns.
LEMMA ReadKeepsIInv ==
  ASSUME IInv, UNCHANGED <<h, t, pc, old, i, j, adding, cursor>>,
         ret' \in (Vals \cup {NoVal}) \X BOOLEAN
  PROVE  IInv'
  <1>1. Idle => Idle'
    BY DEF Idle
  <1>2. Growing => Growing'
    BY DEF Growing
  <1>3. Shifting => Shifting'
    BY DEF Shifting
  <1>4. Following => Following'
    BY DEF Following
  <1> QED BY <1>1, <1>2, <1>3, <1>4 DEF IInv

\* GetOrPut returns the value of its key, or inserts it.
LEMMA GetOrPutStep ==
  ASSUME IInv, NEW k, NEW v, <<k, v>> \in Stored, GetOrPut(k, v)
  PROVE  IInv'
  <1>1. pc = "idle" /\ k \in Keys /\ v \in Vals
    BY StoredPair DEF GetOrPut
  <1>2. ASSUME NEW s \in Used(t), ret' = <<t.vals[s], TRUE>>,
               UNCHANGED <<h, t, pc, old, i, j, adding, cursor>>
        PROVE  IInv'
    <2>1. t.vals[s] \in Vals
      BY <1>1, BetweenCalls DEF IsTable
    <2>2. ret' \in (Vals \cup {NoVal}) \X BOOLEAN
      BY <2>1, <1>2
    <2> QED BY <2>2, <1>2, ReadKeepsIInv
  <1>3. ASSUME Ident[k] \notin Idents(t), insertAbsent(k, v, <<v, FALSE>>), h' = h
        PROVE  IInv'
    <2> DEFINE r == <<v, FALSE>>
    <2>1. r \in {Nothing, <<v, FALSE>>} /\ insertAbsent(k, v, r)
      BY <1>3
    <2> HIDE DEF r
    <2> QED BY <2>1, <1>1, <1>3, InsertAbsentStep
  <1> QED BY <1>2, <1>3, GetOrPutCases

\* Get returns what the slot of the key holds, or nothing.
LEMMA GetCases ==
  ASSUME IInv, NEW k \in Keys, Get(k)
  PROVE  /\ UNCHANGED <<h, t, pc, old, i, j, adding, cursor>>
         /\ \/ \E s \in Used(t) : /\ Ident[t.keys[s]] = Ident[k]
                                  /\ ret' = <<t.vals[s], TRUE>>
            \/ Ident[k] \notin Idents(t) /\ ret' = Nothing
  <1> DEFINE s == Find(t, k)
  <1>1. pc = "idle" /\ UNCHANGED <<h, t, pc, old, i, j, adding, cursor>>
    BY DEF Get, locals
  <1>2. Finds(t, k, s)
    BY <1>1, BetweenCalls, FindOk
  <1>3. ret' = IF t.used[s] THEN <<t.vals[s], TRUE>> ELSE Nothing
    BY DEF Get
  <1> HIDE DEF s
  <1> QED BY <1>1, <1>2, <1>3 DEF Finds

\* Get leaves the table alone.
LEMMA GetStep ==
  ASSUME IInv, NEW k \in Keys, Get(k)
  PROVE  IInv'
  <1>1. pc = "idle"
    BY DEF Get
  <1>2. \A s \in Used(t) : t.vals[s] \in Vals
    BY <1>1, BetweenCalls DEF IsTable
  <1>3. ret' \in (Vals \cup {NoVal}) \X BOOLEAN
    <2>1. CASE ret' = Nothing
      <3>1. <<NoVal, FALSE>> \in (Vals \cup {NoVal}) \X BOOLEAN
        OBVIOUS
      <3> QED BY <2>1, <3>1 DEF Nothing
    <2>2. CASE \E s \in Used(t) : ret' = <<t.vals[s], TRUE>>
      <3>1. PICK s \in Used(t) : ret' = <<t.vals[s], TRUE>>
        BY <2>2
      <3>2. t.vals[s] \in Vals
        BY <1>2
      <3> QED BY <3>1, <3>2
    <2> QED BY <2>1, <2>2, GetCases
  <1> QED BY <1>3, GetCases, ReadKeepsIInv

\* A new cursor owes every entry.
LEMMA IterStep ==
  ASSUME IInv, Iter
  PROVE  IInv'
  <1>1. /\ pc = "idle" /\ UNCHANGED <<h, t, pc, old, i, j, adding, ret>>
        /\ cursor' = [at |-> 0, seen |-> {}, due |-> Idents(t)]
    BY DEF Iter, locals
  <1>2. Idle'
    BY <1>1, BetweenCalls DEF Idle
  <1>3. \A s \in Used(t) : s >= 0
    <2>1. t.cap \in Nat
      BY <1>1, BetweenCalls DEF IsTable
    <2> QED BY <2>1 DEF Used, Slots
  <1>4. \A c \in Idents(t) : \E s \in Used(t) : Ident[t.keys[s]] = c
    BY DEF Idents
  <1>5. 0 <= t.cap
    BY <1>1, BetweenCalls DEF IsTable
  <1>6. Following'
    BY <1>1, <1>3, <1>4, <1>5 DEF Following
  <1> QED BY <1>1, <1>2, <1>6, BetweenCalls DEF IInv

\* What a call of CursorNext yields: the entry of the first used slot at or
\* after the cursor, or nothing when there is none.
LEMMA CursorNextCases ==
  ASSUME IInv, CursorNext
  PROVE  /\ pc = "idle" /\ UNCHANGED <<h, t, pc, old, i, j, adding, ret>>
         /\ Following
         /\ \/ /\ \A s \in Used(t) : ~(s >= cursor.at)
               /\ cursor' = [cursor EXCEPT !.at = t.cap]
            \/ \E s \in Used(t) :
                 /\ s >= cursor.at /\ \A r \in Used(t) : r >= cursor.at => s <= r
                 /\ cursor' = [at |-> s + 1, seen |-> cursor.seen \cup {Ident[t.keys[s]]},
                               due |-> cursor.due \ {Ident[t.keys[s]]}]
  <1> DEFINE ahead == {s \in Used(t) : s >= cursor.at}
             slot == CHOOSE s \in ahead : \A r \in ahead : s <= r
             e == Ident[t.keys[slot]]
  <1>1. pc = "idle" /\ cursor.at >= 0 /\ UNCHANGED <<h, t, pc, old, i, j, adding, ret>>
    BY DEF CursorNext, locals
  <1>2. /\ Following
        /\ t.cap \in Nat
    <2>1. cursor # NoCursor
      BY <1>1 DEF NoCursor
    <2> QED BY <2>1, <1>1, BetweenCalls DEF IsTable
  <1>3. cursor' = IF ahead = {} THEN [cursor EXCEPT !.at = t.cap]
                  ELSE [at |-> slot + 1, seen |-> cursor.seen \cup {e},
                        due |-> cursor.due \ {e}]
    BY DEF CursorNext
  <1>4. CASE ahead = {}
    BY <1>1, <1>2, <1>3, <1>4
  <1>5. CASE ahead # {}
    <2>1. ahead \in SUBSET Nat
      BY <1>2 DEF Used, Slots
    <2>2. PICK x : x \in ahead
      BY <1>5
    <2>3. \E m \in ahead : \A n \in ahead : m <= n
      <3> HIDE DEF ahead
      <3> QED BY <2>1, <2>2, LeastNatural
    <2>4. slot \in ahead /\ \A r \in ahead : slot <= r
      BY <2>3
    <2> HIDE DEF slot
    <2>5. /\ slot \in Used(t) /\ slot >= cursor.at
          /\ \A r \in Used(t) : r >= cursor.at => slot <= r
      BY <2>4
    <2> HIDE DEF ahead
    <2> QED BY <2>5, <1>1, <1>2, <1>3, <1>5
  <1> QED BY <1>4, <1>5

\* A cursor moves past one more used slot, or to the end.
LEMMA CursorNextStep ==
  ASSUME IInv, CursorNext
  PROVE  IInv'
  <1>1. /\ pc = "idle" /\ UNCHANGED <<h, t, pc, old, i, j, adding, ret>> /\ Following
    BY CursorNextCases
  <1>2. Idle'
    BY <1>1, BetweenCalls DEF Idle
  <1>3. IsTable(t) /\ t.cap \in Nat /\ Distinct(t, Used(t))
        /\ \A s \in Used(t) : s \in Nat /\ s < t.cap
    <2>1. IsTable(t) /\ Distinct(t, Used(t)) /\ t.cap \in Nat
      BY <1>1, BetweenCalls DEF Sound, IsTable
    <2> QED BY <2>1 DEF Used, Slots
  <1>4. ASSUME \A s \in Used(t) : ~(s >= cursor.at),
               cursor' = [cursor EXCEPT !.at = t.cap]
        PROVE  Following'
    <2>1. /\ cursor' \in [at : Nat, seen : SUBSET Idents(t), due : SUBSET Idents(t)]
          /\ cursor'.at = t.cap /\ cursor'.seen = cursor.seen /\ cursor'.due = cursor.due
      BY <1>1, <1>3, <1>4 DEF Following
    <2>2. \A s \in Used(t) : ~(s >= t.cap)
      BY <1>3
    <2>3. cursor.due = {}
      BY <1>1, <1>4 DEF Following
    <2> QED BY <2>1, <2>2, <2>3, <1>1, <1>3 DEF Following
  <1>5. ASSUME NEW s \in Used(t), s >= cursor.at,
               \A r \in Used(t) : r >= cursor.at => s <= r,
               cursor' = [at |-> s + 1, seen |-> cursor.seen \cup {Ident[t.keys[s]]},
                          due |-> cursor.due \ {Ident[t.keys[s]]}]
        PROVE  Following'
    <2> DEFINE e == Ident[t.keys[s]]
    <2>1. e \in Idents(t)
      BY DEF Idents
    <2>2. /\ cursor'.at = s + 1 /\ cursor'.seen = cursor.seen \cup {e}
          /\ cursor'.due = cursor.due \ {e} /\ cursor.at \in Nat
          /\ cursor.seen \in SUBSET Idents(t) /\ cursor.due \in SUBSET Idents(t)
      BY <1>1, <1>5 DEF Following
    <2>3. cursor' \in [at : Nat, seen : SUBSET Idents(t), due : SUBSET Idents(t)]
      BY <2>1, <2>2, <1>3, <1>5
    <2>4. cursor'.at <= t.cap
      BY <2>2, <1>3
    <2>5. ASSUME NEW r \in Used(t), r >= s + 1
          PROVE  Ident[t.keys[r]] \notin cursor.seen \cup {e}
      <3>1. r # s /\ r >= cursor.at
        BY <2>5, <1>3, <1>5, <2>2
      <3>2. Ident[t.keys[r]] # e
        BY <3>1, <1>3 DEF Distinct
      <3> QED BY <3>1, <3>2, <1>1 DEF Following
    <2>6. ASSUME NEW c \in cursor.due, c # e
          PROVE  \E r \in Used(t) : r >= s + 1 /\ Ident[t.keys[r]] = c
      <3>1. PICK r \in Used(t) : r >= cursor.at /\ Ident[t.keys[r]] = c
        BY <1>1 DEF Following
      <3>2. r # s /\ s <= r
        BY <2>6, <3>1, <1>5
      <3> QED BY <3>1, <3>2, <1>3
    <2> HIDE DEF e
    <2> QED BY <2>2, <2>3, <2>4, <2>5, <2>6, <1>1 DEF Following
  <1>6. Following'
    BY <1>4, <1>5, CursorNextCases
  <1> QED BY <1>1, <1>2, <1>6, BetweenCalls DEF IInv

\* Remove of an entry opens the shift at its slot.
LEMMA RemoveCases ==
  ASSUME IInv, NEW k \in Keys, Remove(k)
  PROVE  /\ pc = "idle" /\ UNCHANGED <<h, t, old, adding>>
         /\ \/ \E s \in Used(t) :
                 /\ Ident[t.keys[s]] = Ident[k] /\ ret' = <<NoVal, TRUE>>
                 /\ pc' = "shift" /\ i' = s /\ j' = s /\ cursor' = NoCursor
            \/ /\ Ident[k] \notin Idents(t) /\ ret' = <<NoVal, FALSE>>
               /\ UNCHANGED <<pc, i, j, cursor>>
  <1> DEFINE s == Find(t, k)
  <1>1. pc = "idle" /\ UNCHANGED <<h, t, old, adding>>
    BY DEF Remove
  <1>2. Finds(t, k, s) /\ t.used \in [Slots(t) -> BOOLEAN]
    BY <1>1, BetweenCalls, FindOk DEF IsTable
  <1>3. CASE t.used[s]
    <2>1. ret' = <<NoVal, TRUE>> /\ pc' = "shift" /\ i' = s /\ j' = s /\ cursor' = NoCursor
      BY <1>3, <1>2 DEF Remove, Finds
    <2> QED BY <2>1, <1>1, <1>2, <1>3 DEF Finds
  <1>4. CASE ~t.used[s]
    <2>1. ret' = <<NoVal, FALSE>> /\ UNCHANGED <<pc, i, j, cursor>>
      BY <1>4, <1>2 DEF Remove, Finds
    <2> QED BY <2>1, <1>1, <1>2, <1>4 DEF Finds
  <1> QED BY <1>3, <1>4

\* Remove finds its key and opens a hole, or changes nothing.
LEMMA RemoveStep ==
  ASSUME IInv, NEW k \in Keys, Remove(k)
  PROVE  IInv'
  <1>1. /\ pc = "idle" /\ UNCHANGED <<h, t, old, adding>>
    BY RemoveCases
  <1>2. ASSUME NEW b \in BOOLEAN PROVE <<NoVal, b>> \in (Vals \cup {NoVal}) \X BOOLEAN
    OBVIOUS
  <1>3. ASSUME NEW s \in Used(t), ret' = <<NoVal, TRUE>>, pc' = "shift", i' = s, j' = s,
               cursor' = NoCursor
        PROVE  IInv'
    <2>1. /\ IsTable(t) /\ Reachable(h, t, Used(t)) /\ Distinct(t, Used(t))
          /\ 4 * Cardinality(Used(t)) <= 3 * t.cap /\ t.count = Cardinality(Used(t))
          /\ old = NoTable /\ adding = NoAdding /\ s \in Slots(t)
          /\ t.cap \in Nat /\ t.cap >= 2
      BY <1>1, BetweenCalls DEF Idle, Sound, Used, IsTable
    <2>2. ASSUME NEW x \in Slots(t), Dist(t, s, x) <= Dist(t, s, s)
          PROVE  x = s
      <3>1. /\ Dist(t, s, x) = IF s <= x THEN x - s ELSE x - s + t.cap
            /\ Dist(t, s, s) = 0
        BY <2>1, DistIs DEF Slots
      <3> QED BY <2>1, <2>2, <3>1 DEF Slots
    <2>3. Distinct(t, Used(t) \ {s}) /\ Reachable(h, t, Used(t) \ {s})
      BY <2>1 DEF Distinct, Reachable
    <2>4. \A x \in Slots(t) : Dist(t, s, x) <= Dist(t, s, s) => x \in Used(t) /\ x = s
      BY <2>2
    <2> HIDE DEF Slots
    <2>5. Shifting'
      BY <1>1, <1>3, <2>1, <2>3, <2>4 DEF Shifting
    <2> QED BY <2>5, <1>1, <1>2, <1>3, BetweenCalls DEF IInv
  <1>4. ASSUME ret' = <<NoVal, FALSE>>, UNCHANGED <<pc, i, j, cursor>>
        PROVE  IInv'
    BY <1>1, <1>2, <1>4, ReadKeepsIInv
  <1> QED BY <1>3, <1>4, RemoveCases

(***************************************************************************)
(* Growth.                                                                 *)
(***************************************************************************)

\* The slots of old below i.
Moved == Used(old) \cap (0 .. i - 1)

\* During a growth the new table holds old's entries only, and has room for
\* all of them and one more.
LEMMA GrowingRoom ==
  ASSUME Growing
  PROVE  /\ adding.key \in Keys /\ adding.val \in Vals
         /\ Idents(t) \subseteq Idents(old) /\ Ident[adding.key] \notin Idents(t)
         /\ Cardinality(Used(t)) <= Cardinality(Used(old))
         /\ 4 * (Cardinality(Used(t)) + 1) <= 3 * t.cap
         /\ IsFiniteSet(Moved) /\ Cardinality(Used(t)) \in Nat
         /\ old.cap \in Nat /\ t.cap \in Nat /\ Used(old) \in SUBSET (0 .. old.cap - 1)
  <1>1. /\ Sound(h, old) /\ IsTable(old) /\ IsTable(t) /\ t.cap = 2 * old.cap
        /\ old.cap \in Nat /\ old.cap >= 2 /\ t.cap \in Nat /\ t.cap >= 2
        /\ Cardinality(Used(t)) = Cardinality(Moved)
        /\ 4 * Cardinality(Used(old)) <= 3 * old.cap
    BY DEF Growing, Sound, IsTable, Moved
  <1>2. adding.key \in Keys /\ adding.val \in Vals
    BY StoredPair DEF Growing
  <1>3. \A s \in Used(t) : \E r \in Used(old) : t.keys[s] = old.keys[r]
    BY DEF Growing
  <1>4. Idents(t) \subseteq Idents(old)
    BY <1>3 DEF Idents
  <1>5. IsFiniteSet(Used(old)) /\ Cardinality(Used(old)) \in Nat /\ Moved \in SUBSET Used(old)
    BY <1>1, SlotsFinite DEF Moved
  <1>6. IsFiniteSet(Moved) /\ Cardinality(Moved) <= Cardinality(Used(old))
    BY <1>5, FS_Subset
  <1>7. Cardinality(Used(t)) \in Nat
    BY <1>1, SlotsFinite
  <1>8. 4 * (Cardinality(Used(t)) + 1) <= 3 * t.cap
    BY <1>1, <1>5, <1>6, <1>7
  <1>9. Used(old) \in SUBSET (0 .. old.cap - 1)
    BY DEF Used, Slots
  <1>10. Ident[adding.key] \notin Idents(t)
    BY <1>4 DEF Growing
  <1> QED BY <1>1, <1>2, <1>4, <1>6, <1>7, <1>8, <1>9, <1>10

\* grow moves one slot of the old backing to the new one.
LEMMA RehashStep ==
  ASSUME IInv, Rehash
  PROVE  IInv'
  <1>1. /\ pc = "rehash" /\ i < old.cap /\ i' = i + 1
        /\ t' = IF old.used[i] THEN Place(t, old.keys[i], old.vals[i]) ELSE t
        /\ UNCHANGED <<h, pc, old, j, adding, ret, cursor>>
    BY DEF Rehash
  <1>2. Growing /\ h \in Hashers /\ cursor = NoCursor
        /\ ret \in (Vals \cup {NoVal}) \X BOOLEAN
    BY <1>1 DEF IInv
  <1>3. /\ Sound(h, old) /\ Sound(h, t) /\ IsTable(old) /\ IsTable(t)
        /\ old.count = Cardinality(Used(old))
        /\ t.cap = 2 * old.cap /\ t.count = old.count
        /\ i \in 0 .. old.cap /\ j = 0 /\ i \in Nat
        /\ Cardinality(Used(t)) = Cardinality(Moved)
        /\ \A s \in Used(t) : \E r \in Moved :
             t.keys[s] = old.keys[r] /\ t.vals[s] = old.vals[r]
        /\ \A r \in Moved : \E s \in Used(t) :
             t.keys[s] = old.keys[r] /\ t.vals[s] = old.vals[r]
    BY <1>2 DEF Growing, Moved, Sound
  <1>4. i' \in 0 .. old.cap /\ i \in Slots(old)
    <2>1. old.cap \in Nat
      BY <1>2, GrowingRoom
    <2> QED BY <1>1, <1>3, <2>1 DEF Slots
  <1> DEFINE Moved2 == Used(old) \cap (0 .. i' - 1)
  <1>5. Moved2 = IF old.used[i] THEN Moved \cup {i} ELSE Moved
    <2>1. \A r \in Used(old) : r \in Nat
      BY <1>2, GrowingRoom
    <2>2. i \in Used(old) <=> old.used[i]
      BY <1>4 DEF Used
    <2>3. \A r \in Nat : r \in 0 .. i' - 1 <=> r \in 0 .. i - 1 \/ r = i
      BY <1>1, <1>3
    <2> QED BY <2>1, <2>2, <2>3 DEF Moved
  <1>6. i \notin Moved
    BY <1>3 DEF Moved
  <1>7. ASSUME Sound(h, t'), t'.cap = t.cap, t'.count = t.count,
               Cardinality(Used(t')) = Cardinality(Moved2),
               \A s \in Used(t') : \E r \in Moved2 :
                 t'.keys[s] = old.keys[r] /\ t'.vals[s] = old.vals[r],
               \A r \in Moved2 : \E s \in Used(t') :
                 t'.keys[s] = old.keys[r] /\ t'.vals[s] = old.vals[r]
        PROVE  IInv'
    <2>1. /\ Sound(h', old') /\ old'.count = Cardinality(Used(old')) /\ Sound(h', t')
          /\ t'.cap = 2 * old'.cap /\ t'.count = old'.count /\ i' \in 0 .. old'.cap /\ j' = 0
          /\ Cardinality(Used(t')) = Cardinality(Used(old') \cap (0 .. i' - 1))
          /\ <<adding'.key, adding'.val>> \in Stored
          /\ adding'.ret \in {Nothing, <<adding'.val, FALSE>>}
          /\ Ident[adding'.key] \notin Idents(old')
      BY <1>1, <1>2, <1>3, <1>4, <1>7 DEF Growing
    <2>2. /\ \A s \in Used(t') : \E r \in Used(old') \cap (0 .. i' - 1) :
               t'.keys[s] = old'.keys[r] /\ t'.vals[s] = old'.vals[r]
          /\ \A r \in Used(old') \cap (0 .. i' - 1) : \E s \in Used(t') :
               t'.keys[s] = old'.keys[r] /\ t'.vals[s] = old'.vals[r]
      BY <1>1, <1>7
    <2>3. Growing'
      BY <2>1, <2>2 DEF Growing
    <2> QED BY <2>3, <1>1, <1>2 DEF IInv
  <1>8. CASE ~old.used[i]
    <2>1. t' = t /\ Moved2 = Moved
      BY <1>1, <1>5, <1>8
    <2> HIDE DEF Moved2
    <2>2. Sound(h, t') /\ t'.cap = t.cap /\ t'.count = t.count
      BY <2>1, <1>3
    <2> QED BY <2>1, <2>2, <1>3, <1>7 DEF Moved2
  <1>9. CASE old.used[i]
    <2> DEFINE k == old.keys[i]
               v == old.vals[i]
    <2>1. t' = Place(t, k, v) /\ Moved2 = Moved \cup {i} /\ i \in Used(old)
      BY <1>1, <1>4, <1>5, <1>9 DEF Used
    <2>2. k \in Keys /\ v \in Vals
      BY <2>1, <1>3 DEF IsTable
    <2>3. Ident[k] \notin Idents(t)
      <3> SUFFICES ASSUME NEW s \in Used(t), Ident[t.keys[s]] = Ident[k] PROVE FALSE
        BY DEF Idents
      <3>1. PICK r \in Moved : t.keys[s] = old.keys[r]
        BY <1>3
      <3>2. r = i
        BY <3>1, <2>1, <1>3 DEF Moved, Sound, Distinct
      <3> QED BY <3>1, <3>2, <1>6
    <2> HIDE DEF k, v, Moved2
    <2>4. PICK s : Placed(t', t, k, v, s)
      BY <2>1, <2>2, <2>3, <1>2, <1>3, PlaceOk
    <2>5. /\ IsTable(t') /\ Reachable(h, t', Used(t')) /\ Distinct(t', Used(t'))
          /\ t'.cap = t.cap /\ t'.count = t.count /\ Used(t') = Used(t) \cup {s}
          /\ Cardinality(Used(t')) = Cardinality(Used(t)) + 1
          /\ t'.keys[s] = k /\ t'.vals[s] = v
          /\ \A x \in Used(t) : t'.keys[x] = t.keys[x] /\ t'.vals[x] = t.vals[x]
      BY <2>4 DEF Placed, Vacant, Used
    <2>6. Sound(h, t')
      BY <2>5, <1>2, GrowingRoom DEF Sound
    <2>7. Cardinality(Used(t')) = Cardinality(Moved2)
      <3>1. Cardinality(Moved \cup {i}) = Cardinality(Moved) + 1
        BY <1>2, <1>6, GrowingRoom, FS_AddElement
      <3> QED BY <3>1, <2>1, <2>5, <1>3
    <2>8. \A x \in Used(t') : \E r \in Moved2 :
            t'.keys[x] = old.keys[r] /\ t'.vals[x] = old.vals[r]
      BY <2>1, <2>5, <1>3 DEF k, v
    <2>9. \A r \in Moved2 : \E x \in Used(t') :
            t'.keys[x] = old.keys[r] /\ t'.vals[x] = old.vals[r]
      <3> SUFFICES ASSUME NEW r \in Moved2
                   PROVE  \E x \in Used(t') :
                            t'.keys[x] = old.keys[r] /\ t'.vals[x] = old.vals[r]
        OBVIOUS
      <3>1. CASE r \in Moved
        <4>1. PICK x \in Used(t) : t.keys[x] = old.keys[r] /\ t.vals[x] = old.vals[r]
          BY <3>1, <1>3
        <4>2. x \in Used(t') /\ t'.keys[x] = t.keys[x] /\ t'.vals[x] = t.vals[x]
          BY <2>5
        <4> QED BY <4>1, <4>2
      <3>2. CASE r = i
        <4>1. s \in Used(t') /\ t'.keys[s] = old.keys[r] /\ t'.vals[s] = old.vals[r]
          BY <3>2, <2>5 DEF k, v
        <4> QED BY <4>1
      <3> QED BY <3>1, <3>2, <2>1
    <2> QED BY <2>5, <2>6, <2>7, <2>8, <2>9, <1>7 DEF Moved2
  <1> QED BY <1>8, <1>9

\* The last step of a growth: the entry that caused it goes in.
LEMMA InsertGrownCases ==
  ASSUME IInv, InsertGrown
  PROVE  /\ Growing /\ Moved = Used(old)
         /\ \E s : Added(t', t, adding.key, adding.val, s)
         /\ ret' = adding.ret /\ pc' = "idle" /\ old' = NoTable /\ i' = 0
         /\ adding' = NoAdding /\ UNCHANGED <<h, j, cursor>>
  <1>1. /\ pc = "rehash" /\ i = old.cap
        /\ t' = [Place(t, adding.key, adding.val) EXCEPT !.count = @ + 1]
        /\ ret' = adding.ret /\ pc' = "idle" /\ old' = NoTable /\ i' = 0
        /\ adding' = NoAdding /\ UNCHANGED <<h, j, cursor>>
    BY DEF InsertGrown
  <1>2. Growing /\ h \in Hashers
    BY <1>1 DEF IInv
  <1>3. Moved = Used(old)
    BY <1>1, <1>2, GrowingRoom DEF Moved
  <1>4. /\ Sound(h, t) /\ t.count = Cardinality(Used(t))
    BY <1>2, <1>3 DEF Growing, Moved
  <1>5. /\ adding.key \in Keys /\ adding.val \in Vals
        /\ Ident[adding.key] \notin Idents(t)
        /\ 4 * (Cardinality(Used(t)) + 1) <= 3 * t.cap
    BY <1>2, GrowingRoom
  <1>6. \E s : Added(t', t, adding.key, adding.val, s)
    BY <1>1, <1>2, <1>4, <1>5, AddOk
  <1> QED BY <1>1, <1>2, <1>3, <1>6

\* The pending pair is inserted when every old slot has moved.
LEMMA InsertGrownStep ==
  ASSUME IInv, InsertGrown
  PROVE  IInv'
  <1>1. /\ Growing /\ ret' = adding.ret /\ pc' = "idle" /\ old' = NoTable /\ i' = 0
        /\ adding' = NoAdding /\ UNCHANGED <<h, j, cursor>>
    BY InsertGrownCases
  <1>2. PICK s : Added(t', t, adding.key, adding.val, s)
    BY InsertGrownCases
  <1>3. h \in Hashers /\ cursor = NoCursor
    BY DEF IInv, InsertGrown
  <1>4. Idle'
    BY <1>1, <1>2 DEF Idle, Added, Growing
  <1>5. ret' \in (Vals \cup {NoVal}) \X BOOLEAN
    <2>1. adding.val \in Vals
      BY <1>1, GrowingRoom
    <2>2. /\ <<NoVal, FALSE>> \in (Vals \cup {NoVal}) \X BOOLEAN
          /\ <<adding.val, FALSE>> \in (Vals \cup {NoVal}) \X BOOLEAN
      BY <2>1
    <2> QED BY <2>2, <1>1 DEF Nothing, Growing
  <1> QED BY <1>1, <1>3, <1>4, <1>5 DEF IInv

(***************************************************************************)
(* The backward shift.  Slots are points of a circle, and a probe goes     *)
(* around it one way.                                                      *)
(***************************************************************************)

\* Slots at the same distance from one slot are the same.
LEMMA DistSame ==
  ASSUME NEW tb, tb.cap \in Nat, tb.cap >= 2, NEW a \in Slots(tb),
         NEW x \in Slots(tb), NEW y \in Slots(tb), Dist(tb, a, x) = Dist(tb, a, y)
  PROVE  x = y
  <1>1. /\ Dist(tb, a, x) = IF a <= x THEN x - a ELSE x - a + tb.cap
        /\ Dist(tb, a, y) = IF a <= y THEN y - a ELSE y - a + tb.cap
    BY DistIs
  <1>2. a \in 0 .. tb.cap - 1 /\ x \in 0 .. tb.cap - 1 /\ y \in 0 .. tb.cap - 1
    BY DEF Slots
  <1>3. (IF a <= x THEN x - a ELSE x - a + tb.cap)
          = (IF a <= y THEN y - a ELSE y - a + tb.cap)
    BY <1>1
  <1>4. x \in Int /\ y \in Int /\ a \in Int /\ x >= 0 /\ y >= 0 /\ x < tb.cap /\ y < tb.cap
    BY <1>2
  <1> QED BY <1>3, <1>4

\* The slot after j is one further from a, unless the circle closes there.
LEMMA NextSlot ==
  ASSUME NEW tb, tb.cap \in Nat, tb.cap >= 2, NEW a \in Slots(tb), NEW b \in Slots(tb)
  PROVE  LET n == (b + 1) % tb.cap IN
         /\ n \in Slots(tb)
         /\ n # a => Dist(tb, a, n) = Dist(tb, a, b) + 1
         /\ n = a => \A x \in Slots(tb) : Dist(tb, a, x) <= Dist(tb, a, b)
  <1> DEFINE n == (b + 1) % tb.cap
  <1>1. n = IF b + 1 < tb.cap THEN b + 1 ELSE 0
    BY DEF Slots
  <1>2. n \in Slots(tb)
    BY <1>1 DEF Slots
  <1> HIDE DEF n
  <1>3. Dist(tb, a, b) = IF a <= b THEN b - a ELSE b - a + tb.cap
    BY DistIs
  <1>4. n # a => Dist(tb, a, n) = Dist(tb, a, b) + 1
    <2>1. Dist(tb, a, n) = IF a <= n THEN n - a ELSE n - a + tb.cap
      BY <1>2, DistIs
    <2> QED BY <2>1, <1>1, <1>3 DEF Slots
  <1>5. ASSUME n = a, NEW x \in Slots(tb) PROVE Dist(tb, a, x) <= Dist(tb, a, b)
    <2>1. Dist(tb, a, x) = IF a <= x THEN x - a ELSE x - a + tb.cap
      BY DistIs
    <2> QED BY <2>1, <1>1, <1>3, <1>5 DEF Slots
  <1> QED BY <1>2, <1>4, <1>5 DEF n

\* inRange(a, x, b) tells which of two slots a probe from x meets first.
LEMMA RangeIsOrder ==
  ASSUME NEW tb, tb.cap \in Nat, tb.cap >= 2, NEW a \in Slots(tb),
         NEW x \in Slots(tb), NEW b \in Slots(tb), a # b
  PROVE  IF inRange(a, x, b) THEN Dist(tb, x, b) < Dist(tb, x, a)
                             ELSE Dist(tb, x, a) < Dist(tb, x, b)
  <1>1. /\ Dist(tb, x, a) = IF x <= a THEN a - x ELSE a - x + tb.cap
        /\ Dist(tb, x, b) = IF x <= b THEN b - x ELSE b - x + tb.cap
    BY DistIs
  <1> QED BY <1>1 DEF inRange, Slots

\* A slot met on the way from a to s lies on a probe path that passes a and
\* leads to s.
LEMMA OnTheWay ==
  ASSUME NEW tb, tb.cap \in Nat, tb.cap >= 2, NEW x \in Slots(tb), NEW a \in Slots(tb),
         NEW s \in Slots(tb), NEW n \in Slots(tb),
         Dist(tb, x, a) <= Dist(tb, x, s), Dist(tb, a, n) < Dist(tb, a, s)
  PROVE  Dist(tb, x, n) < Dist(tb, x, s)
  <1>1. /\ Dist(tb, x, a) = IF x <= a THEN a - x ELSE a - x + tb.cap
        /\ Dist(tb, x, s) = IF x <= s THEN s - x ELSE s - x + tb.cap
        /\ Dist(tb, x, n) = IF x <= n THEN n - x ELSE n - x + tb.cap
        /\ Dist(tb, a, n) = IF a <= n THEN n - a ELSE n - a + tb.cap
        /\ Dist(tb, a, s) = IF a <= s THEN s - a ELSE s - a + tb.cap
    BY DistIs
  <1> QED BY <1>1 DEF Slots

\* In a shift, the slot after j is not the gap, and j's distance counts up.
LEMMA ShiftingAhead ==
  ASSUME Shifting
  PROVE  LET n == (j + 1) % t.cap IN
         /\ n \in Slots(t) /\ n # i /\ i \in Used(t)
         /\ Dist(t, i, n) = Dist(t, i, j) + 1
         /\ Dist(t, i, j) \in Nat /\ t.cap \in Nat /\ t.cap >= 2
  <1> DEFINE n == (j + 1) % t.cap
  <1>1. t.cap \in Nat /\ t.cap >= 2 /\ i \in Slots(t) /\ j \in Slots(t)
    BY DEF Shifting, IsTable
  <1>2. n \in Slots(t) /\ (n # i => Dist(t, i, n) = Dist(t, i, j) + 1)
        /\ (n = i => \A x \in Slots(t) : Dist(t, i, x) <= Dist(t, i, j))
    BY <1>1, NextSlot
  <1> HIDE DEF n
  <1>3. n # i
    <2>1. PICK w \in Vacant(t) : TRUE
      BY <1>1, SlotsFinite DEF Shifting
    <2>2. w \in Slots(t) /\ w \notin Used(t)
      BY DEF Vacant
    <2> QED BY <2>2, <1>2 DEF Shifting
  <1>4. i \in Used(t)
    <2>1. Dist(t, i, i) = 0 /\ Dist(t, i, j) \in Nat
      BY <1>1, DistIs DEF Slots
    <2>2. Dist(t, i, i) <= Dist(t, i, j)
      BY <2>1
    <2> QED BY <2>2, <1>1 DEF Shifting
  <1>5. Dist(t, i, j) \in Nat
    BY <1>1, DistIs
  <1> QED BY <1>1, <1>2, <1>3, <1>4, <1>5 DEF n

\* One step of the shift: the entry stays, or fills the gap and leaves one.
LEMMA ShiftCases ==
  ASSUME IInv, Shift
  PROVE  LET n == (j + 1) % t.cap IN
         /\ pc = "shift" /\ Shifting /\ cursor = NoCursor /\ h \in Hashers
         /\ n \in Used(t) \ {i} /\ j' = n
         /\ UNCHANGED <<h, pc, old, adding, ret, cursor>>
         /\ \/ /\ Dist(t, HomeBy(h, t, t.keys[n]), n) < Dist(t, HomeBy(h, t, t.keys[n]), i)
               /\ UNCHANGED <<t, i>>
            \/ /\ Dist(t, HomeBy(h, t, t.keys[n]), i) < Dist(t, HomeBy(h, t, t.keys[n]), n)
               /\ Rewritten(t', t, t.keys[n], t.vals[n], i)
               /\ i' = n
  <1> DEFINE n == (j + 1) % t.cap
             a == HomeBy(h, t, t.keys[n])
  <1>1. /\ pc = "shift" /\ t.used[n] /\ j' = n
        /\ UNCHANGED <<h, pc, old, adding, ret, cursor>>
        /\ IF inRange(i, a, n)
           THEN UNCHANGED <<t, i>>
           ELSE /\ t' = [t EXCEPT !.keys[i] = t.keys[n], !.vals[i] = t.vals[n]]
                /\ i' = n
    BY DEF Shift, home, HomeBy
  <1>2. Shifting /\ cursor = NoCursor /\ h \in Hashers
    BY <1>1 DEF IInv
  <1>3. /\ n \in Slots(t) /\ n # i /\ i \in Used(t) /\ i \in Slots(t)
        /\ t.cap \in Nat /\ t.cap >= 2 /\ IsTable(t)
    BY <1>2, ShiftingAhead DEF Shifting
  <1> HIDE DEF n
  <1>4. n \in Used(t) /\ t.keys[n] \in Keys /\ t.vals[n] \in Vals
    BY <1>1, <1>3 DEF Used, IsTable
  <1>5. a \in Slots(t)
    BY <1>2, <1>3, <1>4, HomeSlot DEF HomeBy, home
  <1> HIDE DEF a
  <1>6. IF inRange(i, a, n) THEN Dist(t, a, n) < Dist(t, a, i)
                            ELSE Dist(t, a, i) < Dist(t, a, n)
    BY <1>3, <1>5, RangeIsOrder
  <1>7. ASSUME t' = [t EXCEPT !.keys[i] = t.keys[n], !.vals[i] = t.vals[n]]
        PROVE  Rewritten(t', t, t.keys[n], t.vals[n], i)
    BY <1>3, <1>4, <1>7, RewriteOk
  <1> QED BY <1>1, <1>2, <1>3, <1>4, <1>6, <1>7 DEF n, a

\* One step of the backward shift moves the hole, or passes a slot.
LEMMA ShiftStep ==
  ASSUME IInv, Shift
  PROVE  IInv'
  <1> DEFINE n == (j + 1) % t.cap
             a == HomeBy(h, t, t.keys[n])
  <1>1. /\ pc = "shift" /\ Shifting /\ cursor = NoCursor /\ h \in Hashers
        /\ n \in Used(t) \ {i} /\ j' = n
        /\ UNCHANGED <<h, pc, old, adding, ret, cursor>>
        /\ \/ Dist(t, a, n) < Dist(t, a, i) /\ UNCHANGED <<t, i>>
           \/ /\ Dist(t, a, i) < Dist(t, a, n)
              /\ Rewritten(t', t, t.keys[n], t.vals[n], i) /\ i' = n
    BY ShiftCases
  <1>2. /\ n \in Slots(t) /\ Dist(t, i, n) = Dist(t, i, j) + 1
        /\ Dist(t, i, j) \in Nat /\ t.cap \in Nat /\ t.cap >= 2
    BY <1>1, ShiftingAhead
  <1> HIDE DEF n
  <1>3. /\ IsTable(t) /\ 4 * Cardinality(Used(t)) <= 3 * t.cap
        /\ t.count = Cardinality(Used(t)) /\ i \in Slots(t) /\ j \in Slots(t)
        /\ old = NoTable /\ adding = NoAdding
        /\ Distinct(t, Used(t) \ {i}) /\ Reachable(h, t, Used(t) \ {i})
        /\ \A s \in Slots(t) : Dist(t, i, s) <= Dist(t, i, j) =>
             /\ s \in Used(t)
             /\ s # i => Dist(t, HomeBy(h, t, t.keys[s]), s)
                           < Dist(t, HomeBy(h, t, t.keys[s]), i)
    BY <1>1 DEF Shifting
  <1>4. ret \in (Vals \cup {NoVal}) \X BOOLEAN
    BY DEF IInv
  <1>5. ASSUME Dist(t, a, n) < Dist(t, a, i), UNCHANGED <<t, i>>
        PROVE  Shifting'
    <2>1. ASSUME NEW s \in Slots(t), Dist(t, i, s) <= Dist(t, i, n)
          PROVE  /\ s \in Used(t)
                 /\ s # i => Dist(t, HomeBy(h, t, t.keys[s]), s)
                               < Dist(t, HomeBy(h, t, t.keys[s]), i)
      <3>1. CASE Dist(t, i, s) <= Dist(t, i, j)
        BY <3>1, <1>3
      <3>2. CASE ~(Dist(t, i, s) <= Dist(t, i, j))
        <4>1. Dist(t, i, s) \in Nat
          BY <1>2, <1>3, DistIs
        <4>2. Dist(t, i, s) = Dist(t, i, n)
          BY <4>1, <3>2, <2>1, <1>2
        <4>3. s = n
          BY <4>2, <1>2, <1>3, DistSame
        <4> QED BY <4>3, <1>1, <1>5
      <3> QED BY <3>1, <3>2
    <2> QED BY <2>1, <1>1, <1>2, <1>3, <1>5 DEF Shifting
  <1>6. ASSUME Dist(t, a, i) < Dist(t, a, n),
               Rewritten(t', t, t.keys[n], t.vals[n], i), i' = n
        PROVE  Shifting'
    <2>1. /\ IsTable(t') /\ t'.cap = t.cap /\ t'.count = t.count
          /\ Used(t') = Used(t) /\ Vacant(t') = Vacant(t) /\ Slots(t') = Slots(t)
          /\ t'.keys[i] = t.keys[n]
          /\ \A s \in Slots(t) \ {i} : t'.keys[s] = t.keys[s]
      BY <1>6 DEF Rewritten
    <2>2. \A x, y : Dist(t', x, y) = Dist(t, x, y)
      BY <2>1 DEF Dist
    <2>3. \A k : HomeBy(h, t', k) = HomeBy(h, t, k)
      BY <2>1 DEF HomeBy
    <2>4. Used(t) \in SUBSET Slots(t)
      BY DEF Used
    <2>5. Distinct(t', Used(t) \ {n})
      <3> SUFFICES ASSUME NEW s \in Used(t) \ {n}, NEW r \in Used(t) \ {n},
                          Ident[t'.keys[s]] = Ident[t'.keys[r]]
                   PROVE  s = r
        BY DEF Distinct
      <3>1. ASSUME NEW x \in Used(t) \ {n}, x # i
            PROVE  Ident[t'.keys[x]] = Ident[t.keys[x]] /\ Ident[t.keys[x]] # Ident[t.keys[n]]
        BY <3>1, <2>1, <2>4, <1>1, <1>3 DEF Distinct
      <3>2. CASE s = i \/ r = i
        BY <3>1, <3>2, <2>1
      <3>3. CASE s # i /\ r # i
        BY <3>1, <3>3, <1>3 DEF Distinct
      <3> QED BY <3>2, <3>3
    <2>6. Reachable(h, t', Used(t) \ {n})
      <3> SUFFICES ASSUME NEW s \in Used(t) \ {n}, NEW r \in Vacant(t)
                   PROVE  Dist(t, HomeBy(h, t, t'.keys[s]), s)
                            < Dist(t, HomeBy(h, t, t'.keys[s]), r)
        BY <2>1, <2>2, <2>3 DEF Reachable
      <3>1. CASE s # i
        BY <3>1, <2>1, <2>4, <1>3 DEF Reachable
      <3>2. CASE s = i
        <4>1. Dist(t, a, n) < Dist(t, a, r)
          BY <1>1, <1>3 DEF Reachable
        <4>2. a \in Slots(t) /\ r \in Slots(t)
          <5>1. t.keys[n] \in Keys
            BY <1>1, <1>3 DEF IsTable
          <5> QED BY <5>1, <1>1, <1>2, HomeSlot DEF HomeBy, home, Vacant
        <4> HIDE DEF a
        <4>3. /\ Dist(t, a, i) \in Nat /\ Dist(t, a, n) \in Nat /\ Dist(t, a, r) \in Nat
          BY <4>2, <1>2, <1>3, DistIs
        <4>4. Dist(t, a, i) < Dist(t, a, r)
          BY <4>1, <4>3, <1>6
        <4> QED BY <4>4, <3>2, <2>1 DEF a
      <3> QED BY <3>1, <3>2
    <2>7. ASSUME NEW s \in Slots(t), Dist(t, n, s) <= Dist(t, n, n)
          PROVE  s = n
      <3>1. Dist(t, n, n) = 0
        BY <1>2, DistIs DEF Slots
      <3>2. Dist(t, n, s) \in Nat
        BY <1>2, DistIs
      <3>3. Dist(t, n, s) = Dist(t, n, n)
        BY <3>1, <3>2, <2>7
      <3> QED BY <3>3, <1>2, DistSame
    <2>8. \A s \in Slots(t') : Dist(t', i', s) <= Dist(t', i', j') => s \in Used(t') /\ s = i'
      BY <2>1, <2>2, <2>7, <1>1, <1>6
    <2> QED BY <2>1, <2>5, <2>6, <2>8, <1>1, <1>2, <1>3, <1>6 DEF Shifting
  <1>7. Shifting'
    BY <1>1, <1>5, <1>6
  <1> QED BY <1>1, <1>4, <1>7 DEF IInv

\* g is tb with the entry in slot s taken out.
Emptied(g, tb, s) ==
  /\ IsTable(g) /\ g.cap = tb.cap /\ g.count = tb.count - 1
  /\ Slots(g) = Slots(tb)
  /\ Used(g) = Used(tb) \ {s} /\ Vacant(g) = Vacant(tb) \cup {s}
  /\ Cardinality(Used(g)) = Cardinality(Used(tb)) - 1
  /\ \A r \in Slots(tb) \ {s} : g.keys[r] = tb.keys[r] /\ g.vals[r] = tb.vals[r]

\* Emptying a slot takes its entry away and no other.
LEMMA EmptiedOk ==
  ASSUME NEW tb, IsTable(tb), tb.count = Cardinality(Used(tb)), NEW s \in Used(tb), NEW g,
         g = [tb EXCEPT !.used[s] = FALSE, !.keys[s] = NoKey, !.vals[s] = NoVal,
                        !.count = @ - 1]
  PROVE  Emptied(g, tb, s)
  <1>1. /\ tb.keys \in [Slots(tb) -> Keys \cup {NoKey}]
        /\ tb.vals \in [Slots(tb) -> Vals \cup {NoVal}]
        /\ tb.used \in [Slots(tb) -> BOOLEAN] /\ tb.count \in Nat
        /\ tb.cap \in Nat /\ tb.cap >= 2
        /\ tb = [keys |-> tb.keys, vals |-> tb.vals, used |-> tb.used,
                 count |-> tb.count, cap |-> tb.cap]
    BY DEF IsTable
  <1>2. /\ g.keys = [tb.keys EXCEPT ![s] = NoKey]
        /\ g.vals = [tb.vals EXCEPT ![s] = NoVal]
        /\ g.used = [tb.used EXCEPT ![s] = FALSE]
        /\ g.count = tb.count - 1 /\ g.cap = tb.cap
        /\ g = [keys |-> g.keys, vals |-> g.vals, used |-> g.used,
                count |-> g.count, cap |-> g.cap]
    BY <1>1
  <1>3. Slots(g) = Slots(tb) /\ s \in Slots(tb)
    BY <1>2 DEF Slots, Used
  <1>4. /\ Used(g) = Used(tb) \ {s} /\ Vacant(g) = Vacant(tb) \cup {s}
    <2>1. Used(g) = Used(tb) \ {s}
      BY <1>1, <1>2, <1>3 DEF Used
    <2> QED BY <2>1, <1>3 DEF Vacant
  <1>5. /\ g.keys[s] = NoKey /\ g.vals[s] = NoVal
        /\ \A r \in Slots(tb) \ {s} : g.keys[r] = tb.keys[r] /\ g.vals[r] = tb.vals[r]
    BY <1>1, <1>2, <1>3
  <1>6. /\ g.keys \in [Slots(tb) -> Keys \cup {NoKey}]
        /\ g.vals \in [Slots(tb) -> Vals \cup {NoVal}]
        /\ g.used \in [Slots(tb) -> BOOLEAN]
    <2>1. g.keys \in [Slots(tb) -> Keys \cup {NoKey}]
      BY <1>1, <1>2, NoKey \in Keys \cup {NoKey}, Zenon
    <2>2. g.vals \in [Slots(tb) -> Vals \cup {NoVal}]
      BY <1>1, <1>2, NoVal \in Vals \cup {NoVal}, Zenon
    <2>3. g.used \in [Slots(tb) -> BOOLEAN]
      BY <1>1, <1>2, FALSE \in BOOLEAN, Zenon
    <2> QED BY <2>1, <2>2, <2>3
  <1>7. /\ Cardinality(Used(g)) = Cardinality(Used(tb)) - 1
        /\ Cardinality(Used(tb)) - 1 \in Nat
    <2>1. IsFiniteSet(Used(tb))
      BY <1>1, SlotsFinite
    <2>2. Cardinality(Used(tb) \ {s}) = Cardinality(Used(tb)) - 1
      BY <2>1, FS_RemoveElement
    <2>3. Cardinality(Used(tb) \ {s}) \in Nat
      BY <2>1, FS_RemoveElement, FS_CardinalityType
    <2> QED BY <2>2, <2>3, <1>4
  <1>8. IsTable(g)
    <2>1. \A r \in Used(g) : g.keys[r] \in Keys /\ g.vals[r] \in Vals
      BY <1>4, <1>5 DEF IsTable, Used
    <2>2. \A r \in Vacant(g) : g.keys[r] = NoKey /\ g.vals[r] = NoVal
      BY <1>4, <1>5 DEF IsTable, Vacant
    <2>3. g.count \in Nat
      BY <1>2, <1>7
    <2> QED BY <2>1, <2>2, <2>3, <1>1, <1>2, <1>3, <1>6 DEF IsTable
  <1> QED BY <1>2, <1>3, <1>4, <1>5, <1>7, <1>8 DEF Emptied

\* The end of the shift: the gap is vacated, and hides no entry.
LEMMA ShiftEndCases ==
  ASSUME IInv, ShiftEnd
  PROVE  /\ pc = "shift" /\ Shifting /\ cursor = NoCursor /\ h \in Hashers
         /\ Emptied(t', t, i) /\ Sound(h, t')
         /\ pc' = "idle" /\ i' = 0 /\ j' = 0
         /\ UNCHANGED <<h, old, adding, ret, cursor>>
  <1> DEFINE n == (j + 1) % t.cap
  <1>1. /\ pc = "shift" /\ ~t.used[n]
        /\ t' = [t EXCEPT !.used[i] = FALSE, !.keys[i] = NoKey, !.vals[i] = NoVal,
                          !.count = @ - 1]
        /\ pc' = "idle" /\ i' = 0 /\ j' = 0
        /\ UNCHANGED <<h, old, adding, ret, cursor>>
    BY DEF ShiftEnd
  <1>2. Shifting /\ cursor = NoCursor /\ h \in Hashers
    BY <1>1 DEF IInv
  <1>3. /\ n \in Slots(t) /\ Dist(t, i, n) = Dist(t, i, j) + 1 /\ i \in Used(t)
        /\ Dist(t, i, j) \in Nat /\ t.cap \in Nat /\ t.cap >= 2
    BY <1>2, ShiftingAhead
  <1> HIDE DEF n
  <1>4. n \in Vacant(t)
    BY <1>1, <1>3 DEF Vacant, Used
  <1>5. /\ IsTable(t) /\ 4 * Cardinality(Used(t)) <= 3 * t.cap
        /\ t.count = Cardinality(Used(t)) /\ i \in Slots(t)
        /\ Distinct(t, Used(t) \ {i}) /\ Reachable(h, t, Used(t) \ {i})
        /\ \A s \in Slots(t) : Dist(t, i, s) <= Dist(t, i, j) =>
             /\ s \in Used(t)
             /\ s # i => Dist(t, HomeBy(h, t, t.keys[s]), s)
                           < Dist(t, HomeBy(h, t, t.keys[s]), i)
    BY <1>2 DEF Shifting
  <1>6. Emptied(t', t, i)
    BY <1>1, <1>3, <1>5, EmptiedOk
  <1>7. ASSUME NEW s \in Used(t), s # i
        PROVE  Dist(t, HomeBy(h, t, t.keys[s]), s) < Dist(t, HomeBy(h, t, t.keys[s]), i)
    <2> DEFINE a == HomeBy(h, t, t.keys[s])
    <2>1. s \in Slots(t) /\ a \in Slots(t)
      <3>1. t.keys[s] \in Keys
        BY <1>5 DEF IsTable
      <3> QED BY <3>1, <1>2, <1>3, HomeSlot DEF HomeBy, home, Used
    <2>2. Dist(t, a, s) < Dist(t, a, n)
      BY <1>4, <1>5, <1>7 DEF Reachable
    <2>3. ~(Dist(t, i, s) <= Dist(t, i, j)) \/ Dist(t, a, s) < Dist(t, a, i)
      BY <2>1, <1>5, <1>7
    <2> HIDE DEF a
    <2>4. /\ Dist(t, a, s) \in Nat /\ Dist(t, a, n) \in Nat /\ Dist(t, a, i) \in Nat
          /\ Dist(t, i, s) \in Nat
      BY <2>1, <1>3, <1>5, DistIs
    <2>5. ASSUME ~(Dist(t, i, s) <= Dist(t, i, j)), Dist(t, a, i) <= Dist(t, a, s)
          PROVE  FALSE
      <3>1. Dist(t, i, s) # Dist(t, i, n)
        <4>1. s # n
          BY <1>4 DEF Vacant
        <4> QED BY <4>1, <2>1, <1>3, <1>5, DistSame
      <3>2. Dist(t, i, n) < Dist(t, i, s)
        BY <3>1, <2>4, <2>5, <1>3
      <3>3. Dist(t, a, n) < Dist(t, a, s)
        BY <3>2, <2>1, <2>5, <1>3, <1>5, OnTheWay
      <3> QED BY <3>3, <2>2, <2>4
    <2>6. Dist(t, a, s) < Dist(t, a, i)
      BY <2>3, <2>4, <2>5
    <2> QED BY <2>6 DEF a
  <1>8. /\ IsTable(t') /\ t'.cap = t.cap /\ Used(t') = Used(t) \ {i}
        /\ Vacant(t') = Vacant(t) \cup {i}
        /\ Cardinality(Used(t')) = Cardinality(Used(t)) - 1
        /\ \A s \in Used(t') : t'.keys[s] = t.keys[s]
    BY <1>6 DEF Emptied, Used
  <1>9. \A x, y : Dist(t', x, y) = Dist(t, x, y) /\ HomeBy(h, t', x) = HomeBy(h, t, x)
    BY <1>8 DEF Dist, HomeBy
  <1>10. Reachable(h, t', Used(t'))
    BY <1>5, <1>7, <1>8, <1>9 DEF Reachable
  <1>11. Distinct(t', Used(t'))
    BY <1>5, <1>8 DEF Distinct
  <1>12. 4 * Cardinality(Used(t')) <= 3 * t'.cap
    <2>1. Cardinality(Used(t)) \in Nat
      BY <1>3, SlotsFinite
    <2> QED BY <2>1, <1>3, <1>5, <1>8
  <1> QED BY <1>1, <1>2, <1>6, <1>8, <1>10, <1>11, <1>12 DEF Sound

\* The shift ends at the first empty slot: the hole is emptied.
LEMMA ShiftEndStep ==
  ASSUME IInv, ShiftEnd
  PROVE  IInv'
  <1>1. /\ Shifting /\ cursor = NoCursor /\ h \in Hashers
        /\ Emptied(t', t, i) /\ Sound(h, t')
        /\ pc' = "idle" /\ i' = 0 /\ j' = 0
        /\ UNCHANGED <<h, old, adding, ret, cursor>>
    BY ShiftEndCases
  <1>2. Idle'
    BY <1>1 DEF Idle, Shifting, Emptied
  <1> QED BY <1>1, <1>2 DEF IInv

\* Every step keeps the invariant.
LEMMA NextIInv ==
  ASSUME IInv, [Next]_vars
  PROVE  IInv'
  <1>1. ASSUME NEW k \in Keys, Get(k) \/ Remove(k) PROVE IInv'
    BY <1>1, GetStep, RemoveStep
  <1>2. ASSUME NEW p \in Stored, Put(p[1], p[2]) \/ GetOrPut(p[1], p[2]) PROVE IInv'
    <2>1. p = <<p[1], p[2]>>
      BY TableAssumption
    <2>2. <<p[1], p[2]>> \in Stored
      BY <2>1
    <2> QED BY <2>2, <1>2, PutStep, GetOrPutStep
  <1>3. CASE Rehash \/ InsertGrown \/ Shift \/ ShiftEnd
    BY <1>3, RehashStep, InsertGrownStep, ShiftStep, ShiftEndStep
  <1>4. CASE Iter \/ CursorNext
    BY <1>4, IterStep, CursorNextStep
  <1>5. CASE UNCHANGED vars
    <2>1. UNCHANGED <<h, t, pc, old, i, j, adding, cursor>> /\ ret' = ret
      BY <1>5 DEF vars
    <2> QED BY <2>1, ReadKeepsIInv DEF IInv
  <1> QED BY <1>1, <1>2, <1>3, <1>4, <1>5 DEF Next

\* Between calls the table is sound and the cursor is exact; in a growth the
\* new backing holds what the loop of grow has moved, and in a Remove the shift
\* has repaired the probe paths up to the slot it has reached.
THEOREM Invariance == Spec => []IInv
  <1>1. Init => IInv
    BY InitIInv
  <1>2. IInv /\ [Next]_vars => IInv'
    BY NextIInv
  <1> QED BY <1>1, <1>2, PTL DEF Spec

(***************************************************************************)
(* What follows from the invariant in every state.                         *)
(***************************************************************************)
LEMMA TableAt ==
  ASSUME IInv
  PROVE  /\ IsTable(t) /\ 4 * Cardinality(Used(t)) <= 3 * t.cap
         /\ old = NoTable \/ IsTable(old)
         /\ i \in 0 .. t.cap /\ j \in 0 .. t.cap - 1
         /\ adding.key \in Keys \cup {NoKey}
  <1>1. CASE Idle
    <2>1. t.cap \in Nat /\ t.cap >= 2 /\ IsTable(t)
      BY <1>1 DEF Idle, Sound, IsTable
    <2>2. i = 0 /\ j = 0 /\ old = NoTable /\ adding.key = NoKey
      BY <1>1 DEF Idle, NoAdding
    <2> QED BY <2>1, <2>2, <1>1 DEF Idle, Sound
  <1>2. CASE Growing
    <2>1. /\ IsTable(old) /\ IsTable(t) /\ t.cap \in Nat /\ t.cap >= 2
          /\ old.cap \in Nat /\ t.cap = 2 * old.cap /\ i \in 0 .. old.cap /\ j = 0
      BY <1>2 DEF Growing, Sound, IsTable
    <2>2. i \in 0 .. t.cap /\ j \in 0 .. t.cap - 1
      BY <2>1
    <2>3. adding.key \in Keys
      BY <1>2, GrowingRoom
    <2> QED BY <2>1, <2>2, <2>3, <1>2 DEF Growing, Sound
  <1>3. CASE Shifting
    <2>1. t.cap \in Nat /\ IsTable(t) /\ i \in 0 .. t.cap - 1 /\ j \in 0 .. t.cap - 1
      BY <1>3 DEF Shifting, IsTable, Slots
    <2>2. i \in 0 .. t.cap
      BY <2>1
    <2>3. old = NoTable /\ adding.key = NoKey
      BY <1>3 DEF Shifting, NoAdding
    <2> QED BY <2>1, <2>2, <2>3, <1>3 DEF Shifting
  <1> QED BY <1>1, <1>2, <1>3 DEF IInv

\* What the invariant says of types.
LEMMA TypeAt == IInv => TypeOK
  <1> SUFFICES ASSUME IInv PROVE TypeOK
    OBVIOUS
  <1> DEFINE Tables(cap) ==
        [keys : [0 .. cap - 1 -> Keys \cup {NoKey}], vals : [0 .. cap - 1 -> Vals \cup {NoVal}],
         used : [0 .. cap - 1 -> BOOLEAN], count : Nat, cap : {cap}]
  <1>1. ASSUME NEW tb, IsTable(tb) PROVE tb \in Tables(tb.cap)
    BY <1>1 DEF IsTable, Slots
  <1>2. NoTable \in Tables(NoTable.cap)
    BY DEF NoTable, NewTable
  <1>3. t \in Tables(t.cap) /\ old \in Tables(old.cap)
    BY <1>1, <1>2, TableAt
  <1> HIDE DEF Tables
  <1>4. t.cap \in Nat \ {0}
    BY TableAt DEF IsTable
  <1>5. cursor.at \in -1 .. t.cap
    <2>1. CASE cursor = NoCursor
      BY <2>1, <1>4 DEF NoCursor
    <2>2. CASE Following
      BY <2>2, <1>4 DEF Following
    <2> QED BY <2>1, <2>2 DEF IInv
  <1>6. /\ h \in Hashers /\ pc \in {"idle", "rehash", "shift"}
        /\ ret \in (Vals \cup {NoVal}) \X BOOLEAN
    BY DEF IInv
  <1> QED BY <1>3, <1>4, <1>5, <1>6, TableAt DEF TypeOK, Tables

\* What the invariant says of the idle table.
LEMMA SoundAt == IInv => TableSound
  <1> SUFFICES ASSUME IInv PROVE TableSound
    OBVIOUS
  <1>1. ProbePathsUnbroken
    <2> SUFFICES ASSUME pc = "idle", NEW s \in Used(t), NEW r \in Vacant(t)
                 PROVE  Dist(t, home(t, t.keys[s]), r) > Dist(t, home(t, t.keys[s]), s)
      BY DEF ProbePathsUnbroken
    <2> DEFINE a == home(t, t.keys[s])
    <2>1. IsTable(t) /\ t.cap \in Nat /\ t.cap >= 2 /\ h \in Hashers /\ t.keys[s] \in Keys
      BY BetweenCalls DEF IsTable
    <2>2. a \in Slots(t) /\ s \in Slots(t) /\ r \in Slots(t)
      BY <2>1, HomeSlot DEF Used, Vacant
    <2>3. Dist(t, a, s) < Dist(t, a, r)
      BY BetweenCalls DEF Sound, Reachable, HomeBy, home
    <2> HIDE DEF a
    <2>4. Dist(t, a, s) \in Nat /\ Dist(t, a, r) \in Nat
      BY <2>1, <2>2, DistIs
    <2>5. Dist(t, a, r) > Dist(t, a, s)
      BY <2>3, <2>4
    <2> QED BY <2>5 DEF a
  <1>2. LoadBounded
    BY TableAt, BetweenCalls DEF LoadBounded
  <1>3. VacatedReleased
    BY TableAt DEF VacatedReleased, IsTable
  <1> QED BY <1>1, <1>2, <1>3, TypeAt DEF TableSound

\* For any keys, values, hash functions and initial capacity: at every step the
\* slots have their types and a quarter of them is vacant, vacant slots hold
\* nothing, and between calls the count is exact and no vacant slot lies on the
\* probe path to an entry (table.bni:16-20, 104-111, 188-194).
THEOREM Sounds == Spec => []TableSound
  BY Invariance, SoundAt, PTL

\* What the invariant says of the cursor.
LEMMA CursorAt == IInv => CursorExact
  <1> SUFFICES ASSUME IInv PROVE CursorExact
    OBVIOUS
  <1>1. CASE cursor = NoCursor
    BY <1>1 DEF NoCursor, CursorExact
  <1>2. CASE Following
    <2>1. cursor.seen \cap cursor.due = {}
      BY <1>2 DEF Following
    <2>2. \A s \in Used(t) : s >= cursor.at => Ident[t.keys[s]] \notin cursor.seen
      BY <1>2 DEF Following
    <2>3. ASSUME cursor.at = t.cap PROVE cursor.due = {}
      <3>1. \A s \in Used(t) : ~(s >= t.cap)
        <4>1. t.cap \in Nat
          BY TableAt DEF IsTable
        <4> QED BY <4>1 DEF Used, Slots
      <3> QED BY <3>1, <2>3, <1>2 DEF Following
    <2> QED BY <2>1, <2>2, <2>3 DEF CursorExact
  <1> QED BY <1>1, <1>2 DEF IInv

\* A cursor that nothing invalidated never yields an entry twice, and when it
\* is at the end it has yielded every entry that was live at Iter, whatever
\* Puts overwrote or added without growth (table.bni:235-238, 252-255).
THEOREM Cursors == Spec => []CursorExact
  BY Invariance, CursorAt, PTL

(***************************************************************************)
(* The table implements KeyedMap.  Its entries are those of a set S of     *)
(* slots of one backing: of old during a growth, else of t, without the    *)
(* gap during a removal.                                                   *)
(***************************************************************************)
SlotFor(tb, S, c) == CHOOSE s \in S : Ident[tb.keys[s]] = c

EntriesOf(tb, S) ==
  [c \in {Ident[tb.keys[s]] : s \in S} |->
     [key |-> tb.keys[SlotFor(tb, S, c)], val |-> tb.vals[SlotFor(tb, S, c)]]]

Backing == IF pc = "rehash" THEN old ELSE t
Live == Used(Backing) \ (IF pc = "shift" THEN {i} ELSE {})

\* The map that a state stands for, by its backing and the slots that count.
LEMMA EntriesAre ==
  /\ Entries = EntriesOf(Backing, Live)
  /\ Entries' = EntriesOf(Backing', Live')
  BY DEF Entries, EntriesOf, SlotFor, Backing, Live

\* Each slot of S is the entry of its key, when no other slot is.
EntryAt(m, tb, S) ==
  \A s \in S : /\ Ident[tb.keys[s]] \in DOMAIN m
               /\ m[Ident[tb.keys[s]]] = [key |-> tb.keys[s], val |-> tb.vals[s]]

\* A map of slots with distinct keys has exactly their entries.
LEMMA EntriesAt ==
  ASSUME NEW tb, NEW S, Distinct(tb, S)
  PROVE  /\ EntryAt(EntriesOf(tb, S), tb, S)
         /\ \A c \in DOMAIN EntriesOf(tb, S) : \E s \in S : Ident[tb.keys[s]] = c
         /\ EntriesOf(tb, S) = [c \in DOMAIN EntriesOf(tb, S) |-> EntriesOf(tb, S)[c]]
  <1>1. ASSUME NEW s \in S
        PROVE  /\ Ident[tb.keys[s]] \in DOMAIN EntriesOf(tb, S)
               /\ EntriesOf(tb, S)[Ident[tb.keys[s]]]
                    = [key |-> tb.keys[s], val |-> tb.vals[s]]
    <2>1. SlotFor(tb, S, Ident[tb.keys[s]]) = s
      BY DEF SlotFor, Distinct
    <2> QED BY <2>1 DEF EntriesOf
  <1>2. \A c \in DOMAIN EntriesOf(tb, S) : \E s \in S : Ident[tb.keys[s]] = c
    BY DEF EntriesOf
  <1>3. EntriesOf(tb, S) = [c \in DOMAIN EntriesOf(tb, S) |-> EntriesOf(tb, S)[c]]
    BY DEF EntriesOf
  <1> QED BY <1>1, <1>2, <1>3 DEF EntryAt

\* The entry of slot s is the entry of slot r.
Alike(tb, s, g, r) == g.keys[r] = tb.keys[s] /\ g.vals[r] = tb.vals[s]

\* Slots that hold the same entries are the same map.
LEMMA SameEntries ==
  ASSUME NEW tb, NEW S, NEW g, NEW R, Distinct(tb, S), Distinct(g, R),
         \A s \in S : \E r \in R : Alike(tb, s, g, r),
         \A r \in R : \E s \in S : Alike(tb, s, g, r)
  PROVE  EntriesOf(g, R) = EntriesOf(tb, S)
  <1> DEFINE m == EntriesOf(tb, S)
             q == EntriesOf(g, R)
  <1>1. /\ EntryAt(m, tb, S) /\ m = [c \in DOMAIN m |-> m[c]]
        /\ \A c \in DOMAIN m : \E s \in S : Ident[tb.keys[s]] = c
    BY EntriesAt
  <1>2. /\ EntryAt(q, g, R) /\ q = [c \in DOMAIN q |-> q[c]]
        /\ \A c \in DOMAIN q : \E r \in R : Ident[g.keys[r]] = c
    BY EntriesAt
  <1> HIDE DEF m, q
  <1>3. ASSUME NEW c \in DOMAIN m PROVE c \in DOMAIN q /\ q[c] = m[c]
    <2>1. PICK s \in S : Ident[tb.keys[s]] = c
      BY <1>1
    <2>2. PICK r \in R : Alike(tb, s, g, r)
      OBVIOUS
    <2>3. m[c] = [key |-> tb.keys[s], val |-> tb.vals[s]]
      BY <2>1, <1>1 DEF EntryAt
    <2>4. g.keys[r] = tb.keys[s] /\ g.vals[r] = tb.vals[s]
      BY <2>2 DEF Alike
    <2>5. /\ Ident[g.keys[r]] \in DOMAIN q
          /\ q[Ident[g.keys[r]]] = [key |-> g.keys[r], val |-> g.vals[r]]
      BY <2>2, <1>2 DEF EntryAt
    <2> QED BY <2>1, <2>3, <2>4, <2>5
  <1>4. ASSUME NEW c \in DOMAIN q PROVE c \in DOMAIN m
    <2>1. PICK r \in R : Ident[g.keys[r]] = c
      BY <1>2
    <2>2. PICK s \in S : Alike(tb, s, g, r)
      OBVIOUS
    <2> QED BY <2>1, <2>2, <1>1 DEF Alike, EntryAt
  <1>5. DOMAIN m = DOMAIN q
    BY <1>3, <1>4
  <1> QED BY <1>1, <1>2, <1>3, <1>5 DEF m, q

\* q is m with k put.
IsWith(q, m, k, v) ==
  q = [c \in DOMAIN m \cup {Ident[k]} |->
         IF c = Ident[k] THEN [key |-> k, val |-> v] ELSE m[c]]

\* Slots that hold the same entries but for the one of k, which one of them
\* holds, are the map with k put.
LEMMA EntriesWith ==
  ASSUME NEW tb, NEW S, NEW g, NEW R, NEW k, NEW v, Distinct(tb, S), Distinct(g, R),
         \E r \in R : g.keys[r] = k /\ g.vals[r] = v,
         \A s \in S : Ident[tb.keys[s]] = Ident[k] \/ \E r \in R : Alike(tb, s, g, r),
         \A r \in R : Ident[g.keys[r]] = Ident[k] \/ \E s \in S : Alike(tb, s, g, r)
  PROVE  IsWith(EntriesOf(g, R), EntriesOf(tb, S), k, v)
  <1> DEFINE m == EntriesOf(tb, S)
             q == EntriesOf(g, R)
  <1>1. /\ EntryAt(m, tb, S)
        /\ \A c \in DOMAIN m : \E s \in S : Ident[tb.keys[s]] = c
    BY EntriesAt
  <1>2. /\ EntryAt(q, g, R) /\ q = [c \in DOMAIN q |-> q[c]]
        /\ \A c \in DOMAIN q : \E r \in R : Ident[g.keys[r]] = c
    BY EntriesAt
  <1> HIDE DEF m, q
  <1>3. Ident[k] \in DOMAIN q /\ q[Ident[k]] = [key |-> k, val |-> v]
    <2>1. PICK r \in R : g.keys[r] = k /\ g.vals[r] = v
      OBVIOUS
    <2> QED BY <2>1, <1>2 DEF EntryAt
  <1>4. ASSUME NEW c \in DOMAIN m, c # Ident[k] PROVE c \in DOMAIN q /\ q[c] = m[c]
    <2>1. PICK s \in S : Ident[tb.keys[s]] = c
      BY <1>1
    <2>2. PICK r \in R : Alike(tb, s, g, r)
      BY <2>1, <1>4
    <2>3. m[c] = [key |-> tb.keys[s], val |-> tb.vals[s]]
      BY <2>1, <1>1 DEF EntryAt
    <2>4. g.keys[r] = tb.keys[s] /\ g.vals[r] = tb.vals[s]
      BY <2>2 DEF Alike
    <2>5. /\ Ident[g.keys[r]] \in DOMAIN q
          /\ q[Ident[g.keys[r]]] = [key |-> g.keys[r], val |-> g.vals[r]]
      BY <2>2, <1>2 DEF EntryAt
    <2> QED BY <2>1, <2>3, <2>4, <2>5
  <1>5. ASSUME NEW c \in DOMAIN q, c # Ident[k] PROVE c \in DOMAIN m
    <2>1. PICK r \in R : Ident[g.keys[r]] = c
      BY <1>2
    <2>2. PICK s \in S : Alike(tb, s, g, r)
      BY <2>1, <1>5
    <2> QED BY <2>1, <2>2, <1>1 DEF Alike, EntryAt
  <1>6. DOMAIN q = DOMAIN m \cup {Ident[k]}
    BY <1>3, <1>4, <1>5
  <1>7. \A c \in DOMAIN q : q[c] = IF c = Ident[k] THEN [key |-> k, val |-> v] ELSE m[c]
    BY <1>3, <1>4, <1>6
  <1>8. IsWith(q, m, k, v)
    BY <1>2, <1>6, <1>7 DEF IsWith
  <1> QED BY <1>8 DEF m, q

\* q is m without c.
IsWithout(q, m, c) == q = [x \in DOMAIN m \ {c} |-> m[x]]

\* Without one of its slots, S is the map without that slot's key.
LEMMA EntriesWithout ==
  ASSUME NEW tb, NEW S, NEW s \in S, Distinct(tb, S)
  PROVE  \A R : R = S \ {s} => IsWithout(EntriesOf(tb, R), EntriesOf(tb, S), Ident[tb.keys[s]])
  <1> DEFINE m == EntriesOf(tb, S)
             R == S \ {s}
             q == EntriesOf(tb, R)
  <1>1. Distinct(tb, R)
    BY DEF Distinct
  <1>2. /\ EntryAt(m, tb, S)
        /\ \A c \in DOMAIN m : \E x \in S : Ident[tb.keys[x]] = c
    BY EntriesAt
  <1> HIDE DEF R
  <1>3. /\ EntryAt(q, tb, R) /\ q = [c \in DOMAIN q |-> q[c]]
        /\ \A c \in DOMAIN q : \E x \in R : Ident[tb.keys[x]] = c
    BY <1>1, EntriesAt
  <1> HIDE DEF m, q
  <1>4. ASSUME NEW x \in R
        PROVE  /\ Ident[tb.keys[x]] \in DOMAIN m \ {Ident[tb.keys[s]]}
               /\ q[Ident[tb.keys[x]]] = m[Ident[tb.keys[x]]]
    BY <1>2, <1>3 DEF R, EntryAt, Distinct
  <1>5. ASSUME NEW c \in DOMAIN m, c # Ident[tb.keys[s]] PROVE c \in DOMAIN q
    <2>1. PICK x \in S : Ident[tb.keys[x]] = c
      BY <1>2
    <2>2. x \in R
      BY <2>1, <1>5 DEF R
    <2> QED BY <2>1, <2>2, <1>3 DEF EntryAt
  <1>6. DOMAIN q = DOMAIN m \ {Ident[tb.keys[s]]} /\ \A c \in DOMAIN q : q[c] = m[c]
    BY <1>3, <1>4, <1>5
  <1>7. IsWithout(q, m, Ident[tb.keys[s]])
    BY <1>3, <1>6 DEF IsWithout
  <1> QED BY <1>7 DEF m, q, R

\* The map between calls, and when a call starts from there.
LEMMA IdleMap ==
  ASSUME IInv, pc = "idle"
  PROVE  /\ Entries = EntriesOf(t, Used(t)) /\ Distinct(t, Used(t))
         /\ EntryAt(Entries, t, Used(t)) /\ DOMAIN Entries = Idents(t)
         /\ Entries = [c \in DOMAIN Entries |-> Entries[c]]
  <1>1. Distinct(t, Used(t))
    BY BetweenCalls DEF Sound
  <1>2. Backing = t /\ Live = Used(t)
    BY DEF Backing, Live
  <1>3. Entries = EntriesOf(t, Used(t))
    BY <1>2, EntriesAre
  <1>4. DOMAIN EntriesOf(t, Used(t)) = Idents(t)
    BY DEF EntriesOf, Idents
  <1> QED BY <1>1, <1>3, <1>4, EntriesAt

\* An idle table stands for its used slots.
LEMMA IdleMapAfter ==
  ASSUME IInv', pc' = "idle"
  PROVE  Entries' = EntriesOf(t', Used(t')) /\ Distinct(t', Used(t'))
  <1>1. Distinct(t', Used(t'))
    BY DEF IInv, Idle, Sound
  <1>2. Backing' = t' /\ Live' = Used(t')
    BY DEF Backing, Live
  <1> QED BY <1>1, <1>2, EntriesAre

\* A new table is the empty map.
LEMMA InitRefines == Init => Abstract!Init
  <1> SUFFICES ASSUME Init PROVE Abstract!Init
    OBVIOUS
  <1>1. ret = <<NoVal, FALSE>> /\ pc = "idle" /\ t = NewTable(InitialCap)
    BY DEF Init, Nothing
  <1>2. Used(t) = {}
    BY <1>1 DEF Used, Slots, NewTable
  <1>3. Entries = EntriesOf(t, Used(t))
    BY InitIInv, IdleMap, <1>1
  <1>4. EntriesOf(t, Used(t)) = [c \in {} |-> 0]
    BY <1>2 DEF EntriesOf
  <1> QED BY <1>1, <1>3, <1>4 DEF Abstract!Init

\* A step that changes neither the entries nor what was returned.
LEMMA StutterRefines ==
  ASSUME Backing' = Backing, Live' = Live, ret' = ret
  PROVE  UNCHANGED Abstract!vars
  BY EntriesAre DEF Abstract!vars

\* The key of an entry, and no other, is in the map.
LEMMA HasIff ==
  ASSUME IInv, pc = "idle", NEW k
  PROVE  /\ Abstract!Has(k) <=> Ident[k] \in Idents(t)
         /\ \A s \in Used(t) : Ident[t.keys[s]] = Ident[k] =>
              Abstract!Has(k) = TRUE /\ Abstract!Found(k) = <<t.vals[s], TRUE>>
         /\ ~Abstract!Has(k) => Abstract!Has(k) = FALSE
  <1>1. EntryAt(Entries, t, Used(t)) /\ DOMAIN Entries = Idents(t)
    BY IdleMap
  <1>2. Abstract!Has(k) <=> Ident[k] \in Idents(t)
    BY <1>1 DEF Abstract!Has
  <1>3. ASSUME NEW s \in Used(t), Ident[t.keys[s]] = Ident[k]
        PROVE  Abstract!Has(k) = TRUE /\ Abstract!Found(k) = <<t.vals[s], TRUE>>
    <2>1. /\ Ident[k] \in DOMAIN Entries
          /\ Entries[Ident[k]] = [key |-> t.keys[s], val |-> t.vals[s]]
      BY <1>1, <1>3 DEF EntryAt
    <2>2. Abstract!Has(k) = TRUE
      BY <2>1 DEF Abstract!Has
    <2>3. Abstract!Found(k) = <<Entries[Ident[k]].val, TRUE>>
      BY <2>2 DEF Abstract!Found
    <2> QED BY <2>1, <2>2, <2>3
  <1>4. ~Abstract!Has(k) => Abstract!Has(k) = FALSE
    BY DEF Abstract!Has
  <1> QED BY <1>2, <1>3, <1>4

\* Get looks the key up in the map.
LEMMA GetRefines ==
  ASSUME IInv, NEW k \in Keys, Get(k)
  PROVE  Abstract!Get(k)
  <1>1. pc = "idle" /\ UNCHANGED <<h, t, pc, old, i, j, adding, cursor>>
    BY GetCases DEF Get
  <1>2. Entries' = Entries
    <2>1. Backing' = Backing /\ Live' = Live
      BY <1>1 DEF Backing, Live
    <2> QED BY <2>1, EntriesAre
  <1>3. CASE \E s \in Used(t) : Ident[t.keys[s]] = Ident[k] /\ ret' = <<t.vals[s], TRUE>>
    <2>1. ret' = Abstract!Found(k)
      BY <1>1, <1>3, HasIff
    <2> QED BY <2>1, <1>2 DEF Abstract!Get
  <1>4. CASE Ident[k] \notin Idents(t) /\ ret' = Nothing
    <2>1. ~Abstract!Has(k)
      BY <1>1, <1>4, HasIff
    <2>2. ret' = Abstract!Found(k)
      BY <2>1, <1>4 DEF Abstract!Found, Nothing
    <2> QED BY <2>2, <1>2 DEF Abstract!Get
  <1> QED BY <1>3, <1>4, GetCases

\* Remove begins: the map has lost the key, or it was not there.
LEMMA RemoveRefines ==
  ASSUME IInv, IInv', NEW k \in Keys, Remove(k)
  PROVE  Abstract!Remove(k)
  <1>1. pc = "idle" /\ UNCHANGED <<h, t, old, adding>>
    BY RemoveCases
  <1>2. /\ Entries = EntriesOf(t, Used(t)) /\ Distinct(t, Used(t))
        /\ DOMAIN Entries = Idents(t)
        /\ Entries = [c \in DOMAIN Entries |-> Entries[c]]
    BY <1>1, IdleMap
  <1>3. ASSUME NEW s \in Used(t), Ident[t.keys[s]] = Ident[k], ret' = <<NoVal, TRUE>>,
               pc' = "shift", i' = s
        PROVE  Abstract!Remove(k)
    <2>1. Backing' = t /\ Live' = Used(t) \ {s}
      BY <1>1, <1>3 DEF Backing, Live, Used, Slots
    <2>2. PICK S : S = Used(t)
      OBVIOUS
    <2>3. PICK R : R = S \ {s}
      OBVIOUS
    <2>4. Entries' = EntriesOf(t, R) /\ Entries = EntriesOf(t, S)
      BY <2>1, <2>2, <2>3, <1>2, EntriesAre
    <2>5. s \in S /\ Distinct(t, S)
      BY <2>2, <1>2
    <2>6. IsWithout(EntriesOf(t, R), EntriesOf(t, S), Ident[t.keys[s]])
      BY <2>3, <2>5, EntriesWithout
    <2>7. Entries' = [c \in DOMAIN Entries \ {Ident[k]} |-> Entries[c]]
      BY <2>4, <2>6, <1>3 DEF IsWithout
    <2>8. Abstract!Has(k) = TRUE
      BY <1>1, <1>3, HasIff
    <2> QED BY <2>7, <2>8, <1>3 DEF Abstract!Remove
  <1>4. ASSUME Ident[k] \notin Idents(t), ret' = <<NoVal, FALSE>>, UNCHANGED <<pc, i>>
        PROVE  Abstract!Remove(k)
    <2>1. Entries' = Entries
      <3>1. Backing' = Backing /\ Live' = Live
        BY <1>1, <1>4 DEF Backing, Live
      <3> QED BY <3>1, EntriesAre
    <2>2. Abstract!Has(k) = FALSE
      BY <1>1, <1>4, HasIff
    <2>3. DOMAIN Entries \ {Ident[k]} = DOMAIN Entries
      BY <1>2, <1>4
    <2>4. Entries' = [c \in DOMAIN Entries \ {Ident[k]} |-> Entries[c]]
      BY <2>1, <2>3, <1>2
    <2> QED BY <2>2, <2>4, <1>4 DEF Abstract!Remove
  <1> QED BY <1>3, <1>4, RemoveCases

\* Adding an absent key puts it, and opening a growth changes no entry yet.
LEMMA InsertAbsentRefines ==
  ASSUME IInv, IInv', pc = "idle", h' = h, NEW k \in Keys, NEW v \in Vals, NEW r,
         Ident[k] \notin Idents(t), insertAbsent(k, v, r)
  PROVE  \/ Entries' = Abstract!With(k, v) /\ ret' = r
         \/ UNCHANGED Abstract!vars
  <1>1. Entries = EntriesOf(t, Used(t)) /\ Distinct(t, Used(t))
    BY IdleMap
  <1>2. ASSUME NEW s, Added(t', t, k, v, s), pc' = pc
        PROVE  Entries' = Abstract!With(k, v)
    <2>1. Entries' = EntriesOf(t', Used(t')) /\ Distinct(t', Used(t'))
      BY <1>2, IdleMapAfter
    <2>2. /\ \E x \in Used(t') : t'.keys[x] = k /\ t'.vals[x] = v
          /\ \A x \in Used(t) : \E y \in Used(t') : Alike(t, x, t', y)
          /\ \A y \in Used(t') : Ident[t'.keys[y]] = Ident[k]
                                 \/ \E x \in Used(t) : Alike(t, x, t', y)
      BY <1>2 DEF Added, Alike
    <2>3. IsWith(EntriesOf(t', Used(t')), EntriesOf(t, Used(t)), k, v)
      BY <2>1, <2>2, <1>1, EntriesWith
    <2> QED BY <2>1, <2>3, <1>1 DEF Abstract!With, IsWith
  <1>3. ASSUME pc' = "rehash", old' = t, ret' = ret
        PROVE  UNCHANGED Abstract!vars
    <2>1. Backing' = t /\ Live' = Used(t)
      BY <1>3 DEF Backing, Live, Used, Slots
    <2>2. Entries' = Entries
      BY <2>1, <1>1, EntriesAre
    <2> QED BY <2>2, <1>3 DEF Abstract!vars
  <1> QED BY <1>2, <1>3, InsertAbsentCases

\* Put writes the map, at once or when the table has grown.
LEMMA PutRefines ==
  ASSUME IInv, IInv', NEW k, NEW v, <<k, v>> \in Stored, Put(k, v)
  PROVE  Abstract!Put(k, v) \/ UNCHANGED Abstract!vars
  <1>1. pc = "idle" /\ k \in Keys /\ v \in Vals
    BY StoredPair DEF Put
  <1>2. Entries = EntriesOf(t, Used(t)) /\ Distinct(t, Used(t))
    BY <1>1, IdleMap
  <1>3. ASSUME NEW s \in Used(t), Ident[t.keys[s]] = Ident[k], Rewritten(t', t, k, v, s),
               ret' = Nothing, pc' = pc
        PROVE  Abstract!Put(k, v)
    <2>1. Entries' = EntriesOf(t', Used(t')) /\ Distinct(t', Used(t'))
      BY <1>1, <1>3, IdleMapAfter
    <2>2. /\ Used(t') = Used(t) /\ t'.keys[s] = k /\ t'.vals[s] = v
          /\ \A r \in Used(t) : r # s => Alike(t, r, t', r)
      BY <1>3 DEF Rewritten, Alike, Used
    <2>3. /\ \E x \in Used(t') : t'.keys[x] = k /\ t'.vals[x] = v
          /\ \A x \in Used(t) : Ident[t.keys[x]] = Ident[k]
                                \/ \E y \in Used(t') : Alike(t, x, t', y)
          /\ \A y \in Used(t') : Ident[t'.keys[y]] = Ident[k]
                                 \/ \E x \in Used(t) : Alike(t, x, t', y)
      BY <2>2, <1>3
    <2>4. IsWith(EntriesOf(t', Used(t')), EntriesOf(t, Used(t)), k, v)
      BY <2>1, <2>3, <1>2, EntriesWith
    <2>5. Entries' = Abstract!With(k, v)
      BY <2>1, <2>4, <1>2 DEF Abstract!With, IsWith
    <2> QED BY <2>5, <1>3 DEF Abstract!Put, Nothing
  <1>4. ASSUME Ident[k] \notin Idents(t), insertAbsent(k, v, Nothing), h' = h
        PROVE  Abstract!Put(k, v) \/ UNCHANGED Abstract!vars
    <2>1. (Entries' = Abstract!With(k, v) /\ ret' = Nothing) \/ UNCHANGED Abstract!vars
      BY <1>1, <1>4, InsertAbsentRefines
    <2> QED BY <2>1 DEF Abstract!Put, Nothing
  <1> QED BY <1>3, <1>4, PutCases

\* GetOrPut reads the map, or writes it at once or when the table has grown.
LEMMA GetOrPutRefines ==
  ASSUME IInv, IInv', NEW k, NEW v, <<k, v>> \in Stored, GetOrPut(k, v)
  PROVE  Abstract!GetOrPut(k, v) \/ UNCHANGED Abstract!vars
  <1>1. pc = "idle" /\ k \in Keys /\ v \in Vals
    BY StoredPair DEF GetOrPut
  <1>2. ASSUME NEW s \in Used(t), Ident[t.keys[s]] = Ident[k], ret' = <<t.vals[s], TRUE>>,
               UNCHANGED <<t, pc, old, i>>
        PROVE  Abstract!GetOrPut(k, v)
    <2>1. Entries' = Entries
      <3>1. Backing' = Backing /\ Live' = Live
        BY <1>2 DEF Backing, Live
      <3> QED BY <3>1, EntriesAre
    <2>2. Abstract!Has(k) /\ ret' = Abstract!Found(k)
      BY <1>1, <1>2, HasIff
    <2> QED BY <2>1, <2>2 DEF Abstract!GetOrPut
  <1>3. ASSUME Ident[k] \notin Idents(t), insertAbsent(k, v, <<v, FALSE>>), h' = h
        PROVE  Abstract!GetOrPut(k, v) \/ UNCHANGED Abstract!vars
    <2>1. ~Abstract!Has(k)
      BY <1>1, <1>3, HasIff
    <2> DEFINE r == <<v, FALSE>>
    <2>2. insertAbsent(k, v, r)
      BY <1>3
    <2> HIDE DEF r
    <2>3. (Entries' = Abstract!With(k, v) /\ ret' = r) \/ UNCHANGED Abstract!vars
      BY <2>2, <1>1, <1>3, InsertAbsentRefines
    <2> QED BY <2>1, <2>3 DEF Abstract!GetOrPut, r
  <1> QED BY <1>2, <1>3, GetOrPutCases

\* The end of a growth is when the pending Put or GetOrPut takes effect.
LEMMA InsertGrownRefines ==
  ASSUME IInv, IInv', InsertGrown
  PROVE  \E p \in Stored : Abstract!Put(p[1], p[2]) \/ Abstract!GetOrPut(p[1], p[2])
  <1> DEFINE k == adding.key
             v == adding.val
  <1>1. /\ Growing /\ Moved = Used(old) /\ pc = "rehash"
        /\ ret' = adding.ret /\ pc' = "idle"
    BY InsertGrownCases DEF InsertGrown
  <1>2. PICK s : Added(t', t, k, v, s)
    BY InsertGrownCases
  <1>3. /\ Distinct(old, Used(old)) /\ <<k, v>> \in Stored
        /\ adding.ret \in {Nothing, <<v, FALSE>>} /\ Ident[k] \notin Idents(old)
        /\ \A x \in Used(t) : \E y \in Used(old) : Alike(old, y, t, x)
        /\ \A y \in Used(old) : \E x \in Used(t) : Alike(old, y, t, x)
    BY <1>1 DEF Growing, Sound, Moved, Alike
  <1> HIDE DEF k, v
  <1>4. Entries = EntriesOf(old, Used(old))
    <2>1. Backing = old /\ Live = Used(old)
      BY <1>1 DEF Backing, Live
    <2> QED BY <2>1, EntriesAre
  <1>5. Entries' = EntriesOf(t', Used(t')) /\ Distinct(t', Used(t'))
    BY <1>1, IdleMapAfter
  <1>6. /\ Used(t') = Used(t) \cup {s} /\ t'.keys[s] = k /\ t'.vals[s] = v
        /\ \A x \in Used(t) : Alike(t, x, t', x)
    BY <1>2 DEF Added, Alike
  <1>7. \A y \in Used(old) : \E x \in Used(t') : Alike(old, y, t', x)
    <2> SUFFICES ASSUME NEW y \in Used(old) PROVE \E x \in Used(t') : Alike(old, y, t', x)
      OBVIOUS
    <2>1. PICK x \in Used(t) : Alike(old, y, t, x)
      BY <1>3
    <2>2. x \in Used(t') /\ Alike(old, y, t', x)
      BY <2>1, <1>6 DEF Alike
    <2> QED BY <2>2
  <1>8. \A x \in Used(t') : Ident[t'.keys[x]] = Ident[k]
                            \/ \E y \in Used(old) : Alike(old, y, t', x)
    <2> SUFFICES ASSUME NEW x \in Used(t), Ident[t'.keys[x]] # Ident[k]
                 PROVE  \E y \in Used(old) : Alike(old, y, t', x)
      BY <1>6
    <2>1. PICK y \in Used(old) : Alike(old, y, t, x)
      BY <1>3
    <2>2. Alike(old, y, t', x)
      BY <2>1, <1>6 DEF Alike
    <2> QED BY <2>2
  <1>9. \E x \in Used(t') : t'.keys[x] = k /\ t'.vals[x] = v
    BY <1>6
  <1>10. IsWith(EntriesOf(t', Used(t')), EntriesOf(old, Used(old)), k, v)
    BY <1>3, <1>5, <1>7, <1>8, <1>9, EntriesWith
  <1>11. Entries' = Abstract!With(k, v)
    BY <1>4, <1>5, <1>10 DEF Abstract!With, IsWith
  <1>12. ~Abstract!Has(k)
    <2>1. DOMAIN EntriesOf(old, Used(old)) = Idents(old)
      BY DEF EntriesOf, Idents
    <2> QED BY <2>1, <1>3, <1>4 DEF Abstract!Has
  <1>13. Abstract!Put(k, v) \/ Abstract!GetOrPut(k, v)
    <2>1. CASE adding.ret = Nothing
      BY <2>1, <1>1, <1>11 DEF Abstract!Put, Nothing
    <2>2. CASE adding.ret = <<v, FALSE>>
      BY <2>2, <1>1, <1>11, <1>12 DEF Abstract!GetOrPut
    <2> QED BY <2>1, <2>2, <1>3
  <1> DEFINE p == <<k, v>>
  <1>14. p \in Stored /\ p[1] = k /\ p[2] = v
    BY <1>3
  <1> HIDE DEF p
  <1> QED BY <1>13, <1>14

\* The shift moves an entry into the gap and the gap to where it was, so the
\* slots but the gap hold the same entries.
LEMMA ShiftRefines ==
  ASSUME IInv, Shift
  PROVE  UNCHANGED Abstract!vars
  <1> DEFINE n == (j + 1) % t.cap
  <1>1. /\ pc = "shift" /\ Shifting /\ n \in Used(t) \ {i}
        /\ UNCHANGED <<h, pc, old, adding, ret, cursor>>
        /\ \/ UNCHANGED <<t, i>>
           \/ Rewritten(t', t, t.keys[n], t.vals[n], i) /\ i' = n
    BY ShiftCases
  <1>2. i \in Used(t)
    BY <1>1, ShiftingAhead
  <1> HIDE DEF n
  <1>3. CASE UNCHANGED <<t, i>>
    <2>1. Backing' = Backing /\ Live' = Live /\ ret' = ret
      BY <1>1, <1>3 DEF Backing, Live
    <2> QED BY <2>1, StutterRefines
  <1>4. CASE Rewritten(t', t, t.keys[n], t.vals[n], i) /\ i' = n
    <2>1. PICK S : S = Used(t) \ {i}
      OBVIOUS
    <2>2. PICK R : R = Used(t) \ {n}
      OBVIOUS
    <2>3. /\ Used(t') = Used(t) /\ Alike(t, n, t', i)
          /\ \A s \in Used(t) : s # i => Alike(t, s, t', s)
      BY <1>4 DEF Rewritten, Alike, Used
    <2>4. Backing = t /\ Live = S /\ Backing' = t' /\ Live' = R
      BY <2>1, <2>2, <2>3, <1>1, <1>4 DEF Backing, Live
    <2>5. Distinct(t, S)
      BY <2>1, <1>1 DEF Shifting
    <2>6. \A s \in S : \E r \in R : Alike(t, s, t', r)
      BY <2>1, <2>2, <2>3, <1>1, <1>2
    <2>7. \A r \in R : \E s \in S : Alike(t, s, t', r)
      BY <2>1, <2>2, <2>3, <1>1, <1>2
    <2>8. Distinct(t', R)
      <3> SUFFICES ASSUME NEW x \in R, NEW y \in R, Ident[t'.keys[x]] = Ident[t'.keys[y]]
                   PROVE  x = y
        BY DEF Distinct
      <3>1. ASSUME NEW r \in R
            PROVE  /\ r = i => Alike(t, n, t', r)
                   /\ r # i => r \in S /\ Alike(t, r, t', r)
        BY <2>1, <2>2, <2>3
      <3>2. n \in S
        BY <2>1, <1>1
      <3>3. CASE x = i /\ y # i
        BY <3>1, <3>2, <3>3, <2>2, <2>5 DEF Alike, Distinct
      <3>4. CASE x # i /\ y = i
        BY <3>1, <3>2, <3>4, <2>2, <2>5 DEF Alike, Distinct
      <3>5. CASE x # i /\ y # i
        BY <3>1, <3>5, <2>5 DEF Alike, Distinct
      <3> QED BY <3>3, <3>4, <3>5
    <2>9. EntriesOf(t', R) = EntriesOf(t, S)
      BY <2>5, <2>6, <2>7, <2>8, SameEntries
    <2>10. Entries' = Entries
      BY <2>4, <2>9, EntriesAre
    <2> QED BY <2>10, <1>1 DEF Abstract!vars
  <1> QED BY <1>1, <1>3, <1>4

\* The end of a shift leaves the map as it is.
LEMMA ShiftEndRefines ==
  ASSUME IInv, ShiftEnd
  PROVE  UNCHANGED Abstract!vars
  <1>1. /\ pc = "shift" /\ Emptied(t', t, i) /\ Sound(h, t') /\ pc' = "idle" /\ ret' = ret
    BY ShiftEndCases
  <1>2. PICK S : S = Used(t')
    OBVIOUS
  <1>3. /\ S = Used(t) \ {i} /\ \A s \in S : Alike(t, s, t', s)
    BY <1>1, <1>2 DEF Emptied, Alike, Used
  <1>4. Backing = t /\ Live = S /\ Backing' = t' /\ Live' = S
    BY <1>1, <1>2, <1>3 DEF Backing, Live
  <1>5. Distinct(t', S)
    BY <1>1, <1>2 DEF Sound
  <1>6. Distinct(t, S)
    BY <1>3, <1>5 DEF Distinct, Alike
  <1>7. EntriesOf(t', S) = EntriesOf(t, S)
    BY <1>3, <1>5, <1>6, SameEntries
  <1>8. Entries' = Entries
    BY <1>4, <1>7, EntriesAre
  <1> QED BY <1>1, <1>8 DEF Abstract!vars

\* Every step of the table is one of the map, or leaves it as it is.
LEMMA NextRefines ==
  ASSUME IInv, IInv', [Next]_vars
  PROVE  [Abstract!Next]_(Abstract!vars)
  <1>1. ASSUME NEW k \in Keys, Get(k) \/ Remove(k) PROVE Abstract!Next
    BY <1>1, GetRefines, RemoveRefines DEF Abstract!Next
  <1>2. ASSUME NEW p \in Stored, Put(p[1], p[2]) \/ GetOrPut(p[1], p[2])
        PROVE  Abstract!Next \/ UNCHANGED Abstract!vars
    <2>1. p = <<p[1], p[2]>>
      BY TableAssumption
    <2>2. <<p[1], p[2]>> \in Stored
      BY <2>1
    <2>3. \/ Abstract!Put(p[1], p[2]) \/ Abstract!GetOrPut(p[1], p[2])
          \/ UNCHANGED Abstract!vars
      BY <2>2, <1>2, PutRefines, GetOrPutRefines
    <2> QED BY <2>3 DEF Abstract!Next
  <1>3. CASE Rehash
    <2>1. Backing' = Backing /\ Live' = Live /\ ret' = ret
      BY <1>3 DEF Rehash, Backing, Live
    <2> QED BY <2>1, StutterRefines
  <1>4. CASE InsertGrown
    BY <1>4, InsertGrownRefines DEF Abstract!Next
  <1>5. CASE Shift \/ ShiftEnd
    BY <1>5, ShiftRefines, ShiftEndRefines
  <1>6. CASE Iter \/ CursorNext
    <2>1. UNCHANGED <<t, pc, old, i, ret>>
      BY <1>6 DEF Iter, CursorNext, locals
    <2>2. Backing' = Backing /\ Live' = Live /\ ret' = ret
      BY <2>1 DEF Backing, Live
    <2> QED BY <2>2, StutterRefines
  <1>7. CASE UNCHANGED vars
    <2>1. UNCHANGED <<t, pc, old, i, ret>>
      BY <1>7 DEF vars
    <2>2. Backing' = Backing /\ Live' = Live /\ ret' = ret
      BY <2>1 DEF Backing, Live
    <2> QED BY <2>2, StutterRefines
  <1> QED BY <1>1, <1>2, <1>3, <1>4, <1>5, <1>6, <1>7 DEF Next

\* The table implements KeyedMap: what Get and GetOrPut return, what Remove
\* takes out and which key object stays are those of a map with one entry per
\* key, whatever was shifted or re-inserted in between.
THEOREM Implements == Spec => ImplementsKeyedMap
  <1>1. IInv /\ IInv' /\ [Next]_vars => [Abstract!Next]_(Abstract!vars)
    BY NextRefines
  <1> QED BY <1>1, InitRefines, Invariance, PTL
          DEF Spec, ImplementsKeyedMap, Abstract!Spec
============================================================================
