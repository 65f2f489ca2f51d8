-------------------------- MODULE ConfigStoreProofs --------------------------
(***************************************************************************)
(* Theorems about ConfigStore, for any editors, names, values and number   *)
(* of edits.                                                               *)
(***************************************************************************)
EXTENDS ConfigStore, FiniteSetTheorems, TLAPS

-----------------------------------------------------------------------------
(* Lists of data sources.                                                  *)

Ranking(kept) == [i \in kept |-> Cardinality({k \in kept : k <= i})]

\* The elements of a set of indices are numbered by their rank, in their order.
LEMMA Ranks ==
    ASSUME NEW n \in Nat, NEW kept \in SUBSET (1..n)
    PROVE  /\ Cardinality(kept) \in Nat
           /\ Ranking(kept) \in [kept -> 1..Cardinality(kept)]
           /\ \A i, j \in kept : i < j => Ranking(kept)[i] < Ranking(kept)[j]
           /\ \A r \in 1..Cardinality(kept) : \E i \in kept : Ranking(kept)[i] = r
  <1> DEFINE Upto(i) == {k \in kept : k <= i}
             N == Cardinality(kept)
             rank == Ranking(kept)
  <1>0. IsFiniteSet(1..n) /\ \A i \in kept : i \in Nat
    BY FS_Interval
  <1>1. IsFiniteSet(kept) /\ N \in Nat
    BY <1>0, FS_Subset, FS_CardinalityType
  <1>2. \A i \in kept : /\ IsFiniteSet(Upto(i)) /\ Cardinality(Upto(i)) \in Nat
                        /\ Cardinality(Upto(i)) <= N
    BY <1>1, FS_Subset, FS_CardinalityType
  <1>3. \A i \in kept : Cardinality(Upto(i)) # 0
    <2>1. \A i \in kept : i \in Upto(i)
      BY <1>0
    <2> HIDE DEF Upto
    <2> QED BY <1>2, <2>1, FS_EmptySet
  <1>4. \A i \in kept : rank[i] = Cardinality(Upto(i))
    BY DEF Ranking
  <1>5. rank \in [kept -> 1..N]
    <2> HIDE DEF Upto, N
    <2>1. \A i \in kept : rank[i] \in 1..N
      BY <1>1, <1>2, <1>3, <1>4
    <2>2. rank = [i \in kept |-> rank[i]]
      BY DEF Ranking
    <2> QED BY <2>1, <2>2
  <1>6. ASSUME NEW i \in kept, NEW j \in kept, i < j
        PROVE  rank[i] < rank[j]
    <2>1. i \in Nat /\ j \in Nat /\ \A k \in Nat : k <= i => k <= j
      BY <1>0, <1>6
    <2>2. Upto(i) \subseteq Upto(j) /\ j \in Upto(j) /\ j \notin Upto(i)
      <3>1. j <= j /\ ~(j <= i)
        BY <1>6, <2>1
      <3> QED BY <1>0, <2>1, <3>1, Zenon
    <2> HIDE DEF Upto, rank
    <2>3. Cardinality(Upto(i)) <= Cardinality(Upto(j)) /\ Cardinality(Upto(i)) # Cardinality(Upto(j))
      BY <1>2, <2>2, FS_Subset
    <2> QED BY <1>2, <1>4, <2>3
  <1> HIDE DEF N, Upto, rank
  <1>7. rank \in Injection(kept, 1..N)
    <2>1. \A i, j \in kept : rank[i] = rank[j] => i = j
      <3>1. \A i, j \in kept : rank[i] \in Nat /\ (i = j \/ i < j \/ j < i)
        BY <1>0, <1>1, <1>5
      <3> QED BY <1>6, <3>1
    <2> QED BY <1>5, <2>1 DEF Injection, IsInjective
  <1>8. rank \in Surjection(kept, 1..N)
    <2>1. IsFiniteSet(1..N) /\ Cardinality(1..N) = N
      BY <1>1, FS_Interval
    <2> QED BY <1>7, <2>1, FS_Injection DEF N
  <1>9. \A r \in 1..N : \E i \in kept : rank[i] = r
    BY <1>8 DEF Surjection
  <1> QED BY <1>1, <1>5, <1>6, <1>9 DEF N, rank

\* A set of indices that is not empty has a least one.
LEMMA LeastIndex ==
    ASSUME NEW n \in Nat, NEW kept \in SUBSET (1..n), kept # {}
    PROVE  \E i \in kept : \A k \in kept : i <= k
  <1> DEFINE rank == Ranking(kept)
  <1>2. /\ Cardinality(kept) \in Nat
        /\ rank \in [kept -> 1..Cardinality(kept)]
        /\ \A i, j \in kept : i < j => rank[i] < rank[j]
        /\ \A r \in 1..Cardinality(kept) : \E i \in kept : rank[i] = r
    BY Ranks
  <1> HIDE DEF rank
  <1>3. 1 \in 1..Cardinality(kept)
    <2>1. PICK k \in kept : rank[k] \in 1..Cardinality(kept)
      BY <1>2
    <2> QED BY <1>2, <2>1
  <1>4. PICK i \in kept : rank[i] = 1
    BY <1>2, <1>3
  <1>5. ASSUME NEW k \in kept PROVE i <= k
    <2>1. i \in Nat /\ k \in Nat /\ rank[k] \in 1..Cardinality(kept)
      BY <1>2
    <2> QED BY <1>2, <1>4, <2>1
  <1> QED BY <1>5

-----------------------------------------------------------------------------
Lists == Seq(DataSource)

\* Index i is the first with that name.
Foremost(s, name, i) ==
    /\ i \in DOMAIN s /\ s[i].name = name
    /\ \A k \in DOMAIN s : s[k].name = name => i <= k

\* What FindDataSource returns: that of the first index, if there is one.
LEMMA Found ==
    ASSUME NEW c, NEW name, c.sources \in Lists
    PROVE  /\ \A i : Foremost(c.sources, name, i) => Lookup(c, name) = c.sources[i].val
           /\ (\A i \in DOMAIN c.sources : c.sources[i].name # name) => Lookup(c, name) = "absent"
           /\ \/ \A i \in DOMAIN c.sources : c.sources[i].name # name
              \/ \E i : Foremost(c.sources, name, i)
  <1> DEFINE Named == {i \in 1..Len(c.sources) : c.sources[i].name = name}
  <1>1. DOMAIN c.sources = 1..Len(c.sources) /\ Len(c.sources) \in Nat
    BY DEF Lists
  <1>2. ASSUME NEW i, Foremost(c.sources, name, i)
        PROVE  Lookup(c, name) = c.sources[i].val
    <2>1. i \in Named /\ \A k \in Named : i <= k
      BY <1>1, <1>2 DEF Foremost
    <2>2. Min(Named) = i
      <3>1. \A k \in Named : (\A l \in Named : k <= l) => k = i
        BY <1>1, <2>1
      <3> HIDE DEF Named
      <3> QED BY <2>1, <3>1 DEF Min
    <2>3. \E k \in DOMAIN c.sources : c.sources[k].name = name
      BY <1>1, <2>1
    <2>4. Lookup(c, name) = c.sources[Min(Named)].val
      BY <2>1, <2>3 DEF Lookup, SelectInSeq
    <2> QED BY <2>2, <2>4
  <1>3. (\A i \in DOMAIN c.sources : c.sources[i].name # name) => Lookup(c, name) = "absent"
    BY DEF Lookup
  <1>4. ASSUME NEW k \in DOMAIN c.sources, c.sources[k].name = name
        PROVE  \E i : Foremost(c.sources, name, i)
    <2>1. Named # {} /\ Named \in SUBSET (1..Len(c.sources))
      BY <1>1, <1>4
    <2> HIDE DEF Named
    <2>2. PICK i \in Named : \A l \in Named : i <= l
      BY <1>1, <2>1, LeastIndex
    <2>3. Foremost(c.sources, name, i)
      BY <1>1, <2>2 DEF Foremost, Named
    <2> QED BY <2>3
  <1> QED BY <1>2, <1>3, <1>4

\* In t the first data source of that name holds the same as in s, or neither
\* has one.
SameFirst(s, t, name) ==
    /\ \A i : Foremost(s, name, i) => \E j : Foremost(t, name, j) /\ t[j].val = s[i].val
    /\ (\A i \in DOMAIN s : s[i].name # name) => \A i \in DOMAIN t : t[i].name # name

\* Then the search finds the same in both.
LEMMA SameFound ==
    ASSUME NEW c, NEW d, NEW name, c.sources \in Lists, d.sources \in Lists,
           SameFirst(c.sources, d.sources, name)
    PROVE  Lookup(d, name) = Lookup(c, name)
  <1>1. CASE \A i \in DOMAIN c.sources : c.sources[i].name # name
    BY <1>1, Found DEF SameFirst
  <1>2. ASSUME NEW i, Foremost(c.sources, name, i)
        PROVE  Lookup(d, name) = Lookup(c, name)
    <2>1. PICK j : Foremost(d.sources, name, j) /\ d.sources[j].val = c.sources[i].val
      BY <1>2 DEF SameFirst
    <2> QED BY <1>2, <2>1, Found
  <1> QED BY <1>1, <1>2, Found

\* SaveDataSource, for a name that the list has ...
LEMMA Replaced ==
    ASSUME NEW s \in Lists, NEW d \in DataSource, NEW i, Foremost(s, d.name, i),
           NEW t, t = [s EXCEPT ![i] = d]
    PROVE  /\ Foremost(t, d.name, i) /\ t[i].val = d.val
           /\ \A name : name # d.name => SameFirst(s, t, name)
  <1>1. /\ DOMAIN t = DOMAIN s /\ i \in DOMAIN s
        /\ t[i] = d /\ \A k \in DOMAIN s : k # i => t[k] = s[k]
    BY DEF Foremost, Lists
  <1>2. Foremost(t, d.name, i) /\ t[i].val = d.val
    BY <1>1 DEF Foremost
  <1>3. ASSUME NEW name, name # d.name
        PROVE  SameFirst(s, t, name)
    <2>1. \A k \in DOMAIN s : t[k].name = name <=> s[k].name = name
      BY <1>1, <1>3 DEF Foremost
    <2>2. \A k : Foremost(s, name, k) => Foremost(t, name, k) /\ t[k].val = s[k].val
      BY <1>1, <1>3, <2>1 DEF Foremost
    <2> QED BY <1>1, <2>1, <2>2 DEF SameFirst
  <1> QED BY <1>2, <1>3

\* ... and for a new one.
LEMMA Appended ==
    ASSUME NEW s \in Lists, NEW d \in DataSource, \A i \in DOMAIN s : s[i].name # d.name,
           NEW t, t = Append(s, d)
    PROVE  /\ \E i : Foremost(t, d.name, i) /\ t[i].val = d.val
           /\ \A name : name # d.name => SameFirst(s, t, name)
  <1> DEFINE new == Len(s) + 1
  <1>1. /\ DOMAIN s = 1..Len(s) /\ Len(s) \in Nat /\ DOMAIN t = 1..new
        /\ t[new] = d /\ \A k \in DOMAIN s : t[k] = s[k]
    BY DEF Lists
  <1>2. /\ new \in DOMAIN t /\ DOMAIN s \subseteq DOMAIN t
        /\ \A k \in DOMAIN t : k = new \/ k \in DOMAIN s
        /\ \A k \in DOMAIN s : k <= new /\ k # new
        /\ new <= new
    BY <1>1
  <1> HIDE DEF new
  <1>3. Foremost(t, d.name, new) /\ t[new].val = d.val
    BY <1>1, <1>2 DEF Foremost
  <1>4. ASSUME NEW name, name # d.name
        PROVE  SameFirst(s, t, name)
    <2>1. \A k \in DOMAIN t : t[k].name = name => k \in DOMAIN s /\ s[k].name = name
      BY <1>1, <1>2, <1>4
    <2>2. \A k : Foremost(s, name, k) => Foremost(t, name, k) /\ t[k].val = s[k].val
      BY <1>1, <1>2, <2>1 DEF Foremost
    <2> QED BY <2>1, <2>2 DEF SameFirst
  <1> QED BY <1>3, <1>4

\* DeleteDataSource.
LEMMA Filtered ==
    ASSUME NEW s \in Lists, NEW gone, NEW t, t = Without(s, gone)
    PROVE  /\ t \in Lists
           /\ \A i \in DOMAIN t : t[i].name # gone
           /\ \A name : name # gone => SameFirst(s, t, name)
  <1> DEFINE kept == {i \in DOMAIN s : s[i].name # gone}
             rank == Ranking(kept)
             N == Cardinality(kept)
             Nth(n) == CHOOSE i \in kept : rank[i] = n
  <1>1. DOMAIN s = 1..Len(s) /\ Len(s) \in Nat /\ \A i \in DOMAIN s : s[i] \in DataSource
    BY DEF Lists
  <1>2. kept \in SUBSET (1..Len(s)) /\ \A i \in kept : i \in Nat /\ i \in DOMAIN s /\ s[i].name # gone
    BY <1>1
  <1>3. t = [n \in 1..N |-> s[Nth(n)]]
    BY DEF Without, Ranking
  <1>4. \A i \in DOMAIN s : s[i].name # gone => i \in kept
    OBVIOUS
  <1> HIDE DEF kept
  <1>5. /\ N \in Nat
        /\ rank \in [kept -> 1..N]
        /\ \A i, j \in kept : i < j => rank[i] < rank[j]
        /\ \A r \in 1..N : \E i \in kept : rank[i] = r
    BY <1>1, <1>2, Ranks
  <1> HIDE DEF rank, N
  <1>6. \A n \in 1..N : Nth(n) \in kept /\ rank[Nth(n)] = n
    BY <1>5
  <1> HIDE DEF At
  <1>7. DOMAIN t = 1..N /\ \A n \in 1..N : t[n] = s[Nth(n)]
    BY <1>3
  <1>8. t \in Lists
    <2>1. \A n \in 1..N : t[n] \in DataSource
      BY <1>1, <1>2, <1>6, <1>7
    <2>2. t = [n \in 1..N |-> t[n]]
      BY <1>3, <1>7
    <2> QED BY <1>5, <2>1, <2>2 DEF Lists
  <1>9. \A n \in DOMAIN t : t[n].name # gone
    <2>1. ASSUME NEW n \in 1..N
          PROVE  t[n].name # gone
      <3>1. PICK i \in kept : t[n] = s[i]
        BY <1>6, <1>7, <2>1
      <3> QED BY <1>2, <3>1
    <2> QED BY <1>7, <2>1
  <1>10. \A i \in kept : rank[i] \in 1..N /\ Nth(rank[i]) = i
    <2>1. ASSUME NEW i \in kept
          PROVE  rank[i] \in 1..N /\ Nth(rank[i]) = i
      <3>1. rank[i] \in 1..N /\ Nth(rank[i]) \in kept /\ rank[Nth(rank[i])] = rank[i]
        BY <1>5, <1>6
      <3>2. PICK j \in kept : j = Nth(rank[i]) /\ rank[j] = rank[i]
        BY <3>1
      <3>3. i \in Nat /\ j \in Nat /\ rank[i] = rank[j] /\ rank[i] \in Nat
        <4>1. rank[i] \in Nat
          BY <1>5, <3>1
        <4> QED BY <1>2, <3>2, <4>1, Zenon
      <3>4. ~(i < j) /\ ~(j < i)
        BY <1>5, <3>3
      <3> QED BY <3>1, <3>2, <3>3, <3>4
    <2> QED BY <2>1
  <1>11. ASSUME NEW name, name # gone
         PROVE  SameFirst(s, t, name)
    <2>1. ASSUME NEW i, Foremost(s, name, i)
          PROVE  \E j : Foremost(t, name, j) /\ t[j].val = s[i].val
      <3>1. i \in kept
        BY <1>4, <1>11, <2>1 DEF Foremost
      <3>2. PICK j \in 1..N : j = rank[i] /\ Nth(j) = i
        BY <1>10, <3>1
      <3>3. t[j] = s[i] /\ j \in DOMAIN t
        BY <1>7, <3>2
      <3>4. ASSUME NEW k \in DOMAIN t, t[k].name = name
            PROVE  j <= k
        <4>1. PICK l \in kept : l = Nth(k) /\ rank[l] = k
          BY <1>6, <1>7, <3>4
        <4>2. s[l].name = name
          BY <1>7, <3>4, <4>1
        <4>3. i <= l /\ i \in Nat /\ l \in Nat
          BY <1>2, <2>1, <3>1, <4>2 DEF Foremost
        <4>4. i = l \/ rank[i] < rank[l]
          BY <1>5, <3>1, <4>3
        <4> QED BY <1>7, <3>2, <4>1, <4>4
      <3> QED BY <2>1, <3>3, <3>4 DEF Foremost
    <2>2. (\A i \in DOMAIN s : s[i].name # name) => \A n \in DOMAIN t : t[n].name # name
      <3>1. ASSUME NEW n \in 1..N
            PROVE  \E i \in DOMAIN s : t[n] = s[i]
        BY <1>2, <1>6, <1>7, <3>1
      <3> QED BY <1>7, <3>1
    <2> QED BY <2>1, <2>2 DEF SameFirst
  <1> QED BY <1>8, <1>9, <1>11

\* Data sources in front of those that are deleted stay where they are.
LEMMA KeptInFront ==
    ASSUME NEW s \in Lists, NEW gone, NEW n \in 0..Len(s),
           \A i \in 1..n : s[i].name # gone,
           NEW t, t = Without(s, gone)
    PROVE  n <= Len(t) /\ \A i \in 1..n : t[i] = s[i]
  <1> DEFINE kept == {i \in DOMAIN s : s[i].name # gone}
             rank == Ranking(kept)
             N == Cardinality(kept)
             Nth(k) == CHOOSE i \in kept : rank[i] = k
  <1>1. DOMAIN s = 1..Len(s) /\ Len(s) \in Nat /\ n \in Nat /\ n <= Len(s)
    BY DEF Lists
  <1>2. /\ kept \in SUBSET (1..Len(s)) /\ 1..n \subseteq kept
        /\ \A i \in kept : rank[i] = Cardinality({k \in kept : k <= i})
    BY <1>1 DEF Ranking
  <1>3. t = [k \in 1..N |-> s[Nth(k)]]
    BY DEF Without, Ranking
  <1> HIDE DEF kept
  <1>4. /\ N \in Nat
        /\ rank \in [kept -> 1..N]
        /\ \A i, j \in kept : i < j => rank[i] < rank[j]
    BY <1>1, <1>2, Ranks
  <1> HIDE DEF rank, N
  <1>5. ASSUME NEW i \in 1..n
        PROVE  i \in kept /\ rank[i] = i /\ i \in 1..N
    <2>1. {k \in kept : k <= i} = 1..i
      <3>1. \A k : k \in 1..i => k \in 1..n /\ k <= i
        BY <1>1
      <3>2. \A k : k \in 1..Len(s) /\ k <= i => k \in 1..i
        BY <1>1
      <3> QED BY <1>2, <3>1, <3>2
    <2>2. Cardinality(1..i) = i
      BY FS_Interval
    <2>3. i \in kept /\ rank[i] = i
      BY <1>2, <2>1, <2>2
    <2> QED BY <1>4, <2>3
  <1>6. ASSUME NEW i \in 1..n
        PROVE  t[i] = s[i]
    <2>1. i \in kept /\ rank[i] = i /\ i \in 1..N
      BY <1>5
    <2>2. PICK j \in kept : j = Nth(i) /\ rank[j] = i
      <3>1. Nth(i) \in kept /\ rank[Nth(i)] = i
        BY <2>1
      <3> HIDE DEF Nth
      <3> QED BY <3>1
    <2>3. j \in Nat /\ i \in Nat
      BY <1>2
    <2>4. ~(i < j) /\ ~(j < i)
      <3>1. (i < j => rank[i] < rank[j]) /\ (j < i => rank[j] < rank[i])
        BY <1>4, <2>1, <2>2
      <3> QED BY <2>1, <2>2, <2>3, <3>1
    <2>5. i = Nth(i)
      BY <2>2, <2>3, <2>4
    <2> HIDE DEF Nth
    <2> QED BY <1>3, <2>1, <2>5
  <1>7. n <= Len(t)
    <2>1. Len(t) = N
      BY <1>3, <1>4
    <2>2. CASE n = 0
      BY <1>4, <2>1, <2>2
    <2>3. CASE n # 0
      BY <1>1, <1>5, <2>1, <2>3
    <2> QED BY <2>2, <2>3
  <1> QED BY <1>6, <1>7

-----------------------------------------------------------------------------
(* Types.                                                                  *)

Pcs == {"idle", "request", "scan", "replace", "read", "assign", "key", "save", "encode", "element",
        "write"}
Storing == {"save", "encode", "element", "write"}

EditorType ==
    [op : Ops, pc : Pcs, name : Names \cup {NoOne},
     val : Clouds \cup Modes \cup Vals \cup BOOLEAN \cup {Unknown},
     i : Nat, n : Nat, list : Lists, snap : Config, alone : BOOLEAN]

\* Where an edit of each kind may be, and what it has by then.
Fits(r) ==
    /\ r.op \in {"setup", "pair"} =>
          r.val \in Clouds /\ r.pc \in {"request", "assign", "key"} \cup Storing
    /\ r.op = "mode" => r.val \in Modes /\ r.pc \in {"assign"} \cup Storing
    /\ r.op = "toggle" => /\ r.pc \in {"read", "assign"} \cup Storing
                          /\ r.pc # "read" => r.val \in BOOLEAN
    /\ r.op = "source" => /\ r.name \in Names /\ r.val \in Vals
                          /\ r.pc \in {"scan", "replace", "read", "assign"} \cup Storing
    /\ r.op = "delete" => r.name \in Names /\ r.pc \in {"read", "assign"} \cup Storing
    /\ r.op = "find" => r.pc \in {"idle", "scan"}
    /\ r.pc \in {"scan", "replace", "encode", "element"} => r.i # 0

TypeInv ==
    /\ current \in Config /\ file \in Files
    /\ lock \in Editors \cup {NoOne}
    /\ editor \in [Editors -> EditorType]
    /\ \A e \in Editors : Fits(editor[e]) /\ (editor[e].pc \in {"encode", "element", "write"} <=> lock = e)
    /\ process \in {"down", "up", "unstartable"}
    /\ failing \in BOOLEAN /\ torn \in BOOLEAN
    /\ DOMAIN promised = Parts

\* The invariant says more than the type.
LEMMA TypeInvIsType == TypeInv => TypeOK
  BY DEF TypeInv, TypeOK, EditorType, Pcs, Saving, Lists

\* The record that Load starts from and a goroutine at rest have their types.
LEMMA Defaults == DefaultConfig \in Config /\ Idle \in EditorType /\ Fits(Idle)
  <1>1. <<>> \in Lists /\ "auto" \in Modes
    BY ConfigAssumption DEF ConfigAssumption, Lists
  <1>2. DefaultConfig \in Config
    BY <1>1 DEF DefaultConfig, Config, Lists
  <1> QED BY <1>1, <1>2 DEF Idle, EditorType, Fits, Ops, Pcs

\* The types are kept by a step that replaces the record of one goroutine.
LEMMA TypeMoved ==
    ASSUME TypeInv, NEW e \in Editors, NEW v \in EditorType, Fits(v),
           editor' = [editor EXCEPT ![e] = v],
           current' \in Config, file' \in Files,
           v.pc \in {"encode", "element", "write"} <=> lock' = e,
           lock' \in {lock, e, NoOne}, lock \in {e, NoOne} \/ lock' = lock,
           UNCHANGED process, failing' \in BOOLEAN, torn' \in BOOLEAN, DOMAIN promised' = Parts
    PROVE  TypeInv'
  <1>1. NoOne \notin Editors
    BY ConfigAssumption DEF ConfigAssumption
  <1>2. /\ editor' \in [Editors -> EditorType] /\ editor'[e] = v
        /\ \A f \in Editors : f # e => editor'[f] = editor[f]
    BY DEF TypeInv
  <1>3. lock' \in Editors \cup {NoOne} /\ \A f \in Editors : f # e => (lock' = f <=> lock = f)
    BY <1>1 DEF TypeInv
  <1>4. ASSUME NEW f \in Editors
        PROVE  Fits(editor'[f]) /\ (editor'[f].pc \in {"encode", "element", "write"} <=> lock' = f)
    <2>1. CASE f = e
      BY <1>2, <2>1
    <2>2. CASE f # e
      BY <1>2, <1>3, <2>2 DEF TypeInv
    <2> QED BY <2>1, <2>2
  <1> HIDE DEF Fits
  <1>5. \A f \in Editors : Fits(editor[f])'
    BY <1>4 DEF Fits
  <1> QED BY <1>2, <1>3, <1>4, <1>5 DEF TypeInv

\* A goroutine that has not the lock goes on, or one of an edit that ends.
LEMMA TypeGoes ==
    ASSUME TypeInv, NEW e \in Editors, editor[e].pc \notin {"encode", "element", "write"},
           NEW v \in EditorType, Fits(v), v.pc \notin {"encode", "element", "write"},
           editor' = [editor EXCEPT ![e] = v], current' \in Config,
           UNCHANGED <<file, lock, process>>, failing' \in BOOLEAN, torn' \in BOOLEAN,
           DOMAIN promised' = Parts
    PROVE  TypeInv'
  <1>1. lock # e /\ file \in Files
    BY DEF TypeInv
  <1> QED BY <1>1, TypeMoved

\* With the process go its edits and its lock.
LEMMA TypeCrash == TypeInv /\ Crash => TypeInv'
  <1> SUFFICES ASSUME TypeInv, Crash PROVE TypeInv'
    OBVIOUS
  <1>1. NoOne \notin Editors
    BY ConfigAssumption DEF ConfigAssumption
  <1>2. /\ editor' \in [Editors -> EditorType] /\ \A e \in Editors : editor'[e] = Idle
        /\ lock' = NoOne
    BY Defaults DEF Crash
  <1>3. Idle.pc = "idle"
    BY DEF Idle
  <1>4. \A e \in Editors : Fits(editor'[e]) /\ editor'[e].pc = "idle"
    BY <1>2, <1>3, Defaults
  <1>5. \A e \in Editors : Fits(editor[e])'
    BY <1>4 DEF Fits
  <1> QED BY <1>1, <1>2, <1>4, <1>5 DEF TypeInv, Crash

\* An edit begins: the records of others change in their flag only.
LEMMA BeginEffect ==
    ASSUME TypeInv, NEW e \in Editors, NEW r \in EditorType, Begin(e, r)
    PROVE  /\ process = "up" /\ editor[e].pc = "idle"
           /\ UNCHANGED <<current, file, lock, process, failing, torn>>
           /\ editor' \in [Editors -> EditorType]
           /\ \A f \in Editors : f # e =>
                 /\ editor'[f] = [editor[f] EXCEPT !.alone = editor'[f].alone]
                 /\ editor'[f].alone <=> editor[f].alone /\ ~Disturbs(r, editor[f])
           /\ editor'[e] = [r EXCEPT !.alone = editor'[e].alone]
           /\ editor'[e].alone <=> \A f \in Editors : ~Disturbs(editor[f], r)
  <1>1. /\ process = "up" /\ editor[e].pc = "idle"
        /\ UNCHANGED <<current, file, lock, process, failing, torn>>
    BY DEF Begin, At
  <1>2. PICK a : a = (\A f \in Editors : ~Disturbs(editor[f], r))
    OBVIOUS
  <1>3. ({f \in Editors : Disturbs(editor[f], r)} = {}) = a /\ a \in BOOLEAN
    BY <1>2
  <1>4. editor' = [f \in Editors |->
                     IF f = e THEN [r EXCEPT !.alone = a]
                     ELSE [editor[f] EXCEPT !.alone = @ /\ ~Disturbs(r, editor[f])]]
    BY <1>3 DEF Begin
  <1>5. [r EXCEPT !.alone = a] \in EditorType /\ [r EXCEPT !.alone = a].alone = a
    BY <1>3 DEF EditorType
  <1>6. ASSUME NEW f \in Editors, f # e
        PROVE  /\ editor'[f] = [editor[f] EXCEPT !.alone = editor'[f].alone]
               /\ editor'[f].alone <=> editor[f].alone /\ ~Disturbs(r, editor[f])
               /\ editor'[f] \in EditorType
    <2>1. PICK b \in BOOLEAN : b = (editor[f].alone /\ ~Disturbs(r, editor[f]))
      OBVIOUS
    <2>2. editor'[f] = [editor[f] EXCEPT !.alone = b]
      BY <1>4, <1>6, <2>1
    <2>3. editor[f] \in EditorType
      BY DEF TypeInv
    <2>4. editor'[f].alone = b /\ editor'[f] \in EditorType
      BY <2>2, <2>3 DEF EditorType
    <2> QED BY <2>1, <2>2, <2>4
  <1>7. editor'[e] = [r EXCEPT !.alone = a]
    BY <1>4
  <1>8. editor' \in [Editors -> EditorType]
    BY <1>4, <1>5, <1>6, <1>7
  <1> QED BY <1>1, <1>2, <1>5, <1>6, <1>7, <1>8

\* Where an edit begins, with what it knows of the list.
Begins(r) ==
    /\ r.op \in {"source", "find"} => r.pc = "scan"
    /\ r.pc \in {"request", "assign", "scan", "read"}
    /\ r.pc = "scan" => r.i = 1 /\ r.n = Len(current.sources)
    /\ r.pc = "assign" => r.op \in {"setup", "mode"}

\* The records that edits begin with have their types ...
LEMMA RequestType ==
    ASSUME TypeInv, NEW op \in Ops, NEW name \in Names \cup {NoOne},
           NEW val \in Clouds \cup Modes \cup Vals \cup BOOLEAN \cup {Unknown},
           op \in {"setup", "pair"} => val \in Clouds,
           op = "mode" => val \in Modes,
           op \in ListOps \cup {"find"} => name \in Names,
           op = "source" => val \in Vals
    PROVE  /\ Request(op, name, val) \in EditorType
           /\ Fits(Request(op, name, val)) /\ Begins(Request(op, name, val))
  <1>1. PICK len \in Nat : len = Len(current.sources)
    <2>1. current.sources \in Lists
      BY DEF TypeInv, Config, Lists
    <2> QED BY <2>1 DEF Lists
  <1>2. First(op) \in {"request", "assign", "scan", "read"}
    BY DEF First
  <1>3. /\ op \in {"setup", "pair"} => First(op) \in {"request", "assign"}
        /\ op = "mode" => First(op) = "assign"
        /\ op \in {"toggle", "delete"} => First(op) = "read"
        /\ op \in {"source", "find"} => First(op) = "scan"
        /\ First(op) = "assign" => op \in {"setup", "mode"}
    BY DEF First, Ops
  <1>4. PICK pc \in Pcs : pc = First(op)
    BY <1>2 DEF Pcs
  <1>5. PICK r : r = Request(op, name, val)
    OBVIOUS
  <1>6. r = [Idle EXCEPT !.op = op, !.pc = pc, !.name = name, !.val = val, !.i = 1, !.n = len]
    BY <1>1, <1>4, <1>5 DEF Request
  <1>7. /\ r \in EditorType
        /\ r.op = op /\ r.pc = pc /\ r.name = name /\ r.val = val /\ r.i = 1 /\ r.n = len
    BY <1>6, Defaults DEF EditorType
  <1>8. Fits(r)
    BY <1>3, <1>4, <1>7 DEF Fits, ListOps, Storing
  <1>9. Begins(r)
    BY <1>1, <1>2, <1>3, <1>4, <1>7 DEF Begins
  <1> QED BY <1>5, <1>7, <1>8, <1>9

\* ... so that each handler begins an edit with such a record.
LEMMA RequestEffect ==
    ASSUME TypeInv, NEW e \in Editors, BeginSettings(e) \/ BeginSource(e)
    PROVE  \E r \in EditorType : Begin(e, r) /\ Fits(r) /\ Begins(r)
  <1>1. CASE BeginSettings(e)
    <2>1. ASSUME NEW op \in {"setup", "pair"}, NEW c \in Clouds, Begin(e, Request(op, NoOne, c))
          PROVE  \E r \in EditorType : Begin(e, r) /\ Fits(r) /\ Begins(r)
      <3>1. /\ Request(op, NoOne, c) \in EditorType /\ Fits(Request(op, NoOne, c))
            /\ Begins(Request(op, NoOne, c))
        BY <2>1, RequestType DEF Ops, ListOps
      <3> QED BY <2>1, <3>1
    <2>2. ASSUME NEW m \in Modes \cap Entered, Begin(e, Request("mode", NoOne, m))
          PROVE  \E r \in EditorType : Begin(e, r) /\ Fits(r) /\ Begins(r)
      <3>1. /\ Request("mode", NoOne, m) \in EditorType /\ Fits(Request("mode", NoOne, m))
            /\ Begins(Request("mode", NoOne, m))
        BY <2>2, RequestType DEF Ops, ListOps
      <3> QED BY <2>2, <3>1
    <2>3. ASSUME Begin(e, Request("toggle", NoOne, Unknown))
          PROVE  \E r \in EditorType : Begin(e, r) /\ Fits(r) /\ Begins(r)
      <3>1. /\ Request("toggle", NoOne, Unknown) \in EditorType
            /\ Fits(Request("toggle", NoOne, Unknown))
            /\ Begins(Request("toggle", NoOne, Unknown))
        BY <2>3, RequestType DEF Ops, ListOps
      <3> QED BY <2>3, <3>1
    <2> QED BY <1>1, <2>1, <2>2, <2>3 DEF BeginSettings
  <1>2. CASE BeginSource(e)
    <2>1. ASSUME NEW name \in Names, NEW v \in Vals \cap Entered,
                 Begin(e, Request("source", name, v))
          PROVE  \E r \in EditorType : Begin(e, r) /\ Fits(r) /\ Begins(r)
      <3>1. Request("source", name, v) \in EditorType /\ Fits(Request("source", name, v))
            /\ Begins(Request("source", name, v))
        BY RequestType DEF Ops, ListOps
      <3> QED BY <2>1, <3>1
    <2>2. ASSUME NEW name \in Names, NEW op \in {"delete", "find"}, Begin(e, Request(op, name, Unknown))
          PROVE  \E r \in EditorType : Begin(e, r) /\ Fits(r) /\ Begins(r)
      <3>1. Request(op, name, Unknown) \in EditorType /\ Fits(Request(op, name, Unknown))
            /\ Begins(Request(op, name, Unknown))
        BY RequestType DEF Ops, ListOps
      <3> QED BY <2>2, <3>1
    <2> QED BY <1>2, <2>1, <2>2 DEF BeginSource
  <1> QED BY <1>1, <1>2

\* The flag has no part in where an edit may be.
LEMMA FitsAlone ==
    ASSUME NEW x \in EditorType, NEW y \in EditorType, NEW a, y = [x EXCEPT !.alone = a], Fits(x)
    PROVE  Fits(y) /\ y.pc = x.pc
  <1>1. /\ y.op = x.op /\ y.pc = x.pc /\ y.name = x.name /\ y.val = x.val /\ y.i = x.i
    BY DEF EditorType
  <1> QED BY <1>1 DEF Fits

\* An edit that begins keeps the types.
LEMMA TypeBegin ==
    ASSUME TypeInv, NEW e \in Editors, NEW r \in EditorType, Begin(e, r), Fits(r), Begins(r)
    PROVE  TypeInv'
  <1>1. /\ UNCHANGED <<current, file, lock, process, failing, torn>>
        /\ editor[e].pc = "idle"
        /\ editor' \in [Editors -> EditorType]
        /\ \A f \in Editors : f # e => editor'[f] = [editor[f] EXCEPT !.alone = editor'[f].alone]
        /\ editor'[e] = [r EXCEPT !.alone = editor'[e].alone]
    BY BeginEffect
  <1>2. ASSUME NEW f \in Editors
        PROVE  Fits(editor'[f]) /\ (editor'[f].pc \in {"encode", "element", "write"} <=> lock = f)
    <2>1. /\ editor'[f] \in EditorType /\ editor[f] \in EditorType /\ Fits(editor[f])
          /\ editor[f].pc \in {"encode", "element", "write"} <=> lock = f
      BY <1>1 DEF TypeInv
    <2>2. CASE f = e
      <3>1. Fits(editor'[f]) /\ editor'[f].pc = r.pc
        BY <1>1, <2>1, <2>2, FitsAlone
      <3>2. r.pc \notin {"encode", "element", "write"} /\ editor[f].pc \notin {"encode", "element", "write"}
        BY <1>1, <2>2 DEF Begins
      <3> QED BY <2>1, <3>1, <3>2
    <2>3. CASE f # e
      <3>1. PICK a : editor'[f] = [editor[f] EXCEPT !.alone = a]
        BY <1>1, <2>3
      <3>2. Fits(editor'[f]) /\ editor'[f].pc = editor[f].pc
        BY <2>1, <3>1, FitsAlone
      <3> QED BY <2>1, <3>2
    <2> QED BY <2>2, <2>3
  <1>3. \A f \in Editors : Fits(editor[f])'
    BY <1>2 DEF Fits
  <1>4. DOMAIN promised' = Parts
    BY DEF Begin
  <1> QED BY <1>1, <1>2, <1>3, <1>4 DEF TypeInv

-----------------------------------------------------------------------------
(* The steps of an edit that leave it under way: v is what becomes of its  *)
(* record.                                                                 *)

Onward(e, v) ==
    /\ editor' = [editor EXCEPT ![e] = v]
    /\ v.op = editor[e].op /\ v.name = editor[e].name /\ v.alone = editor[e].alone
    /\ UNCHANGED <<process, promised>>

\* Goto changes nothing but where the edit stands.
LEMMA GotoEffect ==
    ASSUME TypeInv, NEW e \in Editors, NEW pc \in Pcs, Goto(e, pc)
    PROVE  \E v \in EditorType :
              /\ editor' = [editor EXCEPT ![e] = v] /\ v.pc = pc
              /\ v.op = editor[e].op /\ v.name = editor[e].name /\ v.alone = editor[e].alone
              /\ v.val = editor[e].val /\ v.i = editor[e].i /\ v.n = editor[e].n
              /\ v.list = editor[e].list /\ v.snap = editor[e].snap
  <1>1. PICK r \in EditorType : r = editor[e]
    BY DEF TypeInv
  <1>2. PICK v : v = [r EXCEPT !.pc = pc]
    OBVIOUS
  <1>3. v \in EditorType
    BY <1>2 DEF EditorType
  <1>4. /\ v.pc = pc /\ v.op = r.op /\ v.name = r.name /\ v.alone = r.alone
        /\ v.val = r.val /\ v.i = r.i /\ v.n = r.n /\ v.list = r.list /\ v.snap = r.snap
    BY <1>2 DEF EditorType
  <1>5. editor' = [editor EXCEPT ![e] = v]
    BY <1>1, <1>2 DEF Goto
  <1> QED BY <1>1, <1>3, <1>4, <1>5

\* The cloud answers a pairing.
LEMMA PairedEffect ==
    ASSUME TypeInv, NEW e \in Editors, Paired(e)
    PROVE  /\ process = "up" /\ editor[e].pc = "request"
           /\ UNCHANGED <<current, file, lock, failing, torn>>
           /\ \E v \in EditorType : Onward(e, v) /\ v.pc = "assign" /\ v.val = editor[e].val
  <1>1. Goto(e, "assign") /\ "assign" \in Pcs
    BY DEF Paired, Pcs
  <1>2. PICK v \in EditorType : /\ editor' = [editor EXCEPT ![e] = v] /\ v.pc = "assign"
                                /\ v.op = editor[e].op /\ v.name = editor[e].name
                                /\ v.alone = editor[e].alone /\ v.val = editor[e].val
    BY <1>1, GotoEffect
  <1>3. /\ process = "up" /\ editor[e].pc = "request"
        /\ UNCHANGED <<current, file, lock, failing, torn, process, promised>>
    BY DEF Paired, At, Unchanged
  <1> QED BY <1>2, <1>3 DEF Onward

\* An edit is dropped, and nothing but it changes.
Dropped(e) == editor' = [editor EXCEPT ![e] = Idle] /\ UNCHANGED promised /\ Unchanged

\* It does not.
LEMMA DroppedEffect ==
    ASSUME TypeInv, NEW e \in Editors, NotPaired(e)
    PROVE  process = "up" /\ editor[e].pc = "request" /\ Dropped(e)
  BY DEF NotPaired, At, Ends, Dropped

\* A turn of the search: past the end, at another name, at the name.
Searched(e, v) ==
    /\ editor[e].op = "source" /\ editor[e].i > editor[e].n /\ v.pc = "read"

Advanced(e, v) ==
    /\ editor[e].i <= editor[e].n /\ editor[e].i \in DOMAIN current.sources
    /\ current.sources[editor[e].i].name # editor[e].name
    /\ v.pc = "scan" /\ v.i = editor[e].i + 1 /\ v.n = editor[e].n

Matched(e, v) ==
    /\ editor[e].op = "source" /\ editor[e].i \in DOMAIN current.sources
    /\ current.sources[editor[e].i].name = editor[e].name
    /\ v.pc = "replace" /\ v.i = editor[e].i

\* A turn of the loop is one of the three, or the end of the edit or the process.
LEMMA ScanEffect ==
    ASSUME TypeInv, NEW e \in Editors, Scan(e)
    PROVE  /\ process = "up" /\ editor[e].pc = "scan"
           /\ \/ Crash
              \/ Dropped(e)
              \/ /\ UNCHANGED <<current, file, lock, failing, torn>>
                 /\ \E v \in EditorType : /\ Onward(e, v) /\ v.val = editor[e].val
                                          /\ Searched(e, v) \/ Advanced(e, v) \/ Matched(e, v)
  <1>1. PICK r \in EditorType : r = editor[e] /\ r.i # 0 /\ r.op \in {"source", "find"}
    <2>1. editor[e] \in EditorType /\ Fits(editor[e]) /\ editor[e].pc = "scan"
      BY DEF TypeInv, Scan, At
    <2> QED BY <2>1 DEF Fits, EditorType, Ops, Storing
  <1>2. process = "up" /\ r.pc = "scan"
    BY <1>1 DEF Scan, At
  <1>3. PICK len \in Nat : len = Len(current.sources) /\ DOMAIN current.sources = 1..len
    <2>1. current.sources \in Lists
      BY DEF TypeInv, Config, Lists
    <2> QED BY <2>1 DEF Lists
  <1>4. r.i \in Nat /\ r.n \in Nat
    BY DEF EditorType
  <1> DEFINE Result == \/ Crash
                       \/ Dropped(e)
                       \/ /\ UNCHANGED <<current, file, lock, failing, torn>>
                          /\ \E v \in EditorType : /\ Onward(e, v) /\ v.val = editor[e].val
                                                   /\ Searched(e, v) \/ Advanced(e, v) \/ Matched(e, v)
  <1>5. ASSUME Ends(e, FALSE), Unchanged
        PROVE  Dropped(e)
    BY <1>5 DEF Ends, Dropped
  <1>6. ASSUME r.i > r.n, r.op = "source", Goto(e, "read"), UNCHANGED promised, Unchanged
        PROVE  Result
    <2>1. PICK v \in EditorType : /\ editor' = [editor EXCEPT ![e] = v] /\ v.pc = "read"
                                  /\ v.op = editor[e].op /\ v.name = editor[e].name
                                  /\ v.alone = editor[e].alone /\ v.val = editor[e].val
      BY <1>6, GotoEffect DEF Pcs
    <2>2. Onward(e, v) /\ UNCHANGED <<current, file, lock, failing, torn>>
      BY <1>6, <2>1 DEF Onward, Unchanged
    <2>3. Searched(e, v)
      BY <1>1, <1>6, <2>1 DEF Searched
    <2> QED BY <2>1, <2>2, <2>3
  <1>7. ASSUME r.i <= len, current.sources[r.i].name = r.name, r.op = "source",
               Goto(e, "replace"), UNCHANGED promised, Unchanged
        PROVE  Result
    <2>1. PICK v \in EditorType : /\ editor' = [editor EXCEPT ![e] = v] /\ v.pc = "replace"
                                  /\ v.op = editor[e].op /\ v.name = editor[e].name /\ v.i = editor[e].i
                                  /\ v.alone = editor[e].alone /\ v.val = editor[e].val
      BY <1>7, GotoEffect DEF Pcs
    <2>2. Onward(e, v) /\ UNCHANGED <<current, file, lock, failing, torn>>
      BY <1>7, <2>1 DEF Onward, Unchanged
    <2>3. r.i \in DOMAIN current.sources
      BY <1>1, <1>3, <1>4, <1>7
    <2>4. Matched(e, v)
      BY <1>1, <1>7, <2>1, <2>3 DEF Matched
    <2> QED BY <2>1, <2>2, <2>4
  <1>8. ASSUME r.i <= len, r.i <= r.n, current.sources[r.i].name # r.name,
               editor' = [editor EXCEPT ![e].i = @ + 1], UNCHANGED promised, Unchanged
        PROVE  Result
    <2>1. PICK j \in Nat : j = r.i + 1
      BY <1>4
    <2>2. PICK v : v = [r EXCEPT !.i = j]
      OBVIOUS
    <2>3. /\ v \in EditorType /\ v.i = j /\ v.pc = r.pc /\ v.n = r.n
          /\ v.op = r.op /\ v.name = r.name /\ v.alone = r.alone /\ v.val = r.val
      BY <2>2 DEF EditorType
    <2>4. editor' = [editor EXCEPT ![e] = v]
      BY <1>1, <1>8, <2>1, <2>2
    <2>5. Onward(e, v) /\ UNCHANGED <<current, file, lock, failing, torn>>
      BY <1>1, <1>8, <2>3, <2>4 DEF Onward, Unchanged
    <2>6. r.i \in DOMAIN current.sources
      BY <1>1, <1>3, <1>4, <1>8
    <2>7. Advanced(e, v)
      BY <1>1, <1>2, <1>8, <2>1, <2>3, <2>6 DEF Advanced
    <2> QED BY <1>1, <2>3, <2>5, <2>7
  <1>9. ASSUME Panics(e)
        PROVE  Crash \/ Dropped(e)
    BY <1>5, <1>9 DEF Panics
  <1> HIDE DEF Result
  <1>10. Result
    <2>1. CASE r.i > r.n
      <3>1. r.i <= r.n => FALSE
        BY <1>4, <2>1
      <3> QED BY <1>1, <1>5, <1>6, <2>1, <3>1 DEF Scan, Result
    <2>2. CASE r.i <= r.n
      <3>1. r.i > r.n => FALSE
        BY <1>4, <2>2
      <3>2. OutOfRange(e) \/ r.i <= len
        BY <1>1, <1>3, <1>4 DEF OutOfRange
      <3> QED BY <1>1, <1>5, <1>7, <1>8, <1>9, <2>2, <3>1, <3>2 DEF Scan, Result
    <2> QED BY <1>4, <2>1, <2>2
  <1> QED BY <1>1, <1>2, <1>10 DEF Result

\* The data source is replaced where the search found it, or the index is beyond
\* the slice.
LEMMA ReplaceEffect ==
    ASSUME TypeInv, NEW e \in Editors, Replace(e)
    PROVE  /\ process = "up" /\ editor[e].pc = "replace"
           /\ \/ Crash
              \/ Dropped(e)
              \/ /\ editor[e].i \in DOMAIN current.sources
                 /\ current' = [current EXCEPT !.sources = [current.sources EXCEPT ![editor[e].i] =
                                  [name |-> editor[e].name, val |-> editor[e].val]]]
                 /\ UNCHANGED <<file, lock, failing, torn>>
                 /\ \E v \in EditorType : Onward(e, v) /\ v.pc = "save" /\ v.val = editor[e].val
  <1>1. process = "up" /\ editor[e].pc = "replace"
    BY DEF Replace, At
  <1>2. CASE OutOfRange(e)
    <2>1. Panics(e)
      BY <1>2 DEF Replace
    <2> QED BY <1>1, <2>1 DEF Panics, Dropped, Ends
  <1>3. CASE ~OutOfRange(e)
    <2>1. editor[e].i \in Nat \ {0} /\ editor[e] \in EditorType
      BY <1>1 DEF TypeInv, EditorType, Fits
    <2>2. current \in Config /\ current.sources \in Lists
      BY DEF TypeInv, Config, Lists
    <2>3. DOMAIN current.sources = 1..Len(current.sources) /\ Len(current.sources) \in Nat
      BY <2>2 DEF Lists
    <2>4. editor[e].i \in DOMAIN current.sources
      BY <1>3, <2>1, <2>3 DEF OutOfRange
    <2>5. /\ current' = [current EXCEPT !.sources[editor[e].i] =
                           [name |-> editor[e].name, val |-> editor[e].val]]
          /\ Goto(e, "save")
          /\ UNCHANGED <<file, lock, process, failing, torn, promised, edits>>
      BY <1>3 DEF Replace
    <2>6. current' = [current EXCEPT !.sources = [current.sources EXCEPT ![editor[e].i] =
                        [name |-> editor[e].name, val |-> editor[e].val]]]
      BY <2>2, <2>5 DEF Config
    <2>7. PICK v \in EditorType : /\ editor' = [editor EXCEPT ![e] = v] /\ v.pc = "save"
                                  /\ v.op = editor[e].op /\ v.name = editor[e].name
                                  /\ v.alone = editor[e].alone /\ v.val = editor[e].val
      BY <2>5, GotoEffect DEF Pcs
    <2>8. Onward(e, v)
      BY <2>5, <2>7 DEF Onward
    <2> QED BY <1>1, <2>4, <2>5, <2>6, <2>7, <2>8
  <1> QED BY <1>2, <1>3

\* What a new slice or flag is made from.
LEMMA ReadEffect ==
    ASSUME TypeInv, NEW e \in Editors, Read(e)
    PROVE  /\ process = "up" /\ editor[e].pc = "read"
           /\ UNCHANGED <<current, file, lock, failing, torn>>
           /\ \E v \in EditorType :
                 /\ Onward(e, v) /\ v.pc = "assign" /\ v.list = current.sources
                 /\ editor[e].op = "toggle" => v.val \in BOOLEAN
                 /\ editor[e].op # "toggle" => v.val = editor[e].val
  <1>1. PICK r \in EditorType : r = editor[e]
    BY DEF TypeInv
  <1>2. /\ process = "up" /\ r.pc = "read"
        /\ UNCHANGED <<current, file, lock, failing, torn, process, promised>>
    BY <1>1 DEF Read, At, Unchanged
  <1>3. PICK b \in BOOLEAN : b = ~current.remote
    OBVIOUS
  <1>4. PICK l \in Lists : l = current.sources
    BY DEF TypeInv, Config, Lists
  <1>5. PICK x \in Clouds \cup Modes \cup Vals \cup BOOLEAN \cup {Unknown} :
            (r.op = "toggle" => x = b) /\ (r.op # "toggle" => x = r.val)
    <2>1. CASE r.op = "toggle"
      BY <2>1
    <2>2. CASE r.op # "toggle"
      BY <2>2 DEF EditorType
    <2> QED BY <2>1, <2>2
  <1>6. editor' = [editor EXCEPT ![e] = [r EXCEPT !.pc = "assign", !.list = l, !.val = x]]
    <2>1. editor' = [editor EXCEPT ![e].pc = "assign", ![e].list = current.sources,
                         ![e].val = IF editor[e].op = "toggle" THEN ~current.remote ELSE @]
      BY DEF Read
    <2>2. editor' = [editor EXCEPT ![e] = [r EXCEPT !.pc = "assign", !.list = current.sources,
                        !.val = IF r.op = "toggle" THEN ~current.remote ELSE r.val]]
      BY <1>1, <2>1 DEF EditorType, TypeInv
    <2>3. CASE r.op = "toggle"
      BY <1>3, <1>4, <1>5, <2>2, <2>3
    <2>4. CASE r.op # "toggle"
      BY <1>3, <1>4, <1>5, <2>2, <2>4
    <2> QED BY <2>3, <2>4
  <1>7. PICK v : v = [r EXCEPT !.pc = "assign", !.list = l, !.val = x]
    OBVIOUS
  <1>8. /\ v.pc = "assign" /\ v.list = l /\ v.val = x
        /\ v.op = r.op /\ v.name = r.name /\ v.alone = r.alone
    BY <1>7 DEF EditorType
  <1>9. v \in EditorType
    BY <1>7 DEF EditorType, Pcs
  <1>10. Onward(e, v)
    BY <1>1, <1>2, <1>6, <1>7, <1>8 DEF Onward
  <1> QED BY <1>1, <1>2, <1>4, <1>5, <1>8, <1>9, <1>10

\* The record is changed, and for credentials once more.
LEMMA AssignEffect ==
    ASSUME TypeInv, NEW e \in Editors, Assign(e)
    PROVE  /\ process = "up" /\ editor[e].pc = "assign"
           /\ current' = Changed(editor[e])
           /\ UNCHANGED <<file, lock, failing>>
           /\ torn' \in BOOLEAN /\ (torn => torn')
           /\ \A f \in Editors : Tears(editor[e], editor[f]) => torn'
           /\ \E v \in EditorType :
                 /\ Onward(e, v) /\ v.val = editor[e].val
                 /\ editor[e].op \in {"setup", "pair"} => v.pc = "key"
                 /\ editor[e].op \notin {"setup", "pair"} => v.pc = "save"
  <1>1. PICK pc \in Pcs : /\ Goto(e, pc)
                          /\ editor[e].op \in {"setup", "pair"} => pc = "key"
                          /\ editor[e].op \notin {"setup", "pair"} => pc = "save"
    BY DEF Assign, Pcs
  <1>2. PICK v \in EditorType : /\ editor' = [editor EXCEPT ![e] = v] /\ v.pc = pc
                                /\ v.op = editor[e].op /\ v.name = editor[e].name
                                /\ v.alone = editor[e].alone /\ v.val = editor[e].val
    BY <1>1, GotoEffect
  <1>3. /\ process = "up" /\ editor[e].pc = "assign" /\ current' = Changed(editor[e])
        /\ UNCHANGED <<file, lock, failing, process, promised>>
    BY DEF Assign, At
  <1>4. /\ torn' \in BOOLEAN /\ (torn => torn')
        /\ \A f \in Editors : Tears(editor[e], editor[f]) => torn'
    <2>1. torn' = (torn \/ \E f \in Editors : Tears(editor[e], editor[f]))
      BY DEF Assign
    <2> QED BY <2>1
  <1> QED BY <1>1, <1>2, <1>3, <1>4 DEF Onward

\* The second of the credentials.
LEMMA AssignKeyEffect ==
    ASSUME TypeInv, NEW e \in Editors, AssignKey(e)
    PROVE  /\ process = "up" /\ editor[e].pc = "key"
           /\ current' = [current EXCEPT !.key = editor[e].val]
           /\ UNCHANGED <<file, lock, failing, torn>>
           /\ \E v \in EditorType : Onward(e, v) /\ v.pc = "save" /\ v.val = editor[e].val
  <1>1. Goto(e, "save") /\ "save" \in Pcs
    BY DEF AssignKey, Pcs
  <1>2. PICK v \in EditorType : /\ editor' = [editor EXCEPT ![e] = v] /\ v.pc = "save"
                                /\ v.op = editor[e].op /\ v.name = editor[e].name
                                /\ v.alone = editor[e].alone /\ v.val = editor[e].val
    BY <1>1, GotoEffect
  <1>3. /\ process = "up" /\ editor[e].pc = "key" /\ current' = [current EXCEPT !.key = editor[e].val]
        /\ UNCHANGED <<file, lock, failing, torn, process, promised>>
    BY DEF AssignKey, At
  <1> QED BY <1>2, <1>3 DEF Onward

\* The file is truncated, under the lock, and the encoder has read nothing.
LEMMA CreateEffect ==
    ASSUME TypeInv, NEW e \in Editors, Create(e)
    PROVE  /\ process = "up" /\ editor[e].pc = "save" /\ lock = NoOne /\ lock' = e
           /\ file' = [state |-> "cut", value |-> DefaultConfig]
           /\ UNCHANGED <<current, failing>> /\ torn' = FALSE
           /\ \E v \in EditorType : /\ Onward(e, v) /\ v.pc = "encode" /\ v.val = editor[e].val
                                    /\ v.i = 1 /\ v.snap = DefaultConfig
  <1>1. PICK r \in EditorType : r = editor[e]
    BY DEF TypeInv
  <1>2. /\ process = "up" /\ r.pc = "save" /\ lock = NoOne /\ lock' = e
        /\ file' = [state |-> "cut", value |-> DefaultConfig]
        /\ UNCHANGED <<current, failing, process, promised>> /\ torn' = FALSE
    BY <1>1 DEF Create, At
  <1>3. PICK v : v = [r EXCEPT !.pc = "encode", !.i = 1, !.snap = DefaultConfig]
    OBVIOUS
  <1>4. /\ v \in EditorType /\ v.pc = "encode" /\ v.i = 1 /\ v.snap = DefaultConfig
        /\ v.val = r.val /\ v.op = r.op /\ v.name = r.name /\ v.alone = r.alone
    BY <1>3, Defaults DEF EditorType, Pcs
  <1>5. editor' = [editor EXCEPT ![e] = v]
    <2>1. editor' = [editor EXCEPT ![e].pc = "encode", ![e].i = 1, ![e].snap = DefaultConfig]
      BY DEF Create
    <2> QED BY <1>1, <1>3, <2>1 DEF TypeInv, EditorType
  <1>6. Onward(e, v)
    BY <1>1, <1>2, <1>4, <1>5 DEF Onward
  <1> QED BY <1>1, <1>2, <1>4, <1>6

\* The encoder reads the next field, and keeps the others.
LEMMA FieldEffect ==
    ASSUME TypeInv, NEW e \in Editors, EncodeField(e)
    PROVE  /\ process = "up" /\ editor[e].pc = "encode" /\ lock = e
           /\ UNCHANGED <<current, file, lock, failing, torn>>
           /\ editor[e].i \in 1..4
           /\ \E v \in EditorType :
                 /\ Onward(e, v) /\ v.pc = "encode" /\ v.val = editor[e].val
                 /\ v.i = editor[e].i + 1
                 /\ v.snap.sources = editor[e].snap.sources
                 /\ v.snap.url = IF editor[e].i = 1 THEN current.url ELSE editor[e].snap.url
                 /\ v.snap.key = IF editor[e].i = 2 THEN current.key ELSE editor[e].snap.key
                 /\ v.snap.remote = IF editor[e].i = 3 THEN current.remote ELSE editor[e].snap.remote
                 /\ v.snap.mode = IF editor[e].i = 4 THEN current.mode ELSE editor[e].snap.mode
  <1>1. PICK r \in EditorType : r = editor[e] /\ Fits(r)
    BY DEF TypeInv
  <1>2. /\ process = "up" /\ r.pc = "encode" /\ lock = e /\ current \in Config
        /\ UNCHANGED <<current, file, lock, failing, torn, process, promised>>
    BY <1>1 DEF EncodeField, At, Unchanged, TypeInv
  <1>3. r.i \in 1..4
    <2>1. r.i <= 4 /\ r.i # 0 /\ r.i \in Nat
      BY <1>1, <1>2 DEF EncodeField, Fields, Fits, EditorType
    <2> QED BY <2>1
  <1>4. PICK field \in {"url", "key", "remote", "mode"} :
           /\ field = Fields[r.i]
           /\ field = "url" <=> r.i = 1
           /\ field = "key" <=> r.i = 2
           /\ field = "remote" <=> r.i = 3
           /\ field = "mode" <=> r.i = 4
    BY <1>3 DEF Fields
  <1>5. PICK snap : snap = [r.snap EXCEPT ![field] = current[field]]
    OBVIOUS
  <1>6. /\ snap \in Config
        /\ snap.sources = r.snap.sources
        /\ snap.url = IF r.i = 1 THEN current.url ELSE r.snap.url
        /\ snap.key = IF r.i = 2 THEN current.key ELSE r.snap.key
        /\ snap.remote = IF r.i = 3 THEN current.remote ELSE r.snap.remote
        /\ snap.mode = IF r.i = 4 THEN current.mode ELSE r.snap.mode
    <2>1. r.snap \in Config
      BY DEF EditorType
    <2>2. CASE field = "url"
      BY <1>2, <1>3, <1>4, <1>5, <2>1, <2>2 DEF Config
    <2>3. CASE field = "key"
      BY <1>2, <1>3, <1>4, <1>5, <2>1, <2>3 DEF Config
    <2>4. CASE field = "remote"
      BY <1>2, <1>3, <1>4, <1>5, <2>1, <2>4 DEF Config
    <2>5. CASE field = "mode"
      BY <1>2, <1>3, <1>4, <1>5, <2>1, <2>5 DEF Config
    <2> QED BY <2>2, <2>3, <2>4, <2>5
  <1>7. PICK i \in Nat : i = r.i + 1
    BY <1>3
  <1>8. PICK v : v = [r EXCEPT !.i = i, !.snap = snap]
    OBVIOUS
  <1>9. /\ v \in EditorType /\ v.pc = "encode" /\ v.i = i /\ v.snap = snap
        /\ v.val = r.val /\ v.op = r.op /\ v.name = r.name /\ v.alone = r.alone
    BY <1>2, <1>6, <1>8 DEF EditorType
  <1>10. editor' = [editor EXCEPT ![e] = v]
    <2>1. editor' = [editor EXCEPT ![e].i = @ + 1, ![e].snap[field] = current[field]]
      BY <1>1, <1>4 DEF EncodeField
    <2>2. editor' = [editor EXCEPT ![e] = [r EXCEPT !.i = r.i + 1,
                                              !.snap = [r.snap EXCEPT ![field] = current[field]]]]
      BY <1>1, <2>1 DEF TypeInv, EditorType
    <2> QED BY <1>5, <1>7, <1>8, <2>2
  <1>11. Onward(e, v)
    BY <1>1, <1>2, <1>9, <1>10 DEF Onward
  <1> QED BY <1>1, <1>2, <1>3, <1>6, <1>7, <1>9, <1>11

\* It asks for the length of the list, once it has read the fields.
LEMMA LenEffect ==
    ASSUME TypeInv, NEW e \in Editors, EncodeLen(e)
    PROVE  /\ process = "up" /\ editor[e].pc = "encode" /\ lock = e
           /\ UNCHANGED <<current, file, lock, failing, torn>>
           /\ editor[e].i > 4
           /\ \E v \in EditorType :
                 /\ Onward(e, v) /\ v.val = editor[e].val
                 /\ v.snap = editor[e].snap /\ v.i = editor[e].i
                 /\ \/ v.pc = "element"
                    \/ v.pc = "write" /\ ~More(e)
  <1>1. PICK pc \in Pcs : /\ Goto(e, pc)
                          /\ pc = "element" \/ (pc = "write" /\ ~More(e))
    BY DEF EncodeLen, Pcs
  <1>2. PICK v \in EditorType : /\ editor' = [editor EXCEPT ![e] = v] /\ v.pc = pc
                                /\ v.op = editor[e].op /\ v.name = editor[e].name
                                /\ v.alone = editor[e].alone /\ v.val = editor[e].val
                                /\ v.i = editor[e].i /\ v.snap = editor[e].snap
    BY <1>1, GotoEffect
  <1>3. /\ process = "up" /\ editor[e].pc = "encode" /\ lock = e /\ editor[e].i > 4
        /\ UNCHANGED <<current, file, lock, failing, torn, process, promised>>
    BY DEF EncodeLen, Fields, At, Unchanged, TypeInv
  <1>4. Onward(e, v)
    BY <1>2, <1>3 DEF Onward
  <1> QED BY <1>1, <1>2, <1>3, <1>4

\* It reads the next data source.
LEMMA ElementEffect ==
    ASSUME TypeInv, NEW e \in Editors, EncodeElement(e)
    PROVE  /\ process = "up" /\ editor[e].pc = "element" /\ lock = e
           /\ UNCHANGED <<current, file, lock, failing, torn>>
           /\ More(e)
           /\ \E v \in EditorType :
                 /\ Onward(e, v) /\ v.pc = "encode" /\ v.val = editor[e].val /\ v.i = editor[e].i
                 /\ v.snap = [editor[e].snap EXCEPT !.sources =
                                 Append(editor[e].snap.sources,
                                        current.sources[Len(editor[e].snap.sources) + 1])]
  <1>1. PICK r \in EditorType : r = editor[e]
    BY DEF TypeInv
  <1>2. /\ process = "up" /\ r.pc = "element" /\ lock = e /\ current \in Config /\ More(e)
        /\ UNCHANGED <<current, file, lock, failing, torn, process, promised>>
    BY <1>1 DEF EncodeElement, At, Unchanged, TypeInv
  <1>3. PICK x : x = current.sources[Len(r.snap.sources) + 1]
    OBVIOUS
  <1>4. x \in DataSource
    <2>1. r.snap.sources \in Seq(DataSource) /\ current.sources \in Seq(DataSource)
      BY <1>2 DEF EditorType, Config
    <2>2. Len(r.snap.sources) < Len(current.sources)
      BY <1>1, <1>2 DEF More
    <2>3. Len(r.snap.sources) + 1 \in 1..Len(current.sources)
      BY <2>1, <2>2
    <2> QED BY <1>3, <2>1, <2>3
  <1>5. PICK list : list = Append(r.snap.sources, x)
    OBVIOUS
  <1>6. PICK snap : snap = [r.snap EXCEPT !.sources = list]
    OBVIOUS
  <1>7. snap \in Config
    <2>1. list \in Seq(DataSource)
      BY <1>4, <1>5 DEF EditorType, Config
    <2> QED BY <1>6, <2>1 DEF EditorType, Config
  <1>8. PICK v : v = [r EXCEPT !.pc = "encode", !.snap = snap]
    OBVIOUS
  <1>9. /\ v \in EditorType /\ v.pc = "encode" /\ v.i = r.i /\ v.snap = snap
        /\ v.val = r.val /\ v.op = r.op /\ v.name = r.name /\ v.alone = r.alone
    BY <1>7, <1>8 DEF EditorType, Pcs
  <1>10. editor' = [editor EXCEPT ![e] = v]
    <2>1. editor' = [editor EXCEPT ![e].pc = "encode",
                         ![e].snap.sources = Append(@, current.sources[Len(@) + 1])]
      BY DEF EncodeElement
    <2>2. editor' = [editor EXCEPT ![e] =
                       [r EXCEPT !.pc = "encode",
                                 !.snap = [r.snap EXCEPT !.sources =
                                    Append(r.snap.sources, current.sources[Len(r.snap.sources) + 1])]]]
      BY <1>1, <2>1 DEF TypeInv, EditorType, Config
    <2> QED BY <1>3, <1>5, <1>6, <1>8, <2>2
  <1>11. Onward(e, v)
    BY <1>1, <1>2, <1>9, <1>10 DEF Onward
  <1> QED BY <1>1, <1>2, <1>3, <1>5, <1>6, <1>9, <1>11

\* A Save that fails releases the lock, and may leave a part of the file.
LEMMA FailsEffect ==
    ASSUME TypeInv, NEW e \in Editors,
           CreateFails(e) \/ WriteFails(e) \/ (EncodePanics(e) /\ ~Crash)
    PROVE  /\ process = "up" /\ editor[e].pc \in {"save", "element", "write"}
           /\ editor' = [editor EXCEPT ![e] = Idle] /\ lock' = NoOne /\ lock \in {e, NoOne}
           /\ \/ UNCHANGED file
              \/ file' = [state |-> "broken", value |-> DefaultConfig]
              \/ \E c \in Cuts(editor[e].snap) : file' = [state |-> "cut", value |-> c]
           /\ failing' = TRUE /\ UNCHANGED <<current, process, torn, promised>>
  <1>1. CASE CreateFails(e)
    BY <1>1 DEF CreateFails, Ends, At
  <1>2. CASE WriteFails(e)
    <2>1. lock = e
      BY <1>2 DEF WriteFails, At, TypeInv
    <2>2. \/ file' = [state |-> "broken", value |-> DefaultConfig]
          \/ \E c \in Cuts(editor[e].snap) : file' = [state |-> "cut", value |-> c]
      BY <1>2 DEF WriteFails
    <2> QED BY <1>2, <2>1, <2>2 DEF WriteFails, Ends, At
  <1>3. CASE EncodePanics(e) /\ ~Crash
    <2>1. lock = e
      BY <1>3 DEF EncodePanics, At, TypeInv
    <2> QED BY <1>3, <2>1 DEF EncodePanics, Ends, At
  <1> QED BY <1>1, <1>2, <1>3

\* One that succeeds leaves what was encoded, and fulfils an undisturbed edit.
LEMMA WriteEffect ==
    ASSUME TypeInv, NEW e \in Editors, Write(e)
    PROVE  /\ process = "up" /\ editor[e].pc = "write" /\ lock = e
           /\ editor' = [editor EXCEPT ![e] = Idle] /\ lock' = NoOne
           /\ file' = [state |-> IF torn THEN "torn" ELSE "whole", value |-> editor[e].snap]
           /\ failing' = FALSE /\ UNCHANGED <<current, process, torn>>
           /\ promised' = IF editor[e].alone
                          THEN [promised EXCEPT ![Target(editor[e])] = Wanted(editor[e])]
                          ELSE promised
  BY DEF Write, Ends, At, TypeInv

-----------------------------------------------------------------------------
(* Every step keeps the types.                                             *)

\* A part of the file gives a record.
LEMMA CutsType == ASSUME NEW c \in Config PROVE Cuts(c) \subseteq Config
  <1>1. DefaultConfig \in Config
    BY Defaults
  <1>2. ASSUME NEW k \in 0..Len(c.sources)
        PROVE  [c EXCEPT !.sources = SubSeq(@, 1, k)] \in Config
    <2>1. c.sources \in Seq(DataSource)
      BY DEF Config
    <2>2. SubSeq(c.sources, 1, k) \in Seq(DataSource)
      BY <1>2, <2>1
    <2> QED BY <2>2 DEF Config
  <1>3. \A k \in 0..Len(c.sources) : [c EXCEPT !.sources = SubSeq(@, 1, k)] \in Config
    BY <1>2
  <1>4. /\ [DefaultConfig EXCEPT !.url = c.url] \in Config
        /\ [DefaultConfig EXCEPT !.url = c.url, !.key = c.key] \in Config
        /\ [DefaultConfig EXCEPT !.url = c.url, !.key = c.key, !.remote = c.remote] \in Config
    BY <1>1 DEF Config
  <1> QED BY <1>1, <1>3, <1>4 DEF Cuts

\* So does every file that can be parsed.
LEMMA FileType ==
    /\ \A c \in Config : [state |-> "whole", value |-> c] \in Files
    /\ \A c \in Config : [state |-> "torn", value |-> c] \in Files
    /\ \A c \in Config : [state |-> "cut", value |-> c] \in Files
    /\ \A c \in Config : [state |-> "broken", value |-> c] \in Files
    /\ \A f \in Files : Loaded(f) \in Config
  BY Defaults DEF Files, Loaded

\* A data source is replaced by another, ...
LEMMA ReplaceType ==
    ASSUME NEW c \in Config, NEW i \in DOMAIN c.sources, NEW d \in DataSource
    PROVE  [c EXCEPT !.sources = [c.sources EXCEPT ![i] = d]] \in Config
  <1>1. c.sources \in Seq(DataSource)
    BY DEF Config
  <1>2. [c.sources EXCEPT ![i] = d] \in Seq(DataSource)
    BY <1>1
  <1> QED BY <1>2 DEF Config

\* ... and a field by what the edit has for it.
LEMMA ChangedType ==
    ASSUME TypeInv, NEW r \in EditorType, Fits(r), r.pc = "assign"
    PROVE  Changed(r) \in Config
  <1>1. current \in Config /\ r.list \in Lists /\ r.op \in Ops
    BY DEF TypeInv, EditorType
  <1>2. CASE r.op = "source"
    <2>1. PICK d \in DataSource : d = [name |-> r.name, val |-> r.val]
      BY <1>2 DEF Fits, DataSource
    <2>2. Append(r.list, d) \in Seq(DataSource)
      BY <1>1 DEF Lists
    <2> QED BY <1>1, <1>2, <2>1, <2>2 DEF Changed, Config
  <1>3. CASE r.op = "delete"
    <2>1. Without(r.list, r.name) \in Seq(DataSource)
      BY <1>1, Filtered DEF Lists
    <2> QED BY <1>1, <1>3, <2>1 DEF Changed, Config
  <1>4. CASE r.op = "toggle"
    BY <1>1, <1>4 DEF Changed, Config, Fits
  <1>5. CASE r.op = "mode"
    BY <1>1, <1>5 DEF Changed, Config, Fits
  <1>6. CASE r.op \in {"setup", "pair"}
    BY <1>1, <1>6 DEF Changed, Config, Fits
  <1> QED BY <1>1, <1>2, <1>3, <1>4, <1>5, <1>6 DEF Fits, Ops

\* A step of an edit outside Save keeps the types.
LEMMA TypeOnward ==
    ASSUME TypeInv, NEW e \in Editors, editor[e].pc \notin {"encode", "element", "write"},
           NEW v \in EditorType, Onward(e, v), v.pc \notin {"idle", "encode", "element", "write", "request"},
           v.op = "find" => v.pc = "scan",
           v.op \in {"setup", "pair"} => v.pc \in {"assign", "key", "save"},
           v.op = "mode" => v.pc = "save",
           v.op = "toggle" => v.pc \in {"assign", "save"} /\ v.val \in BOOLEAN,
           v.op = "source" => v.pc \in {"scan", "replace", "read", "assign", "save"},
           v.op = "delete" => v.pc \in {"assign", "save"},
           v.op # "toggle" => v.val = editor[e].val,
           v.pc \in {"scan", "replace"} => v.i # 0,
           current' \in Config, torn' \in BOOLEAN, UNCHANGED <<file, lock, failing>>
    PROVE  TypeInv'
  <1>1. editor[e] \in EditorType /\ Fits(editor[e])
    BY DEF TypeInv
  <1>2. v.op = editor[e].op /\ v.name = editor[e].name
    BY DEF Onward
  <1>3. Fits(v)
    BY <1>1, <1>2 DEF Fits, Storing
  <1>4. DOMAIN promised' = Parts /\ failing' \in BOOLEAN
    BY DEF TypeInv, Onward
  <1> QED BY <1>3, <1>4, TypeGoes DEF Onward

\* So does one that ends it.
LEMMA TypeDropped ==
    ASSUME TypeInv, NEW e \in Editors, editor[e].pc \notin {"encode", "element", "write"}, Dropped(e)
    PROVE  TypeInv'
  <1>1. Idle \in EditorType /\ Fits(Idle) /\ Idle.pc = "idle"
    BY Defaults DEF Idle
  <1>2. /\ current' \in Config /\ failing' \in BOOLEAN /\ torn' \in BOOLEAN
        /\ DOMAIN promised' = Parts /\ UNCHANGED <<file, lock, process>>
    BY DEF TypeInv, Dropped, Unchanged
  <1> QED BY <1>1, <1>2, TypeGoes DEF Dropped

\* And so does every step.
LEMMA TypeStep ==
    ASSUME TypeInv, [Next]_vars
    PROVE  TypeInv'
  <1>1. ASSUME NEW e \in Editors, BeginSettings(e) \/ BeginSource(e)
        PROVE  TypeInv'
    BY <1>1, RequestEffect, TypeBegin
  <1>2. ASSUME NEW e \in Editors, Paired(e)
        PROVE  TypeInv'
    <2>1. PICK v \in EditorType : Onward(e, v) /\ v.pc = "assign" /\ v.val = editor[e].val
      BY <1>2, PairedEffect
    <2>2. /\ editor[e].pc = "request" /\ UNCHANGED <<current, file, lock, failing, torn>>
          /\ current' \in Config /\ torn' \in BOOLEAN
      BY <1>2, PairedEffect DEF TypeInv
    <2>3. v.op \in {"setup", "pair"}
      BY <2>1, <2>2 DEF TypeInv, Fits, EditorType, Onward, Ops, Storing
    <2> QED BY <2>1, <2>2, <2>3, TypeOnward
  <1>3. ASSUME NEW e \in Editors, NotPaired(e)
        PROVE  TypeInv'
    BY <1>3, DroppedEffect, TypeDropped
  <1>4. ASSUME NEW e \in Editors, Scan(e)
        PROVE  TypeInv'
    <2>1. CASE Crash \/ Dropped(e)
      BY <1>4, <2>1, ScanEffect, TypeCrash, TypeDropped
    <2>2. ASSUME NEW v \in EditorType, UNCHANGED <<current, file, lock, failing, torn>>, Onward(e, v),
                 v.val = editor[e].val, Searched(e, v) \/ Advanced(e, v) \/ Matched(e, v)
          PROVE  TypeInv'
      <3>1. editor[e].pc = "scan" /\ current' \in Config /\ torn' \in BOOLEAN
        BY <1>4, <2>2, ScanEffect DEF TypeInv
      <3>2. /\ v.op = editor[e].op /\ editor[e].op \in {"source", "find"}
            /\ editor[e].i \in Nat /\ editor[e].i # 0
        BY <2>2, <3>1 DEF TypeInv, Fits, EditorType, Onward, Ops, Storing
      <3>3. /\ v.pc \in {"scan", "replace", "read"} /\ v.i \in Nat
            /\ v.pc \in {"scan", "replace"} => v.i # 0
            /\ v.op = "find" => v.pc = "scan"
        BY <2>2, <3>2 DEF Searched, Advanced, Matched, EditorType
      <3> QED BY <2>2, <3>1, <3>2, <3>3, TypeOnward
    <2> QED BY <1>4, <2>1, <2>2, ScanEffect
  <1>5. ASSUME NEW e \in Editors, Replace(e)
        PROVE  TypeInv'
    <2>1. CASE Crash \/ Dropped(e)
      BY <1>5, <2>1, ReplaceEffect, TypeCrash, TypeDropped
    <2>2. ASSUME NEW v \in EditorType, Onward(e, v), v.pc = "save", v.val = editor[e].val,
                 editor[e].i \in DOMAIN current.sources,
                 current' = [current EXCEPT !.sources = [current.sources EXCEPT ![editor[e].i] =
                               [name |-> editor[e].name, val |-> editor[e].val]]],
                 UNCHANGED <<file, lock, failing, torn>>
          PROVE  TypeInv'
      <3>1. editor[e].pc = "replace" /\ current \in Config /\ torn' \in BOOLEAN
        BY <1>5, <2>2, ReplaceEffect DEF TypeInv
      <3>2. /\ editor[e].op = "source" /\ v.op = "source"
            /\ editor[e].name \in Names /\ editor[e].val \in Vals
        BY <2>2, <3>1 DEF TypeInv, Fits, EditorType, Onward, Ops, Storing
      <3>3. PICK d \in DataSource : d = [name |-> editor[e].name, val |-> editor[e].val]
        BY <3>2 DEF DataSource
      <3>4. current' \in Config
        BY <2>2, <3>1, <3>3, ReplaceType
      <3> QED BY <2>2, <3>1, <3>2, <3>4, TypeOnward
    <2> QED BY <1>5, <2>1, <2>2, ReplaceEffect
  <1>6. ASSUME NEW e \in Editors, Read(e)
        PROVE  TypeInv'
    <2>1. PICK v \in EditorType : /\ Onward(e, v) /\ v.pc = "assign"
                                  /\ editor[e].op = "toggle" => v.val \in BOOLEAN
                                  /\ editor[e].op # "toggle" => v.val = editor[e].val
      BY <1>6, ReadEffect
    <2>2. /\ editor[e].pc = "read" /\ UNCHANGED <<current, file, lock, failing, torn>>
          /\ current' \in Config /\ torn' \in BOOLEAN
      BY <1>6, ReadEffect DEF TypeInv
    <2>3. v.op = editor[e].op /\ v.op \in {"toggle", "source", "delete"}
      BY <2>1, <2>2 DEF TypeInv, Fits, EditorType, Onward, Ops, Storing
    <2> QED BY <2>1, <2>2, <2>3, TypeOnward
  <1>7. ASSUME NEW e \in Editors, Assign(e)
        PROVE  TypeInv'
    <2>1. PICK v \in EditorType : /\ Onward(e, v) /\ v.val = editor[e].val
                                  /\ editor[e].op \in {"setup", "pair"} => v.pc = "key"
                                  /\ editor[e].op \notin {"setup", "pair"} => v.pc = "save"
      BY <1>7, AssignEffect
    <2>2. /\ editor[e].pc = "assign" /\ UNCHANGED <<file, lock, failing>>
          /\ current' = Changed(editor[e]) /\ torn' \in BOOLEAN
      BY <1>7, AssignEffect
    <2>3. v.op = editor[e].op /\ v.op \in Ops \ {"find"} /\ (v.op = "toggle" => v.val \in BOOLEAN)
      BY <2>1, <2>2 DEF TypeInv, Fits, EditorType, Onward
    <2>4. current' \in Config
      BY <2>2, ChangedType DEF TypeInv
    <2>5. v.pc \in {"key", "save"}
      BY <2>1
    <2> QED BY <2>1, <2>2, <2>3, <2>4, <2>5, TypeOnward DEF Ops
  <1>8. ASSUME NEW e \in Editors, AssignKey(e)
        PROVE  TypeInv'
    <2>1. PICK v \in EditorType : Onward(e, v) /\ v.pc = "save" /\ v.val = editor[e].val
      BY <1>8, AssignKeyEffect
    <2>2. /\ editor[e].pc = "key" /\ UNCHANGED <<file, lock, failing>>
          /\ current' = [current EXCEPT !.key = editor[e].val] /\ torn' \in BOOLEAN
      BY <1>8, AssignKeyEffect DEF TypeInv
    <2>3. /\ v.op = editor[e].op /\ v.op \in {"setup", "pair"}
          /\ editor[e].val \in Clouds /\ current \in Config
      BY <2>1, <2>2 DEF TypeInv, Fits, EditorType, Onward, Ops, Storing
    <2>4. current' \in Config
      BY <2>2, <2>3 DEF Config
    <2> QED BY <2>1, <2>2, <2>3, <2>4, TypeOnward
  <1>9. ASSUME NEW e \in Editors, Create(e)
        PROVE  TypeInv'
    <2>1. PICK v \in EditorType : Onward(e, v) /\ v.pc = "encode" /\ v.val = editor[e].val /\ v.i = 1
      BY <1>9, CreateEffect
    <2>2. /\ editor[e].pc = "save" /\ lock = NoOne /\ lock' = e
          /\ file' = [state |-> "cut", value |-> DefaultConfig]
          /\ UNCHANGED <<current, failing>> /\ torn' = FALSE
      BY <1>9, CreateEffect
    <2>3. Fits(v)
      BY <2>1, <2>2 DEF TypeInv, Fits, Onward, Storing
    <2>4. /\ current' \in Config /\ file' \in Files /\ failing' \in BOOLEAN /\ torn' \in BOOLEAN
          /\ DOMAIN promised' = Parts
      BY <2>1, <2>2, Defaults, FileType DEF TypeInv, Onward
    <2> QED BY <2>1, <2>2, <2>3, <2>4, TypeMoved DEF Onward
  <1>10. ASSUME NEW e \in Editors, CreateFails(e) \/ WriteFails(e) \/ EncodePanics(e)
         PROVE  TypeInv'
    <2> SUFFICES ASSUME ~Crash PROVE TypeInv'
      BY TypeCrash
    <2>1. /\ process = "up" /\ editor[e].pc \in {"save", "element", "write"}
          /\ editor' = [editor EXCEPT ![e] = Idle] /\ lock' = NoOne /\ lock \in {e, NoOne}
          /\ \/ UNCHANGED file
             \/ file' = [state |-> "broken", value |-> DefaultConfig]
             \/ \E c \in Cuts(editor[e].snap) : file' = [state |-> "cut", value |-> c]
          /\ failing' = TRUE /\ UNCHANGED <<current, process, torn, promised>>
      BY <1>10, FailsEffect
    <2>2. Cuts(editor[e].snap) \subseteq Config
      BY CutsType DEF TypeInv, EditorType
    <2>3. /\ current' \in Config /\ file' \in Files /\ failing' \in BOOLEAN /\ torn' \in BOOLEAN
          /\ DOMAIN promised' = Parts
      BY <2>1, <2>2, Defaults, FileType DEF TypeInv
    <2>4. Idle \in EditorType /\ Fits(Idle) /\ Idle.pc = "idle" /\ NoOne # e
      BY Defaults, ConfigAssumption DEF Idle, ConfigAssumption
    <2> QED BY <2>1, <2>3, <2>4, TypeMoved
  <1>11. ASSUME NEW e \in Editors, EncodeField(e) \/ EncodeLen(e) \/ EncodeElement(e)
         PROVE  TypeInv'
    <2>1. /\ editor[e].pc \in {"encode", "element"} /\ lock = e
          /\ UNCHANGED <<current, file, lock, failing, torn>>
      BY <1>11, FieldEffect, LenEffect, ElementEffect
    <2>2. editor[e] \in EditorType /\ Fits(editor[e]) /\ editor[e].i \in Nat \ {0}
      BY <2>1 DEF TypeInv, EditorType, Fits
    <2>3. PICK v \in EditorType : /\ Onward(e, v) /\ v.pc \in {"encode", "element", "write"}
                                  /\ v.val = editor[e].val
                                  /\ v.i \in {editor[e].i, editor[e].i + 1}
      BY <1>11, FieldEffect, LenEffect, ElementEffect
    <2>4. v.op = editor[e].op /\ v.name = editor[e].name /\ v.i # 0
      BY <2>2, <2>3 DEF Onward
    <2>5. Fits(v)
      BY <2>1, <2>2, <2>3, <2>4 DEF Fits, Storing
    <2>6. /\ current' \in Config /\ file' \in Files /\ failing' \in BOOLEAN /\ torn' \in BOOLEAN
          /\ DOMAIN promised' = Parts
      BY <2>1, <2>3 DEF TypeInv, Onward
    <2> QED BY <2>1, <2>3, <2>5, <2>6, TypeMoved DEF Onward
  <1>12. ASSUME NEW e \in Editors, Write(e)
         PROVE  TypeInv'
    <2>1. /\ lock = e /\ editor' = [editor EXCEPT ![e] = Idle] /\ lock' = NoOne
          /\ file' = [state |-> IF torn THEN "torn" ELSE "whole", value |-> editor[e].snap]
          /\ failing' = FALSE /\ UNCHANGED <<current, process, torn>>
          /\ promised' = IF editor[e].alone
                         THEN [promised EXCEPT ![Target(editor[e])] = Wanted(editor[e])]
                         ELSE promised
      BY <1>12, WriteEffect
    <2>2. current' \in Config /\ file' \in Files /\ failing' \in BOOLEAN /\ torn' \in BOOLEAN
      BY <2>1, FileType DEF TypeInv, EditorType
    <2>3. DOMAIN promised' = Parts
      BY <2>1 DEF TypeInv
    <2>4. Idle \in EditorType /\ Fits(Idle) /\ Idle.pc = "idle" /\ NoOne # e
      BY Defaults, ConfigAssumption DEF Idle, ConfigAssumption
    <2> QED BY <2>1, <2>2, <2>3, <2>4, TypeMoved
  <1>13. CASE Load \/ LoadFails \/ Unstartable \/ UNCHANGED vars
    <2>1. UNCHANGED <<file, lock, editor>>
      BY <1>13 DEF Load, LoadFails, Unstartable, vars
    <2>2. /\ current' \in Config /\ process' \in {"down", "up", "unstartable"}
          /\ failing' \in BOOLEAN /\ torn' \in BOOLEAN /\ DOMAIN promised' = Parts
      BY <1>13, FileType DEF TypeInv, Load, LoadFails, Unstartable, vars
    <2>3. \A e \in Editors : Fits(editor[e])'
      BY <2>1 DEF TypeInv, Fits
    <2> QED BY <2>1, <2>2, <2>3 DEF TypeInv
  <1>14. CASE Crash
    BY <1>14, TypeCrash
  <1> QED BY <1>1, <1>2, <1>3, <1>4, <1>5, <1>6, <1>7, <1>8, <1>9, <1>10, <1>11, <1>12, <1>13, <1>14
          DEF Next, EditorStep

\* They hold at first.
LEMMA TypeInit == Init => TypeInv
  <1> SUFFICES ASSUME Init PROVE TypeInv
    OBVIOUS
  <1>1. DefaultConfig \in Config /\ Idle \in EditorType /\ Fits(Idle) /\ Idle.pc = "idle"
    BY Defaults DEF Idle
  <1>2. file \in Files
    <2>1. CASE file = [state |-> "missing", value |-> DefaultConfig]
      BY <1>1, <2>1 DEF Files
    <2>2. ASSUME NEW c \in Clouds, NEW s \in InitialSources,
                 file = [state |-> "whole",
                         value |-> [DefaultConfig EXCEPT !.url = c, !.key = c, !.sources = s]]
          PROVE  file \in Files
      <3>1. s \in Seq(DataSource)
        BY ConfigAssumption DEF ConfigAssumption, DataSource
      <3>2. [DefaultConfig EXCEPT !.url = c, !.key = c, !.sources = s] \in Config
        BY <1>1, <3>1 DEF Config
      <3> QED BY <2>2, <3>2, FileType
    <2>3. \/ file = [state |-> "missing", value |-> DefaultConfig]
          \/ \E c \in Clouds, s \in InitialSources :
                file = [state |-> "whole",
                        value |-> [DefaultConfig EXCEPT !.url = c, !.key = c, !.sources = s]]
      BY DEF Init
    <2> QED BY <2>1, <2>2, <2>3
  <1>3. \A e \in Editors : editor[e] = Idle
    BY DEF Init
  <1>4. \A e \in Editors : Fits(editor[e]) /\ editor[e].pc = "idle"
    BY <1>1, <1>3
  <1>5. NoOne \notin Editors
    BY ConfigAssumption DEF ConfigAssumption
  <1>6. editor \in [Editors -> EditorType]
    BY <1>1 DEF Init
  <1> QED BY <1>1, <1>2, <1>4, <1>5, <1>6 DEF Init, TypeInv

\* The types of the variables, where an edit of each kind may be, and that the
\* write lock is held exactly by the goroutine that has created the file.
THEOREM TypeCorrect == Spec => []TypeOK
  <1>1. TypeInv /\ [Next]_vars => TypeInv'
    BY TypeStep
  <1> QED BY <1>1, TypeInit, TypeInvIsType, PTL DEF Spec

-----------------------------------------------------------------------------
(* What is in the file.                                                    *)

Quiet == process # "up" => \A e \in Editors : editor[e] = Idle

\* An edit that has changed the record and will encode it.
Changing(r) == r.pc \in {"key", "save"}

\* What the encoder has read of the record c.
Reads(r, c) ==
    /\ r.pc \in {"encode", "element"} =>
          /\ r.i > 1 => r.snap.url = c.url
          /\ r.i > 2 => r.snap.key = c.key
          /\ r.i > 3 => r.snap.remote = c.remote
          /\ r.i > 4 => r.snap.mode = c.mode
          /\ Len(r.snap.sources) <= Len(c.sources)
          /\ \A k \in 1..Len(r.snap.sources) : r.snap.sources[k] = c.sources[k]
    /\ r.pc = "write" => r.snap = c

\* What was encoded is the record, or someone who changed it since will save
\* it; so is the file, when nobody holds the lock.
Written ==
    process = "up" =>
        /\ (\A e \in Editors : Reads(editor[e], current)) \/ \E f \in Editors : Changing(editor[f])
        /\ lock = NoOne /\ ~failing /\ (\A f \in Editors : ~Changing(editor[f]))
              => Loaded(file) = current

\* What an edit does leaves the records of the others.
LEMMA Moved ==
    ASSUME TypeInv, NEW e \in Editors, NEW v, editor' = [editor EXCEPT ![e] = v]
    PROVE  editor'[e] = v /\ \A f \in Editors : f # e => editor'[f] = editor[f]
  BY DEF TypeInv

\* A step of one edit that changes neither record nor file, and that is not the
\* end of a Save.
LEMMA WrittenSame ==
    ASSUME TypeInv, Written, NEW e \in Editors, NEW v, editor' = [editor EXCEPT ![e] = v],
           editor[e].pc \notin {"key", "save", "encode", "element", "write"},
           v.pc \notin {"key", "save", "encode", "element", "write"},
           UNCHANGED <<current, file, lock, failing, process>>
    PROVE  Written'
  <1>1. editor'[e] = v /\ \A f \in Editors : f # e => editor'[f] = editor[f]
    BY Moved
  <1>2. \A f \in Editors : editor'[f].pc \in {"key", "save"} <=> editor[f].pc \in {"key", "save"}
    BY <1>1
  <1>3. \A f \in Editors : Reads(editor[f], current) => Reads(editor'[f], current)
    BY <1>1 DEF Reads
  <1> QED BY <1>2, <1>3 DEF Written, Changing, Loaded

\* A step that leaves someone who will save.
LEMMA WrittenLater ==
    ASSUME NEW f \in Editors, editor'[f].pc \in {"key", "save"}
    PROVE  Written'
  BY DEF Written, Changing

\* Every step keeps file and record together.
LEMMA WrittenStep ==
    ASSUME TypeInv, Quiet, Written, TypeInv', [Next]_vars
    PROVE  Written'
  <1>1. ASSUME NEW e \in Editors, BeginSettings(e) \/ BeginSource(e)
        PROVE  Written'
    <2>1. PICK r \in EditorType : Begin(e, r) /\ Fits(r) /\ Begins(r)
      BY <1>1, RequestEffect
    <2>2. /\ editor[e].pc = "idle" /\ UNCHANGED <<current, file, lock, process, failing, torn>>
          /\ \A f \in Editors : f # e => editor'[f] = [editor[f] EXCEPT !.alone = editor'[f].alone]
          /\ editor'[e] = [r EXCEPT !.alone = editor'[e].alone]
      BY <2>1, BeginEffect
    <2>3. \A f \in Editors : editor[f] \in EditorType
      BY DEF TypeInv
    <2>4. ASSUME NEW f \in Editors, f # e
          PROVE  /\ editor'[f].pc = editor[f].pc /\ editor'[f].snap = editor[f].snap
                 /\ editor'[f].i = editor[f].i
      <3>1. PICK a : editor'[f] = [editor[f] EXCEPT !.alone = a]
        BY <2>2, <2>4
      <3> QED BY <2>3, <3>1 DEF EditorType
    <2>5. editor'[e].pc = r.pc /\ r.pc \notin {"key", "save", "encode", "element", "write"}
      BY <2>1, <2>2 DEF EditorType, Begins
    <2>6. /\ \A f \in Editors : editor'[f].pc \in {"key", "save"} <=> editor[f].pc \in {"key", "save"}
          /\ \A f \in Editors : Reads(editor[f], current) => Reads(editor'[f], current)
      BY <2>2, <2>4, <2>5 DEF Reads
    <2> QED BY <2>2, <2>6 DEF Written, Changing, Loaded
  <1>2. ASSUME NEW e \in Editors, Dropped(e), editor[e].pc \in {"request", "scan", "replace"}
        PROVE  Written'
    <2>1. Idle.pc = "idle"
      BY DEF Idle
    <2> QED BY <1>2, <2>1, WrittenSame DEF Dropped, Unchanged
  <1>3. ASSUME NEW e \in Editors, Paired(e)
        PROVE  Written'
    BY <1>3, PairedEffect, WrittenSame DEF Onward
  <1>4. ASSUME NEW e \in Editors, NotPaired(e)
        PROVE  Written'
    BY <1>2, <1>4, DroppedEffect
  <1>5. CASE Crash
    BY <1>5 DEF Crash, Written
  <1>6. ASSUME NEW e \in Editors, Scan(e)
        PROVE  Written'
    <2>1. editor[e].pc = "scan"
      BY <1>6, ScanEffect
    <2>2. ASSUME NEW v, Onward(e, v), UNCHANGED <<current, file, lock, failing, torn>>,
                 Searched(e, v) \/ Advanced(e, v) \/ Matched(e, v)
          PROVE  Written'
      BY <2>1, <2>2, WrittenSame DEF Onward, Searched, Advanced, Matched
    <2> QED BY <1>2, <1>5, <1>6, <2>1, <2>2, ScanEffect
  <1>7. ASSUME NEW e \in Editors, NEW v, Onward(e, v), v.pc \in {"key", "save"}
        PROVE  Written'
    BY <1>7, Moved, WrittenLater DEF Onward
  <1>8. ASSUME NEW e \in Editors, Replace(e)
        PROVE  Written'
    BY <1>2, <1>5, <1>7, <1>8, ReplaceEffect
  <1>9. ASSUME NEW e \in Editors, Read(e)
        PROVE  Written'
    BY <1>9, ReadEffect, WrittenSame DEF Onward
  <1>10. ASSUME NEW e \in Editors, Assign(e)
         PROVE  Written'
    <2>1. PICK v \in EditorType : Onward(e, v) /\ v.pc \in {"key", "save"}
      BY <1>10, AssignEffect
    <2> QED BY <1>7, <2>1
  <1>11. ASSUME NEW e \in Editors, AssignKey(e)
         PROVE  Written'
    BY <1>7, <1>11, AssignKeyEffect
  <1>12. ASSUME NEW e \in Editors, Create(e)
         PROVE  Written'
    <2>1. PICK v \in EditorType : /\ Onward(e, v) /\ v.pc = "encode" /\ v.i = 1
                                  /\ v.snap = DefaultConfig
      BY <1>12, CreateEffect
    <2>2. lock' = e /\ current' \in Config
      BY <1>12, CreateEffect DEF TypeInv
    <2>3. lock' # NoOne
      BY <2>2, ConfigAssumption DEF ConfigAssumption
    <2>4. \A f \in Editors : f # e => editor'[f].pc \notin {"encode", "element", "write"}
      BY <2>2 DEF TypeInv
    <2>5. Reads(editor'[e], current')
      <3>1. editor'[e] = v
        BY <2>1, Moved DEF Onward
      <3>2. Len(v.snap.sources) = 0 /\ Len(current'.sources) \in Nat
        <4>1. v.snap.sources = <<>> /\ current'.sources \in Seq(DataSource)
          BY <2>1, <2>2 DEF DefaultConfig, Config
        <4> QED BY <4>1
      <3> QED BY <2>1, <2>2, <3>1, <3>2 DEF Reads
    <2>6. \A f \in Editors : Reads(editor'[f], current')
      BY <2>4, <2>5 DEF Reads
    <2> QED BY <2>3, <2>6 DEF Written
  <1>13. ASSUME NEW e \in Editors, CreateFails(e) \/ WriteFails(e) \/ EncodePanics(e)
         PROVE  Written'
    <2> SUFFICES ASSUME ~Crash PROVE Written'
      BY <1>5
    <2>1. lock' = NoOne /\ failing' = TRUE
      BY <1>13, FailsEffect
    <2>2. \A f \in Editors : editor'[f].pc \notin {"encode", "element", "write"}
      BY <2>1, ConfigAssumption DEF TypeInv, ConfigAssumption
    <2>3. \A f \in Editors : Reads(editor'[f], current')
      BY <2>2 DEF Reads
    <2> QED BY <2>1, <2>3 DEF Written
  <1>14. ASSUME NEW e \in Editors, NEW v \in EditorType, Onward(e, v), lock = e,
                UNCHANGED <<current, lock>>, editor[e].pc \in {"encode", "element"},
                v.pc \in {"encode", "element", "write"},
                Reads(editor[e], current) => Reads(v, current)
         PROVE  Written'
    <2>1. editor'[e] = v /\ \A f \in Editors : f # e => editor'[f] = editor[f]
      BY <1>14, Moved DEF Onward
    <2>2. lock' # NoOne
      BY <1>14, ConfigAssumption DEF ConfigAssumption
    <2>3. \A f \in Editors : Changing(editor[f]) => Changing(editor'[f])
      BY <1>14, <2>1 DEF Changing
    <2>4. (\A f \in Editors : Reads(editor[f], current)) => \A f \in Editors : Reads(editor'[f], current)
      BY <1>14, <2>1
    <2>5. process' = process
      BY <1>14 DEF Onward
    <2> QED BY <1>14, <2>2, <2>3, <2>4, <2>5 DEF Written, Changing
  <1>15. ASSUME NEW e \in Editors, EncodeField(e)
         PROVE  Written'
    <2>1. PICK v \in EditorType :
             /\ Onward(e, v) /\ v.pc = "encode" /\ v.i = editor[e].i + 1
             /\ v.snap.sources = editor[e].snap.sources
             /\ v.snap.url = IF editor[e].i = 1 THEN current.url ELSE editor[e].snap.url
             /\ v.snap.key = IF editor[e].i = 2 THEN current.key ELSE editor[e].snap.key
             /\ v.snap.remote = IF editor[e].i = 3 THEN current.remote ELSE editor[e].snap.remote
             /\ v.snap.mode = IF editor[e].i = 4 THEN current.mode ELSE editor[e].snap.mode
      BY <1>15, FieldEffect
    <2>2. /\ editor[e].pc = "encode" /\ lock = e /\ UNCHANGED <<current, lock>>
          /\ editor[e].i \in 1..4
      BY <1>15, FieldEffect
    <2>3. Reads(editor[e], current) => Reads(v, current)
      BY <2>1, <2>2 DEF Reads
    <2> QED BY <1>14, <2>1, <2>2, <2>3
  <1>16. ASSUME NEW e \in Editors, EncodeLen(e)
         PROVE  Written'
    <2>1. PICK v \in EditorType :
             /\ Onward(e, v) /\ v.snap = editor[e].snap /\ v.i = editor[e].i
             /\ v.pc = "element" \/ (v.pc = "write" /\ ~More(e))
      BY <1>16, LenEffect
    <2>2. /\ editor[e].pc = "encode" /\ lock = e /\ UNCHANGED <<current, lock>>
          /\ editor[e].i > 4
      BY <1>16, LenEffect
    <2>3. Reads(editor[e], current) => Reads(v, current)
      <3>1. CASE v.pc = "element"
        BY <2>1, <2>2, <3>1 DEF Reads
      <3>2. CASE v.pc = "write" /\ ~More(e)
        <4> SUFFICES ASSUME Reads(editor[e], current) PROVE v.snap = current
          BY <3>2 DEF Reads
        <4>1. PICK s : s = editor[e].snap
          OBVIOUS
        <4>2. s \in Config /\ current \in Config /\ editor[e].i \in Nat
          BY <4>1 DEF TypeInv, EditorType
        <4>3. s.sources \in Seq(DataSource) /\ current.sources \in Seq(DataSource)
          BY <4>2 DEF Config
        <4>4. /\ Len(s.sources) <= Len(current.sources)
              /\ ~(Len(s.sources) < Len(current.sources))
              /\ \A k \in 1..Len(s.sources) : s.sources[k] = current.sources[k]
          BY <2>2, <3>2, <4>1 DEF Reads, More
        <4>5. s.sources = current.sources
          <5>1. Len(s.sources) = Len(current.sources)
            BY <4>3, <4>4
          <5> QED BY <4>3, <4>4, <5>1
        <4>6. s.url = current.url /\ s.key = current.key /\ s.remote = current.remote
              /\ s.mode = current.mode
          BY <2>2, <4>1, <4>2 DEF Reads
        <4>7. s = current
          BY <4>2, <4>5, <4>6 DEF Config
        <4> QED BY <2>1, <4>1, <4>7
      <3> QED BY <2>1, <3>1, <3>2
    <2> QED BY <1>14, <2>1, <2>2, <2>3
  <1>17. ASSUME NEW e \in Editors, EncodeElement(e)
         PROVE  Written'
    <2>1. PICK v \in EditorType :
             /\ Onward(e, v) /\ v.pc = "encode" /\ v.i = editor[e].i
             /\ v.snap = [editor[e].snap EXCEPT !.sources =
                             Append(editor[e].snap.sources,
                                    current.sources[Len(editor[e].snap.sources) + 1])]
      BY <1>17, ElementEffect
    <2>2. /\ editor[e].pc = "element" /\ lock = e /\ UNCHANGED <<current, lock>> /\ More(e)
      BY <1>17, ElementEffect
    <2>3. Reads(editor[e], current) => Reads(v, current)
      <3> SUFFICES ASSUME Reads(editor[e], current) PROVE Reads(v, current)
        OBVIOUS
      <3>1. PICK s : s = editor[e].snap
        OBVIOUS
      <3>2. s \in Config /\ s.sources \in Seq(DataSource) /\ current.sources \in Seq(DataSource)
        BY <3>1 DEF TypeInv, EditorType, Config
      <3>3. PICK n \in Nat : n = Len(s.sources)
        BY <3>2
      <3>4. n < Len(current.sources) /\ Len(current.sources) \in Nat
        BY <2>2, <3>1, <3>2, <3>3 DEF More
      <3>5. /\ v.snap.url = s.url /\ v.snap.key = s.key /\ v.snap.remote = s.remote
            /\ v.snap.mode = s.mode
            /\ v.snap.sources = Append(s.sources, current.sources[n + 1])
        BY <2>1, <3>1, <3>2, <3>3 DEF Config
      <3>6. current.sources[n + 1] \in DataSource
        BY <3>2, <3>4
      <3>7. /\ Len(v.snap.sources) = n + 1
            /\ v.snap.sources[n + 1] = current.sources[n + 1]
            /\ \A k \in 1..n : v.snap.sources[k] = s.sources[k]
        BY <3>2, <3>3, <3>5, <3>6
      <3>8. \A k \in 1..(n + 1) : k = n + 1 \/ k \in 1..n
        OBVIOUS
      <3>9. n + 1 <= Len(current.sources)
        BY <3>4
      <3>10. /\ v.i > 1 => v.snap.url = current.url
             /\ v.i > 2 => v.snap.key = current.key
             /\ v.i > 3 => v.snap.remote = current.remote
             /\ v.i > 4 => v.snap.mode = current.mode
        <4>1. /\ editor[e].i > 1 => s.url = current.url
              /\ editor[e].i > 2 => s.key = current.key
              /\ editor[e].i > 3 => s.remote = current.remote
              /\ editor[e].i > 4 => s.mode = current.mode
          BY <2>2, <3>1 DEF Reads
        <4> QED BY <2>1, <3>5, <4>1
      <3>11. \A k \in 1..n : s.sources[k] = current.sources[k]
        BY <2>2, <3>1, <3>3 DEF Reads
      <3>12. \A k \in 1..(n + 1) : v.snap.sources[k] = current.sources[k]
        BY <3>7, <3>8, <3>11
      <3> QED BY <2>1, <3>7, <3>9, <3>10, <3>12 DEF Reads
    <2> QED BY <1>14, <2>1, <2>2, <2>3
  <1>18. ASSUME NEW e \in Editors, Write(e)
         PROVE  Written'
    <2>1. /\ process = "up" /\ editor[e].pc = "write"
          /\ editor' = [editor EXCEPT ![e] = Idle] /\ lock' = NoOne
          /\ file' = [state |-> IF torn THEN "torn" ELSE "whole", value |-> editor[e].snap]
          /\ UNCHANGED current
      BY <1>18, WriteEffect
    <2>2. \A f \in Editors : editor'[f].pc \notin {"encode", "element", "write"}
      BY <2>1, ConfigAssumption DEF TypeInv, ConfigAssumption
    <2>3. Loaded(file)' = editor[e].snap
      BY <2>1 DEF Loaded
    <2>4. \A f \in Editors : Reads(editor'[f], current')
      BY <2>2 DEF Reads
    <2>5. CASE editor[e].snap = current
      BY <2>1, <2>3, <2>4, <2>5 DEF Written
    <2>6. ASSUME NEW f \in Editors, Changing(editor[f])
          PROVE  Written'
      <3>1. editor'[f].pc \in {"key", "save"}
        BY <2>1, <2>6, Moved DEF Changing
      <3> QED BY <3>1, WrittenLater
    <2>7. Reads(editor[e], current) => editor[e].snap = current
      BY <2>1 DEF Reads
    <2> QED BY <2>1, <2>5, <2>6, <2>7 DEF Written
  <1>19. CASE Load
    <2>1. \A e \in Editors : editor'[e].pc = "idle"
      BY <1>19 DEF Load, Quiet, Idle
    <2>2. Loaded(file)' = current'
      BY <1>19 DEF Load, Loaded
    <2> QED BY <2>1, <2>2 DEF Written, Reads
  <1>20. CASE LoadFails \/ Unstartable
    BY <1>20 DEF LoadFails, Unstartable, vars, Written
  <1>21. CASE UNCHANGED vars
    BY <1>21 DEF vars, Written, Changing, Loaded
  <1> QED BY <1>1, <1>3, <1>4, <1>5, <1>6, <1>8, <1>9, <1>10, <1>11, <1>12, <1>13, <1>15, <1>16,
             <1>17, <1>18, <1>19, <1>20, <1>21 DEF Next, EditorStep

\* No edit outlives its process.
LEMMA QuietStep ==
    ASSUME Quiet, [Next]_vars
    PROVE  Quiet'
  <1>1. CASE Load \/ Crash
    BY <1>1 DEF Load, Crash, Quiet
  <1>2. CASE LoadFails \/ Unstartable \/ UNCHANGED vars
    BY <1>2 DEF LoadFails, Unstartable, vars, Quiet
  <1>3. ASSUME NEW e \in Editors,
               BeginSettings(e) \/ BeginSource(e) \/ Paired(e) \/ NotPaired(e) \/ EditorStep(e)
        PROVE  Crash \/ process' = "up"
    <2>1. CASE BeginSettings(e) \/ BeginSource(e)
      BY <2>1 DEF BeginSettings, BeginSource, Begin, At
    <2>2. CASE Paired(e) \/ NotPaired(e)
      BY <2>2 DEF Paired, NotPaired, At, Unchanged
    <2>3. CASE Scan(e) \/ Replace(e)
      BY <2>3 DEF Scan, Replace, Panics, At, Unchanged
    <2>4. CASE Read(e) \/ Assign(e) \/ AssignKey(e) \/ Create(e) \/ CreateFails(e)
      BY <2>4 DEF Read, Assign, AssignKey, Create, CreateFails, At, Unchanged
    <2>5. CASE EncodeField(e) \/ EncodeLen(e) \/ EncodeElement(e) \/ EncodePanics(e)
               \/ Write(e) \/ WriteFails(e)
      BY <2>5 DEF EncodeField, EncodeLen, EncodeElement, EncodePanics, Write, WriteFails, At, Unchanged
    <2> QED BY <1>3, <2>1, <2>2, <2>3, <2>4, <2>5 DEF EditorStep
  <1>4. CASE process' = "up"
    BY <1>4 DEF Quiet
  <1> QED BY <1>1, <1>2, <1>3, <1>4 DEF Next

\* Every Save that returns without an error leaves in the file what the memory
\* holds, or an edit that is still to save: the encoder reads the record under
\* the lock, and who changes it later saves later.
THEOREM SavedAtRest == Spec => []SavedWhenQuiet
  <1> DEFINE Inv == TypeInv /\ Quiet /\ Written
  <1>1. Init => Inv
    <2> SUFFICES ASSUME Init PROVE Inv
      OBVIOUS
    <2> QED BY TypeInit DEF Init, Quiet, Written
  <1>2. Inv /\ [Next]_vars => Inv'
    BY TypeStep, QuietStep, WrittenStep
  <1>3. Inv => SavedWhenQuiet
    <2> SUFFICES ASSUME Inv, process = "up", ~failing,
                        \A e \in Editors : editor[e].pc \notin {"key", "save", "encode", "element", "write"}
                 PROVE  Loaded(file) = current
      BY DEF SavedWhenQuiet, Saving
    <2>1. lock = NoOne
      BY DEF TypeInv
    <2> QED BY <2>1 DEF Written, Changing
  <1> QED BY <1>1, <1>2, <1>3, PTL DEF Spec

-----------------------------------------------------------------------------
(* Edits that nothing disturbs.                                            *)

Editing(r) == r.pc # "idle" /\ r.op # "find"
Unnamed(s, name) == \A k \in DOMAIN s : s[k].name # name

\* What an undisturbed edit has done of its part.
Progress(r, c) ==
    /\ r.pc = "scan" => /\ r.n = Len(c.sources) /\ r.i <= r.n + 1
                        /\ \A k \in DOMAIN c.sources : k < r.i => c.sources[k].name # r.name
    /\ r.pc = "replace" => Foremost(c.sources, r.name, r.i)
    /\ r.op = "source" /\ r.pc \in {"read", "assign"} => Unnamed(c.sources, r.name)
    /\ r.op \in ListOps /\ r.pc = "assign" => r.list = c.sources
    /\ r.pc = "key" => c.url = r.val
    /\ r.pc \in Storing => PartOf(c, Target(r)) = Wanted(r)

\* The step of an edit that changes the record, to d.
ChangesTo(r, d) ==
    \/ /\ r.pc = "replace" /\ r.i \in DOMAIN current.sources
       /\ d = [current EXCEPT !.sources = [current.sources EXCEPT ![r.i] =
                  [name |-> r.name, val |-> r.val]]]
    \/ r.pc = "assign" /\ d = Changed(r)
    \/ r.pc = "key" /\ d = [current EXCEPT !.key = r.val]

\* A name is the name of no other part.
LEMMA Named == ASSUME NEW c, NEW p \in Names PROVE PartOf(c, p) = Lookup(c, p)
  BY ConfigAssumption DEF ConfigAssumption, PartOf

\* A data source is as it was where the list is.
LEMMA SameSources ==
    ASSUME NEW c \in Config, NEW d, NEW p \in Names, d.sources = c.sources
    PROVE  PartOf(d, p) = PartOf(c, p)
  <1>1. c.sources \in Lists /\ d.sources \in Lists
    BY DEF Config, Lists
  <1>2. SameFirst(c.sources, d.sources, p)
    BY DEF SameFirst
  <1> QED BY <1>1, <1>2, SameFound, Named

\* A change of a setting.
LEMMA SettingChanges ==
    ASSUME TypeInv, NEW r \in EditorType, Fits(r), NEW d, ChangesTo(r, d), r.op \notin ListOps
    PROVE  /\ d.sources = current.sources
           /\ Target(r) # "cloud" => d.url = current.url
           /\ Target(r) \in {"cloud", "mode", "remote"}
           /\ \A p \in Parts : p # Target(r) => PartOf(d, p) = PartOf(current, p)
           /\ r.pc = "assign" /\ r.op \in {"setup", "pair"} => d.url = r.val
           /\ /\ Progress(r, current)
              /\ ~(r.pc = "assign" /\ r.op \in {"setup", "pair"})
              => PartOf(d, Target(r)) = Wanted(r)
  <1>1. /\ current \in Config /\ r.pc \in {"assign", "key"}
        /\ r.pc = "key" => r.op \in {"setup", "pair"}
        /\ r.op \in {"setup", "pair", "mode", "toggle"}
    BY DEF TypeInv, EditorType, Fits, Ops, ListOps, Storing, ChangesTo
  <1>2. CASE r.op \in {"setup", "pair"}
    <2>1. Target(r) = "cloud" /\ Wanted(r) = <<r.val, r.val>>
      BY <1>2 DEF Target, Wanted
    <2>2. d.sources = current.sources /\ d.mode = current.mode /\ d.remote = current.remote
      BY <1>1, <1>2 DEF ChangesTo, Changed, Config
    <2>3. r.pc = "assign" => d.url = r.val
      BY <1>1, <1>2 DEF ChangesTo, Changed, Config
    <2>4. r.pc = "key" => d.url = current.url /\ d.key = r.val
      BY <1>1, <1>2 DEF ChangesTo, Config
    <2>5. ASSUME NEW p \in Parts, p # "cloud"
          PROVE  PartOf(d, p) = PartOf(current, p)
      <3>1. CASE p \in Names
        BY <1>1, <2>2, <3>1, SameSources
      <3>2. CASE p \in {"mode", "remote"}
        BY <2>2, <3>2 DEF PartOf
      <3> QED BY <2>5, <3>1, <3>2 DEF Parts
    <2>6. r.pc = "key" /\ Progress(r, current) => PartOf(d, "cloud") = <<r.val, r.val>>
      BY <2>4 DEF PartOf, Progress
    <2> QED BY <1>1, <1>2, <2>1, <2>2, <2>3, <2>5, <2>6
  <1>3. CASE r.op = "mode"
    <2>1. Target(r) = "mode" /\ Wanted(r) = r.val
      BY <1>3 DEF Target, Wanted
    <2>2. /\ d.sources = current.sources /\ d.url = current.url /\ d.key = current.key
          /\ d.remote = current.remote /\ d.mode = r.val
      BY <1>1, <1>3 DEF ChangesTo, Changed, Config
    <2>3. ASSUME NEW p \in Parts, p # "mode"
          PROVE  PartOf(d, p) = PartOf(current, p)
      <3>1. CASE p \in Names
        BY <1>1, <2>2, <3>1, SameSources
      <3>2. CASE p \in {"cloud", "remote"}
        BY <2>2, <3>2 DEF PartOf
      <3> QED BY <2>3, <3>1, <3>2 DEF Parts
    <2>4. PartOf(d, "mode") = r.val
      BY <2>2 DEF PartOf
    <2> QED BY <1>3, <2>1, <2>2, <2>3, <2>4
  <1>4. CASE r.op = "toggle"
    <2>1. Target(r) = "remote" /\ Wanted(r) = r.val
      BY <1>4 DEF Target, Wanted
    <2>2. /\ d.sources = current.sources /\ d.url = current.url /\ d.key = current.key
          /\ d.mode = current.mode /\ d.remote = r.val
      BY <1>1, <1>4 DEF ChangesTo, Changed, Config
    <2>3. ASSUME NEW p \in Parts, p # "remote"
          PROVE  PartOf(d, p) = PartOf(current, p)
      <3>1. CASE p \in Names
        BY <1>1, <2>2, <3>1, SameSources
      <3>2. CASE p \in {"cloud", "mode"}
        BY <2>2, <3>2 DEF PartOf
      <3> QED BY <2>3, <3>1, <3>2 DEF Parts
    <2>4. PartOf(d, "remote") = r.val
      BY <2>2 DEF PartOf
    <2> QED BY <1>4, <2>1, <2>2, <2>3, <2>4
  <1> QED BY <1>1, <1>2, <1>3, <1>4

\* A change of the list of data sources; when nothing disturbs it, it changes
\* its own data source as it was asked, and no other.
LEMMA ListChanges ==
    ASSUME TypeInv, NEW r \in EditorType, Fits(r), NEW d \in Config, ChangesTo(r, d), r.op \in ListOps
    PROVE  /\ Target(r) \in Names
           /\ \A p \in {"cloud", "mode", "remote"} : PartOf(d, p) = PartOf(current, p)
           /\ d.url = current.url
           /\ Progress(r, current) =>
                 /\ \A p \in Names : p # Target(r) => PartOf(d, p) = PartOf(current, p)
                 /\ PartOf(d, Target(r)) = Wanted(r)
  <1>1. /\ current \in Config /\ current.sources \in Lists /\ d.sources \in Lists
        /\ r.pc \in {"replace", "assign"} /\ r.op \in {"source", "delete"}
        /\ r.pc = "replace" => r.op = "source"
        /\ r.op = "source" => r.name \in Names /\ r.val \in Vals
        /\ r.name \in Names /\ Target(r) = r.name
    BY DEF TypeInv, Config, Lists, EditorType, Fits, ListOps, Storing, ChangesTo, Target
  <1>2. PICK s : d = [current EXCEPT !.sources = s]
    BY <1>1 DEF ChangesTo, Changed
  <1>3. /\ d.sources = s /\ d.url = current.url /\ d.key = current.key /\ d.mode = current.mode
        /\ d.remote = current.remote
    BY <1>1, <1>2 DEF Config
  <1>4. \A p \in {"cloud", "mode", "remote"} : PartOf(d, p) = PartOf(current, p)
    BY <1>3 DEF PartOf
  <1>5. ASSUME Progress(r, current)
        PROVE  /\ \A p \in Names : p # r.name => SameFirst(current.sources, d.sources, p)
               /\ r.op = "source" => \E i : Foremost(d.sources, r.name, i) /\ d.sources[i].val = r.val
               /\ r.op = "delete" => \A i \in DOMAIN d.sources : d.sources[i].name # r.name
    <2>1. CASE r.pc = "replace"
      <3>0. [name |-> r.name, val |-> r.val] \in DataSource
        BY <1>1, <2>1 DEF DataSource
      <3>1. PICK x \in DataSource :
               x = [name |-> r.name, val |-> r.val] /\ x.name = r.name /\ x.val = r.val
        BY <3>0
      <3>2. d.sources = [current.sources EXCEPT ![r.i] = x]
        BY <1>1, <2>1, <3>1 DEF ChangesTo, Config
      <3>3. Foremost(current.sources, x.name, r.i)
        BY <1>5, <2>1, <3>1 DEF Progress
      <3>4. /\ Foremost(d.sources, x.name, r.i) /\ d.sources[r.i].val = x.val
            /\ \A p : p # x.name => SameFirst(current.sources, d.sources, p)
        BY <1>1, <3>2, <3>3, Replaced
      <3> QED BY <1>1, <2>1, <3>1, <3>4
    <2>2. CASE r.pc = "assign" /\ r.op = "source"
      <3>0. [name |-> r.name, val |-> r.val] \in DataSource
        BY <1>1, <2>2 DEF DataSource
      <3>1. PICK x \in DataSource :
               x = [name |-> r.name, val |-> r.val] /\ x.name = r.name /\ x.val = r.val
        BY <3>0
      <3>2. r.list = current.sources /\ Unnamed(current.sources, x.name)
        BY <1>5, <2>2, <3>1 DEF Progress, ListOps
      <3>3. d.sources = Append(current.sources, x)
        BY <1>1, <2>2, <3>1, <3>2 DEF ChangesTo, Changed, Config
      <3>4. /\ \E i : Foremost(d.sources, x.name, i) /\ d.sources[i].val = x.val
            /\ \A p : p # x.name => SameFirst(current.sources, d.sources, p)
        BY <1>1, <3>2, <3>3, Appended DEF Unnamed
      <3> QED BY <2>2, <3>1, <3>4
    <2>3. CASE r.pc = "assign" /\ r.op = "delete"
      <3>1. r.list = current.sources
        BY <1>5, <2>3 DEF Progress, ListOps
      <3>2. d.sources = Without(current.sources, r.name)
        BY <1>1, <2>3, <3>1 DEF ChangesTo, Changed, Config
      <3> QED BY <1>1, <2>3, <3>2, Filtered
    <2> QED BY <1>1, <2>1, <2>2, <2>3
  <1>6. ASSUME Progress(r, current), NEW p \in Names, p # r.name
        PROVE  PartOf(d, p) = PartOf(current, p)
    BY <1>1, <1>5, <1>6, SameFound, Named
  <1>7. ASSUME Progress(r, current)
        PROVE  PartOf(d, r.name) = Wanted(r)
    <2>1. PartOf(d, r.name) = Lookup(d, r.name)
      BY <1>1, Named
    <2>2. CASE r.op = "source"
      <3>1. PICK i : Foremost(d.sources, r.name, i) /\ d.sources[i].val = r.val
        BY <1>5, <1>7, <2>2
      <3>2. Lookup(d, r.name) = r.val
        BY <1>1, <3>1, Found
      <3> QED BY <2>1, <2>2, <3>2 DEF Wanted
    <2>3. CASE r.op = "delete"
      <3>1. Lookup(d, r.name) = "absent"
        BY <1>1, <1>5, <1>7, <2>3, Found
      <3> QED BY <2>1, <2>3, <3>1 DEF Wanted
    <2> QED BY <1>1, <2>2, <2>3
  <1> QED BY <1>1, <1>3, <1>4, <1>6, <1>7

-----------------------------------------------------------------------------
(* The invariant behind SavedAlone.                                        *)

Alone == \A e \in Editors : editor[e].alone /\ Editing(editor[e]) => Progress(editor[e], current)

\* Nothing is promised of a part while it is edited, nor of any data source
\* while edits of their list overlap.
Withdrawn ==
    \A e \in Editors : Editing(editor[e]) =>
        /\ promised[Target(editor[e])] = Unknown
        /\ editor[e].op \in ListOps /\ ~editor[e].alone => \A p \in Names : promised[p] = Unknown

Apart == \A e, f \in Editors : e # f /\ Disturbs(editor[e], editor[f]) => ~editor[e].alone

Holds(c) == \A p \in Parts : promised[p] # Unknown => PartOf(c, p) = promised[p]

\* Parts that stay as they are while the edit r saves: those of which something
\* is promised, by pr, and its own unless another edit disturbs it.
Settled(r, pr) == {p \in Parts : pr[p] # Unknown \/ (r.alone /\ Editing(r) /\ p = Target(r))}

\* The beginning of the list, as far as data sources are in S.
Beginning(l, list, S) ==
    /\ Len(l) <= Len(list)
    /\ \A k \in 1..Len(l) : l[k].name = list[k].name /\ (l[k].name \in S => l[k] = list[k])

\* What the encoder has read of the parts in S is in the record c, for data
\* sources unless the list is torn.
Encoded(r, c, t, S) ==
    /\ r.pc \in {"encode", "element"} =>
          /\ "cloud" \in S => (r.i > 1 => r.snap.url = c.url) /\ (r.i > 2 => r.snap.key = c.key)
          /\ "remote" \in S => (r.i > 3 => r.snap.remote = c.remote)
          /\ "mode" \in S => (r.i > 4 => r.snap.mode = c.mode)
          /\ ~t /\ S \cap Names # {} => Beginning(r.snap.sources, c.sources, S)
    /\ r.pc = "write" => \A p \in S : (t /\ p \in Names) \/ PartOf(r.snap, p) = PartOf(c, p)

\* What was promised, by pr, is in a file that is complete, for data sources
\* unless it is torn.
Stored(f, pr) ==
    \A p \in Parts : \/ pr[p] = Unknown
                     \/ f.state \in {"cut", "broken"} \/ (f.state = "torn" /\ p \in Names)
                     \/ PartOf(Loaded(f), p) = pr[p]

\* What was promised is in memory, in what the encoder has read, and in the file.
Kept ==
    /\ process = "up" => Holds(current)
    /\ \A e \in Editors : Encoded(editor[e], current, torn, Settled(editor[e], promised))
    /\ Stored(file, promised)

AloneInv == Alone /\ Withdrawn /\ Apart /\ Kept

\* What the part of an edit can be.
LEMMA Targets ==
    ASSUME NEW r \in EditorType, Fits(r), Editing(r)
    PROVE  /\ Target(r) \in Parts
           /\ r.op \in ListOps => Target(r) \in Names
           /\ r.op \notin ListOps => /\ Target(r) \in {"cloud", "mode", "remote"}
                                     /\ r.pc \notin {"scan", "replace"} /\ r.op # "source"
           /\ r.pc = "key" => Target(r) = "cloud"
  BY DEF EditorType, Fits, Editing, Target, Parts, ListOps, Ops, Storing

\* Edits of which neither disturbs the other keep out of each other's way.
LEMMA ProgressOther ==
    ASSUME TypeInv, NEW r \in EditorType, Fits(r), NEW d \in Config, ChangesTo(r, d),
           NEW s \in EditorType, Fits(s), Editing(s), ~Disturbs(s, r), Progress(s, current)
    PROVE  Progress(s, d)
  <1>1. Editing(r)
    BY DEF ChangesTo, Fits, Editing
  <1>2. Target(r) # Target(s) /\ ~(r.op \in ListOps /\ s.op \in ListOps)
    BY <1>1 DEF Disturbs, Editing
  <1>3. PICK p \in Parts : p = Target(s)
    BY Targets
  <1>4. CASE r.op \notin ListOps
    <2>1. d.sources = current.sources /\ PartOf(d, p) = PartOf(current, p)
          /\ (Target(r) # "cloud" => d.url = current.url)
      BY <1>2, <1>3, <1>4, SettingChanges
    <2>2. s.pc = "key" => d.url = current.url
      BY <1>2, <2>1, Targets
    <2> QED BY <1>3, <2>1, <2>2 DEF Progress
  <1>5. CASE r.op \in ListOps
    <2>1. s.op \notin ListOps /\ s.pc \notin {"scan", "replace"} /\ s.op # "source"
      BY <1>2, <1>5, Targets
    <2>2. PartOf(d, p) = PartOf(current, p) /\ d.url = current.url
      BY <1>3, <1>5, <2>1, Targets, ListChanges
    <2> QED BY <1>3, <2>1, <2>2 DEF Progress
  <1> QED BY <1>4, <1>5

\* The encoder has read nothing before, and nothing is asked of it after.
LEMMA EncodedNot ==
    ASSUME NEW r, r.pc \notin {"encode", "element", "write"}
    PROVE  \A c, t, S : Encoded(r, c, t, S)
  BY DEF Encoded

\* Less is asked of fewer parts.
LEMMA EncodedLess ==
    ASSUME NEW r, NEW q, q.pc = r.pc, q.i = r.i, q.snap = r.snap,
           NEW S, NEW T, T \subseteq S, NEW c, NEW t, Encoded(r, c, t, S)
    PROVE  Encoded(q, c, t, T)
  BY DEF Encoded, Beginning

\* What the encoder s has read is not touched by an edit r that disturbs none of
\* the parts in S.
LEMMA EncodedChange ==
    ASSUME TypeInv, NEW r \in EditorType, Fits(r), NEW d \in Config, ChangesTo(r, d),
           NEW s \in EditorType, NEW S \in SUBSET Parts, Target(r) \notin S,
           r.op \in ListOps /\ S \cap Names # {} => Progress(r, current),
           NEW t \in BOOLEAN, NEW u \in BOOLEAN, t => u,
           r.pc = "assign" /\ Tears(r, s) => u,
           Encoded(s, current, t, S)
    PROVE  /\ Encoded(s, d, u, S)
           /\ \A p \in S : PartOf(d, p) = PartOf(current, p)
  <1>1. \A p \in S : PartOf(d, p) = PartOf(current, p)
    <2>1. CASE r.op \notin ListOps
      BY <2>1, SettingChanges
    <2>2. CASE r.op \in ListOps
      <3>1. \A p \in S : p \in {"cloud", "mode", "remote"} \/ p \in S \cap Names
        BY DEF Parts
      <3> QED BY <2>2, <3>1, ListChanges
    <2> QED BY <2>1, <2>2
  <1>2. /\ "cloud" \in S => d.url = current.url /\ d.key = current.key
        /\ "remote" \in S => d.remote = current.remote
        /\ "mode" \in S => d.mode = current.mode
    BY <1>1 DEF PartOf
  <1>3. ASSUME s.pc \in {"encode", "element"}, ~u, S \cap Names # {}
        PROVE  Beginning(s.snap.sources, d.sources, S)
    <2>1. PICK l : l = s.snap.sources
      OBVIOUS
    <2>2. PICK list : list = current.sources
      OBVIOUS
    <2>3. /\ l \in Seq(DataSource) /\ list \in Lists /\ list \in Seq(DataSource)
          /\ current \in Config /\ d.sources \in Seq(DataSource)
      BY <2>1, <2>2 DEF TypeInv, EditorType, Config, Lists
    <2>4. PICK n \in Nat : n = Len(l)
      BY <2>3
    <2>5. PICK m \in Nat : m = Len(list)
      BY <2>3
    <2>6. /\ n <= m
          /\ \A k \in 1..n : l[k].name = list[k].name /\ (l[k].name \in S => l[k] = list[k])
      BY <1>3, <2>1, <2>2, <2>4, <2>5 DEF Encoded, Beginning
    <2>7. ASSUME n <= Len(d.sources),
                 \A k \in 1..n : \/ d.sources[k] = list[k]
                                 \/ /\ d.sources[k].name = list[k].name
                                    /\ list[k].name \notin S
          PROVE  Beginning(l, d.sources, S)
      BY <2>4, <2>6, <2>7 DEF Beginning
    <2>8. CASE r.op \notin ListOps
      <3>1. d.sources = list
        BY <2>2, <2>8, SettingChanges
      <3> QED BY <2>1, <2>5, <2>6, <2>7, <3>1
    <2>9. CASE r.op \in ListOps
      <3>1. /\ r.op \in {"source", "delete"} /\ r.pc \in {"replace", "assign"}
            /\ r.pc = "replace" => r.op = "source"
            /\ r.op = "source" => r.name \in Names /\ r.val \in Vals
            /\ Target(r) = r.name /\ Progress(r, current)
        BY <1>3, <2>9 DEF Fits, EditorType, ListOps, Storing, ChangesTo, Target
      <3>2. CASE r.pc = "replace"
        <4>0. [name |-> r.name, val |-> r.val] \in DataSource
          BY <3>1, <3>2 DEF DataSource
        <4>1. PICK x \in DataSource : x = [name |-> r.name, val |-> r.val] /\ x.name = r.name
          BY <4>0
        <4>2. d.sources = [list EXCEPT ![r.i] = x]
          BY <2>2, <2>3, <3>1, <3>2, <4>1 DEF ChangesTo, Config
        <4>3. r.i \in 1..m /\ list[r.i].name = r.name
          BY <2>2, <2>3, <2>5, <3>1, <3>2 DEF Progress, Foremost
        <4>4. /\ Len(d.sources) = m
              /\ \A k \in 1..m : k # r.i => d.sources[k] = list[k]
              /\ d.sources[r.i] = x
          BY <2>3, <2>5, <4>2, <4>3
        <4>5. \A k \in 1..n : k \in 1..m
          BY <2>6
        <4> QED BY <2>1, <2>6, <2>7, <3>1, <4>1, <4>3, <4>4, <4>5
      <3>3. CASE r.pc = "assign" /\ r.op = "source"
        <4>0. [name |-> r.name, val |-> r.val] \in DataSource
          BY <3>1, <3>3 DEF DataSource
        <4>1. PICK x \in DataSource : x = [name |-> r.name, val |-> r.val]
          BY <4>0
        <4>2. d.sources = Append(list, x)
          BY <2>2, <2>3, <3>1, <3>3, <4>1 DEF ChangesTo, Changed, Config, Progress, ListOps
        <4>3. Len(d.sources) = m + 1 /\ \A k \in 1..m : d.sources[k] = list[k]
          BY <2>3, <2>5, <4>2
        <4>4. n <= m + 1 /\ \A k \in 1..n : k \in 1..m
          BY <2>6
        <4> QED BY <2>1, <2>7, <4>3, <4>4
      <3>4. CASE r.pc = "assign" /\ r.op = "delete"
        <4>1. d.sources = Without(list, r.name)
          BY <2>2, <2>3, <3>1, <3>4 DEF ChangesTo, Changed, Config, Progress, ListOps
        <4>2. \A k \in 1..n : l[k].name # r.name
          <5>1. ~Tears(r, s)
            BY <1>3, <3>4
          <5>2. DOMAIN l = 1..n
            BY <2>3, <2>4
          <5> QED BY <1>3, <2>1, <3>4, <5>1, <5>2 DEF Tears
        <4>3. \A k \in 1..n : list[k].name # r.name
          BY <2>6, <4>2
        <4>4. n <= Len(d.sources) /\ \A k \in 1..n : d.sources[k] = list[k]
          BY <2>3, <2>5, <2>6, <4>1, <4>3, KeptInFront
        <4> QED BY <2>1, <2>7, <4>4
      <3> QED BY <3>1, <3>2, <3>3, <3>4
    <2> QED BY <2>1, <2>8, <2>9
  <1>4. s.pc = "write" => \A p \in S : (u /\ p \in Names) \/ PartOf(s.snap, p) = PartOf(d, p)
    BY <1>1 DEF Encoded
  <1>5. s.pc \in {"encode", "element"} =>
          /\ "cloud" \in S => (s.i > 1 => s.snap.url = d.url) /\ (s.i > 2 => s.snap.key = d.key)
          /\ "remote" \in S => (s.i > 3 => s.snap.remote = d.remote)
          /\ "mode" \in S => (s.i > 4 => s.snap.mode = d.mode)
    BY <1>2 DEF Encoded
  <1>6. Encoded(s, d, u, S)
    BY <1>3, <1>4, <1>5 DEF Encoded
  <1> QED BY <1>1, <1>6

\* Steps of the encoder: a field, ...
LEMMA EncodedField ==
    ASSUME NEW r \in EditorType, NEW v \in EditorType, r.pc = "encode", v.pc = "encode",
           r.i \in 1..4, v.i = r.i + 1, NEW c, NEW t, NEW S,
           v.snap.sources = r.snap.sources,
           v.snap.url = IF r.i = 1 THEN c.url ELSE r.snap.url,
           v.snap.key = IF r.i = 2 THEN c.key ELSE r.snap.key,
           v.snap.remote = IF r.i = 3 THEN c.remote ELSE r.snap.remote,
           v.snap.mode = IF r.i = 4 THEN c.mode ELSE r.snap.mode,
           Encoded(r, c, t, S)
    PROVE  Encoded(v, c, t, S)
  <1>1. ASSUME ~t, S \cap Names # {}
        PROVE  Beginning(v.snap.sources, c.sources, S)
    BY <1>1 DEF Encoded
  <1>2. /\ "cloud" \in S => (v.i > 1 => v.snap.url = c.url) /\ (v.i > 2 => v.snap.key = c.key)
        /\ "remote" \in S => (v.i > 3 => v.snap.remote = c.remote)
        /\ "mode" \in S => (v.i > 4 => v.snap.mode = c.mode)
    BY DEF Encoded
  <1> QED BY <1>1, <1>2 DEF Encoded

\* ... a data source, ...
LEMMA EncodedElement ==
    ASSUME NEW r \in EditorType, NEW v \in EditorType, r.pc = "element", v.pc = "encode",
           v.i = r.i, NEW c \in Config, NEW t, NEW S,
           Len(r.snap.sources) < Len(c.sources),
           v.snap = [r.snap EXCEPT !.sources =
                       Append(r.snap.sources, c.sources[Len(r.snap.sources) + 1])],
           Encoded(r, c, t, S)
    PROVE  Encoded(v, c, t, S)
  <1>1. PICK l : l = r.snap.sources
    OBVIOUS
  <1>2. r.snap \in Config /\ l \in Seq(DataSource) /\ c.sources \in Seq(DataSource)
    BY <1>1 DEF EditorType, Config
  <1>3. PICK n \in Nat : n = Len(l)
    BY <1>2
  <1>4. n + 1 <= Len(c.sources) /\ n + 1 \in 1..Len(c.sources)
    BY <1>1, <1>2, <1>3
  <1>5. /\ v.snap.url = r.snap.url /\ v.snap.key = r.snap.key /\ v.snap.remote = r.snap.remote
        /\ v.snap.mode = r.snap.mode
        /\ v.snap.sources = Append(l, c.sources[n + 1])
    BY <1>1, <1>2, <1>3 DEF Config
  <1>6. /\ Len(v.snap.sources) = n + 1
        /\ v.snap.sources[n + 1] = c.sources[n + 1]
        /\ \A k \in 1..n : v.snap.sources[k] = l[k]
    <2>1. c.sources[n + 1] \in DataSource
      BY <1>2, <1>4
    <2> QED BY <1>2, <1>3, <1>5, <2>1
  <1>7. \A k \in 1..(n + 1) : k = n + 1 \/ k \in 1..n
    OBVIOUS
  <1>8. ASSUME ~t, S \cap Names # {}
        PROVE  Beginning(v.snap.sources, c.sources, S)
    <2>1. \A k \in 1..n : l[k].name = c.sources[k].name /\ (l[k].name \in S => l[k] = c.sources[k])
      BY <1>1, <1>3, <1>8 DEF Encoded, Beginning
    <2> QED BY <1>4, <1>6, <1>7, <2>1 DEF Beginning
  <1> QED BY <1>5, <1>8 DEF Encoded

\* ... and the end, with all that the list has.
LEMMA EncodedAll ==
    ASSUME NEW r \in EditorType, NEW v \in EditorType, r.pc = "encode", v.pc = "write",
           v.snap = r.snap, r.i > 4, NEW c \in Config, NEW t \in BOOLEAN, NEW S \in SUBSET Parts,
           ~(Len(r.snap.sources) < Len(c.sources)),
           Encoded(r, c, t, S)
    PROVE  Encoded(v, c, t, S)
  <1>1. PICK s : s = r.snap
    OBVIOUS
  <1>2. s \in Config /\ s.sources \in Lists /\ c.sources \in Lists /\ r.i \in Nat
    BY <1>1 DEF EditorType, Config, Lists
  <1>3. /\ "cloud" \in S => s.url = c.url /\ s.key = c.key
        /\ "remote" \in S => s.remote = c.remote
        /\ "mode" \in S => s.mode = c.mode
    BY <1>1, <1>2 DEF Encoded
  <1>4. ASSUME ~t, NEW p \in S \cap Names
        PROVE  PartOf(s, p) = PartOf(c, p)
    <2>1. Beginning(s.sources, c.sources, S)
      BY <1>1, <1>4 DEF Encoded
    <2>2. PICK n \in Nat : n = Len(s.sources) /\ n = Len(c.sources)
      <3>1. Len(s.sources) \in Nat /\ Len(c.sources) \in Nat
        BY <1>2 DEF Lists
      <3>2. Len(s.sources) <= Len(c.sources) /\ ~(Len(s.sources) < Len(c.sources))
        BY <1>1, <2>1 DEF Beginning
      <3> QED BY <3>1, <3>2
    <2>3. DOMAIN s.sources = 1..n /\ DOMAIN c.sources = 1..n
      <3>1. \A l \in Seq(DataSource) : DOMAIN l = 1..Len(l)
        OBVIOUS
      <3> QED BY <1>2, <2>2, <3>1 DEF Lists
    <2>4. \A k \in 1..n : /\ s.sources[k].name = c.sources[k].name
                          /\ s.sources[k].name = p => s.sources[k] = c.sources[k]
      BY <1>4, <2>1, <2>2 DEF Beginning
    <2>5. \A i : Foremost(c.sources, p, i) => Foremost(s.sources, p, i)
                                               /\ s.sources[i].val = c.sources[i].val
      BY <2>3, <2>4 DEF Foremost
    <2>6. SameFirst(c.sources, s.sources, p)
      BY <2>3, <2>4, <2>5 DEF SameFirst
    <2>7. Lookup(s, p) = Lookup(c, p)
      BY <1>2, <2>6, SameFound
    <2> QED BY <1>4, <2>7, Named
  <1>5. ASSUME NEW p \in S
        PROVE  (t /\ p \in Names) \/ PartOf(s, p) = PartOf(c, p)
    <2>1. CASE p \in Names
      BY <1>4, <1>5, <2>1
    <2>2. CASE p \in {"cloud", "mode", "remote"}
      BY <1>3, <1>5, <2>2 DEF PartOf
    <2> QED BY <1>5, <2>1, <2>2 DEF Parts
  <1> QED BY <1>1, <1>5 DEF Encoded

\* An edit that goes on is of the same part and as disturbed as before.
LEMMA OnwardApart ==
    ASSUME TypeInv, Withdrawn, Apart, NEW e \in Editors, NEW v \in EditorType, Onward(e, v),
           editor[e].pc # "idle", v.pc # "idle"
    PROVE  Withdrawn' /\ Apart'
  <1>1. editor'[e] = v /\ \A f \in Editors : f # e => editor'[f] = editor[f]
    BY Moved DEF Onward
  <1>2. ASSUME NEW f \in Editors
        PROVE  /\ editor'[f].op = editor[f].op /\ editor'[f].alone = editor[f].alone
               /\ editor'[f].name = editor[f].name
               /\ editor'[f].pc # "idle" <=> editor[f].pc # "idle"
    BY <1>1 DEF Onward
  <1>3. \A f \in Editors : /\ Target(editor'[f]) = Target(editor[f])
                           /\ Editing(editor'[f]) <=> Editing(editor[f])
    BY <1>2 DEF Target, Editing
  <1>4. \A f, g \in Editors : Disturbs(editor'[f], editor'[g]) <=> Disturbs(editor[f], editor[g])
    BY <1>2, <1>3 DEF Disturbs
  <1>5. ASSUME NEW f \in Editors, Editing(editor'[f])
        PROVE  /\ promised'[Target(editor'[f])] = Unknown
               /\ editor'[f].op \in ListOps /\ ~editor'[f].alone
                     => \A p \in Names : promised'[p] = Unknown
    BY <1>2, <1>3, <1>5 DEF Withdrawn, Onward
  <1>6. Withdrawn'
    BY <1>5 DEF Withdrawn
  <1>7. ASSUME NEW f \in Editors, NEW g \in Editors, f # g, Disturbs(editor'[f], editor'[g])
        PROVE  ~editor'[f].alone
    BY <1>2, <1>4, <1>7 DEF Apart
  <1> QED BY <1>6, <1>7 DEF Apart

\* One that ends disturbs no other any more.
LEMMA EndsApart ==
    ASSUME TypeInv, Withdrawn, Apart, NEW e \in Editors, editor' = [editor EXCEPT ![e] = Idle]
    PROVE  Apart' /\ (UNCHANGED promised => Withdrawn')
  <1>1. editor'[e] = Idle /\ \A f \in Editors : f # e => editor'[f] = editor[f]
    BY Moved
  <1>2. /\ ~Editing(editor'[e])
        /\ \A f \in Editors : ~Disturbs(editor'[f], editor'[e]) /\ ~Disturbs(editor'[e], editor'[f])
    BY <1>1 DEF Editing, Idle, Disturbs
  <1>3. ASSUME NEW f \in Editors, Editing(editor'[f]), UNCHANGED promised
        PROVE  /\ promised'[Target(editor'[f])] = Unknown
               /\ editor'[f].op \in ListOps /\ ~editor'[f].alone
                     => \A p \in Names : promised'[p] = Unknown
    BY <1>1, <1>2, <1>3 DEF Withdrawn
  <1>4. UNCHANGED promised => Withdrawn'
    BY <1>3 DEF Withdrawn
  <1>5. ASSUME NEW f \in Editors, NEW g \in Editors, f # g, Disturbs(editor'[f], editor'[g])
        PROVE  ~editor'[f].alone
    BY <1>1, <1>2, <1>5 DEF Apart
  <1> QED BY <1>4, <1>5 DEF Apart

\* The parts that are settled for an edit depend on little of it.
LEMMA SettledSame ==
    ASSUME NEW x, NEW y, x.op = y.op, x.name = y.name, x.alone => y.alone, y.pc # "idle", NEW pr
    PROVE  Settled(x, pr) \subseteq Settled(y, pr)
  BY DEF Settled, Editing, Target

\* A step that leaves the record as it is.
LEMMA AloneStill ==
    ASSUME TypeInv, AloneInv, NEW e \in Editors, NEW v \in EditorType, Onward(e, v),
           editor[e].pc # "idle", v.pc # "idle",
           editor[e].alone /\ Editing(v) => Progress(v, current),
           Encoded(v, current, torn', Settled(editor[e], promised)),
           UNCHANGED torn \/ \A f \in Editors : editor[f].pc \notin {"encode", "element", "write"},
           UNCHANGED current, file' = file \/ file'.state \in {"cut", "broken"}
    PROVE  AloneInv'
  <1>1. editor'[e] = v /\ \A f \in Editors : f # e => editor'[f] = editor[f]
    BY Moved DEF Onward
  <1>2. Withdrawn' /\ Apart'
    BY OnwardApart DEF AloneInv
  <1>3. ASSUME NEW f \in Editors, editor'[f].alone, Editing(editor'[f])
        PROVE  Progress(editor'[f], current)
    BY <1>1, <1>3 DEF AloneInv, Alone, Onward
  <1>4. Alone'
    BY <1>3 DEF Alone
  <1>5. ASSUME NEW f \in Editors
        PROVE  Encoded(editor'[f], current, torn', Settled(editor'[f], promised))
    <2>1. CASE f = e
      <3>1. Settled(v, promised) \subseteq Settled(editor[e], promised)
        BY SettledSame DEF Onward
      <3> QED BY <1>1, <2>1, <3>1, EncodedLess
    <2>2. CASE f # e /\ UNCHANGED torn
      BY <1>1, <2>2 DEF AloneInv, Kept
    <2>3. CASE f # e /\ editor[f].pc \notin {"encode", "element", "write"}
      BY <1>1, <2>3, EncodedNot
    <2> QED BY <2>1, <2>2, <2>3
  <1>6. Holds(current) => Holds(current)'
    BY DEF Holds, Onward
  <1>7. Stored(file', promised)
    BY DEF AloneInv, Kept, Stored
  <1>8. Kept'
    <2>1. /\ process' = process /\ promised' = promised /\ current' = current
          /\ (process = "up" => Holds(current))
      BY DEF AloneInv, Kept, Onward
    <2> QED BY <1>5, <1>6, <1>7, <2>1 DEF Kept
  <1> QED BY <1>2, <1>4, <1>8 DEF AloneInv

\* A step that changes it.
LEMMA AloneChange ==
    ASSUME TypeInv, AloneInv, TypeInv', NEW e \in Editors, NEW v \in EditorType, Onward(e, v),
           NEW d, d = current', ChangesTo(editor[e], d), v.val = editor[e].val,
           IF editor[e].pc = "assign" /\ editor[e].op \in {"setup", "pair"}
           THEN v.pc = "key" ELSE v.pc = "save",
           torn' \in BOOLEAN, torn => torn',
           editor[e].pc = "assign" => \A f \in Editors : Tears(editor[e], editor[f]) => torn',
           UNCHANGED file
    PROVE  AloneInv'
  <1>1. editor'[e] = v /\ \A f \in Editors : f # e => editor'[f] = editor[f]
    BY Moved DEF Onward
  <1>2. PICK r \in EditorType : r = editor[e] /\ Fits(r)
    BY DEF TypeInv
  <1>3. d \in Config /\ r.pc # "idle" /\ v.pc \in {"key", "save"} /\ Editing(r)
    BY <1>2 DEF TypeInv, ChangesTo, Fits, Editing
  <1>4. Withdrawn' /\ Apart'
    BY <1>2, <1>3, OnwardApart DEF AloneInv
  <1>5. r.alone => Progress(r, current)
    BY <1>2, <1>3 DEF AloneInv, Alone
  <1>6. Target(v) = Target(r) /\ Wanted(v) = Wanted(r)
    BY <1>2 DEF Onward, Target, Wanted
  <1>7. r.alone => Progress(v, d)
    <2>1. CASE v.pc = "key"
      <3>1. d.url = v.val
        BY <1>2, <1>3, <2>1, SettingChanges DEF ListOps
      <3> QED BY <2>1, <3>1 DEF Progress, Storing
    <2>2. CASE v.pc = "save"
      <3>1. r.alone => PartOf(d, Target(v)) = Wanted(v)
        BY <1>2, <1>3, <1>5, <1>6, <2>2, SettingChanges, ListChanges
      <3> QED BY <2>2, <3>1 DEF Progress, Storing
    <2> QED BY <1>3, <2>1, <2>2
  <1>8. ASSUME NEW f \in Editors, f # e, editor[f].alone, Editing(editor[f])
        PROVE  Progress(editor[f], d)
    <2>1. ~Disturbs(editor[f], r) /\ Progress(editor[f], current)
      BY <1>2, <1>8 DEF AloneInv, Alone, Apart
    <2>2. editor[f] \in EditorType /\ Fits(editor[f])
      BY DEF TypeInv
    <2> QED BY <1>2, <1>3, <1>8, <2>1, <2>2, ProgressOther
  <1>9. Alone'
    <2>1. ASSUME NEW f \in Editors, editor'[f].alone, Editing(editor'[f])
          PROVE  Progress(editor'[f], current')
      BY <1>1, <1>2, <1>7, <1>8, <2>1 DEF Onward
    <2> QED BY <2>1 DEF Alone
  <1>10. Holds(current) => Holds(d)
    <2> SUFFICES ASSUME Holds(current), NEW p \in Parts, promised[p] # Unknown
                 PROVE  PartOf(d, p) = PartOf(current, p)
      BY DEF Holds
    <2>1. p # Target(r) /\ (r.op \in ListOps /\ p \in Names => r.alone)
      BY <1>2, <1>3 DEF AloneInv, Withdrawn
    <2>2. CASE r.op \notin ListOps
      BY <1>2, <1>3, <2>1, <2>2, SettingChanges
    <2>3. CASE r.op \in ListOps /\ p \in Names
      BY <1>2, <1>3, <1>5, <2>1, <2>3, ListChanges
    <2>4. CASE r.op \in ListOps /\ p \in {"cloud", "mode", "remote"}
      BY <1>2, <1>3, <2>4, ListChanges
    <2> QED BY <2>2, <2>3, <2>4 DEF Parts
  <1>11. ASSUME NEW f \in Editors, f # e
         PROVE  Encoded(editor[f], d, torn', Settled(editor[f], promised))
    <2>1. PICK S \in SUBSET Parts : S = Settled(editor[f], promised)
      BY DEF Settled
    <2>2. /\ editor[f] \in EditorType /\ Fits(editor[f]) /\ torn \in BOOLEAN
          /\ Encoded(editor[f], current, torn, S)
      BY <2>1 DEF TypeInv, AloneInv, Kept
    <2>3. /\ promised[Target(r)] = Unknown
          /\ r.op \in ListOps /\ ~r.alone => \A p \in Names : promised[p] = Unknown
      BY <1>2, <1>3 DEF AloneInv, Withdrawn
    <2>4. editor[f].alone /\ Editing(editor[f]) =>
             /\ Target(editor[f]) # Target(r)
             /\ ~(editor[f].op \in ListOps /\ r.op \in ListOps)
      <3>1. editor[f].alone => ~Disturbs(editor[f], r)
        BY <1>2, <1>11 DEF AloneInv, Apart
      <3> QED BY <1>3, <3>1 DEF Disturbs, Editing
    <2>5. Target(r) \notin S
      BY <2>1, <2>3, <2>4 DEF Settled
    <2>6. ASSUME r.op \in ListOps, NEW p \in S \cap Names
          PROVE  r.alone
      <3>1. CASE promised[p] # Unknown
        BY <2>3, <2>6, <3>1
      <3>2. CASE editor[f].alone /\ Editing(editor[f]) /\ p = Target(editor[f])
        <4>1. editor[f].op \notin ListOps
          BY <2>4, <2>6, <3>2
        <4>2. Target(editor[f]) \in {"cloud", "mode", "remote"}
          BY <2>2, <3>2, <4>1, Targets
        <4> QED BY <2>6, <3>2, <4>2, ConfigAssumption DEF ConfigAssumption
      <3> QED BY <2>1, <2>6, <3>1, <3>2 DEF Settled
    <2>7. r.op \in ListOps /\ S \cap Names # {} => Progress(r, current)
      BY <1>5, <2>6
    <2>8. r.pc = "assign" /\ Tears(r, editor[f]) => torn'
      BY <1>2
    <2> QED BY <1>2, <1>3, <2>1, <2>2, <2>5, <2>7, <2>8, EncodedChange
  <1>12. ASSUME NEW f \in Editors
         PROVE  Encoded(editor'[f], d, torn', Settled(editor'[f], promised))
    <2>1. CASE f = e
      BY <1>1, <1>3, <2>1, EncodedNot
    <2>2. CASE f # e
      BY <1>1, <1>11, <2>2
    <2> QED BY <2>1, <2>2
  <1>13. Kept'
    <2>1. /\ process' = process /\ promised' = promised /\ file' = file
          /\ (process = "up" => Holds(current)) /\ Stored(file, promised)
      BY DEF AloneInv, Kept, Onward
    <2>2. Holds(d) => Holds(current)'
      BY <2>1 DEF Holds
    <2> QED BY <1>10, <1>12, <2>1, <2>2 DEF Kept
  <1> QED BY <1>4, <1>9, <1>13 DEF AloneInv

\* An edit that is given up.
LEMMA AloneEnds ==
    ASSUME TypeInv, AloneInv, NEW e \in Editors, editor' = [editor EXCEPT ![e] = Idle],
           UNCHANGED <<current, process, promised, torn>>,
           file' = file \/ file'.state \in {"cut", "broken"}
    PROVE  AloneInv'
  <1>1. /\ editor'[e] = Idle /\ \A f \in Editors : f # e => editor'[f] = editor[f]
        /\ Idle.pc = "idle"
    BY Moved DEF Idle
  <1>2. Withdrawn' /\ Apart'
    BY EndsApart DEF AloneInv
  <1>3. ASSUME NEW f \in Editors, editor'[f].alone, Editing(editor'[f])
        PROVE  Progress(editor'[f], current)
    BY <1>1, <1>3 DEF AloneInv, Alone, Editing
  <1>4. Alone'
    BY <1>3 DEF Alone
  <1>5. \A f \in Editors : Encoded(editor'[f], current, torn, Settled(editor'[f], promised))
    BY <1>1, EncodedNot DEF AloneInv, Kept
  <1>6. Stored(file', promised)
    BY DEF AloneInv, Kept, Stored
  <1>7. Kept'
    <2>1. process = "up" => Holds(current)
      BY DEF AloneInv, Kept
    <2> QED BY <1>5, <1>6, <2>1 DEF Kept, Holds
  <1> QED BY <1>2, <1>4, <1>7 DEF AloneInv

\* A Save that succeeds.
LEMMA AloneWrite ==
    ASSUME TypeInv, AloneInv, TypeInv', NEW e \in Editors, Write(e)
    PROVE  AloneInv'
  <1>1. PICK r \in EditorType : r = editor[e] /\ Fits(r)
    BY DEF TypeInv
  <1>2. /\ process = "up" /\ r.pc = "write" /\ lock' = NoOne
        /\ editor' = [editor EXCEPT ![e] = Idle]
        /\ file' = [state |-> IF torn THEN "torn" ELSE "whole", value |-> r.snap]
        /\ UNCHANGED <<current, process, torn>>
        /\ promised' = IF r.alone THEN [promised EXCEPT ![Target(r)] = Wanted(r)] ELSE promised
    BY <1>1, WriteEffect
  <1>3. /\ editor'[e] = Idle /\ \A f \in Editors : f # e => editor'[f] = editor[f]
        /\ Idle.pc = "idle"
    BY <1>2, Moved DEF Idle
  <1>4. Editing(r) /\ Target(r) \in Parts
    <2>1. Editing(r)
      BY <1>1, <1>2 DEF Editing, Fits
    <2> QED BY <1>1, <2>1, Targets
  <1>5. /\ ~r.alone => promised' = promised
        /\ r.alone => \A p \in Parts : promised'[p] = IF p = Target(r) THEN Wanted(r) ELSE promised[p]
    BY <1>2, <1>4 DEF TypeInv
  <1>6. ASSUME NEW f \in Editors, f # e, Editing(editor[f]), r.alone
        PROVE  Target(editor[f]) # Target(r) /\ ~(editor[f].op \in ListOps /\ r.op \in ListOps)
    <2>1. ~Disturbs(r, editor[f])
      BY <1>1, <1>6 DEF AloneInv, Apart
    <2> QED BY <1>4, <1>6, <2>1 DEF Disturbs, Editing
  <1>7. Apart'
    BY <1>2, EndsApart DEF AloneInv
  <1>8. ASSUME NEW f \in Editors, Editing(editor'[f])
        PROVE  /\ promised'[Target(editor'[f])] = Unknown
               /\ editor'[f].op \in ListOps /\ ~editor'[f].alone
                     => \A p \in Names : promised'[p] = Unknown
    <2>1. f # e /\ editor'[f] = editor[f]
      BY <1>3, <1>8 DEF Editing
    <2>2. /\ promised[Target(editor[f])] = Unknown
          /\ editor[f].op \in ListOps /\ ~editor[f].alone => \A p \in Names : promised[p] = Unknown
      BY <1>8, <2>1 DEF AloneInv, Withdrawn
    <2>3. CASE ~r.alone
      BY <1>5, <2>1, <2>2, <2>3
    <2>4. CASE r.alone
      <3>1. Target(editor[f]) # Target(r) /\ ~(editor[f].op \in ListOps /\ r.op \in ListOps)
        BY <1>6, <1>8, <2>1, <2>4
      <3>2. Target(editor[f]) \in Parts
        BY <1>8, <2>1, Targets DEF TypeInv
      <3>3. editor[f].op \in ListOps => Target(r) \notin Names
        BY <1>1, <1>4, <3>1, Targets, ConfigAssumption DEF ConfigAssumption
      <3>4. promised'[Target(editor[f])] = Unknown
        BY <1>5, <2>2, <2>4, <3>1, <3>2
      <3>5. editor[f].op \in ListOps /\ ~editor[f].alone => \A p \in Names : promised'[p] = Unknown
        BY <1>5, <2>2, <2>4, <3>3 DEF Parts
      <3> QED BY <2>1, <3>4, <3>5
    <2> QED BY <2>3, <2>4
  <1>9. Withdrawn'
    BY <1>8 DEF Withdrawn
  <1>10. ASSUME NEW f \in Editors, editor'[f].alone, Editing(editor'[f])
         PROVE  Progress(editor'[f], current)
    BY <1>3, <1>10 DEF AloneInv, Alone, Editing
  <1>11. Alone'
    BY <1>2, <1>10 DEF Alone
  <1>12. r.alone => PartOf(current, Target(r)) = Wanted(r)
    BY <1>1, <1>2, <1>4 DEF AloneInv, Alone, Progress, Storing
  <1>13. Holds(current) /\ Encoded(r, current, torn, Settled(r, promised))
    BY <1>1, <1>2 DEF AloneInv, Kept
  <1>14. ASSUME NEW p \in Parts, promised'[p] # Unknown
         PROVE  /\ PartOf(current, p) = promised'[p]
                /\ (torn /\ p \in Names) \/ PartOf(r.snap, p) = promised'[p]
    <2>1. p \in Settled(r, promised) /\ PartOf(current, p) = promised'[p]
      <3>1. CASE r.alone /\ p = Target(r)
        BY <1>4, <1>5, <1>12, <1>14, <3>1 DEF Settled
      <3>2. CASE ~(r.alone /\ p = Target(r))
        BY <1>5, <1>13, <1>14, <3>2 DEF Holds, Settled
      <3> QED BY <3>1, <3>2
    <2> QED BY <1>2, <1>13, <2>1 DEF Encoded
  <1>15. Holds(current)'
    BY <1>2, <1>14 DEF Holds
  <1>16. Stored(file', promised')
    BY <1>2, <1>14 DEF Stored, Loaded
  <1>17. \A f \in Editors : editor'[f].pc \notin {"encode", "element", "write"}
    BY <1>2, ConfigAssumption DEF TypeInv, ConfigAssumption
  <1>18. Kept'
    BY <1>15, <1>16, <1>17, EncodedNot DEF Kept
  <1> QED BY <1>7, <1>9, <1>11, <1>18 DEF AloneInv

\* An edit that begins.
LEMMA AloneBegin ==
    ASSUME TypeInv, AloneInv, TypeInv', NEW e \in Editors,
           NEW r \in EditorType, Begin(e, r), Fits(r), Begins(r)
    PROVE  AloneInv'
  <1>1. /\ process = "up" /\ editor[e].pc = "idle"
        /\ UNCHANGED <<current, file, lock, process, failing, torn>>
        /\ \A f \in Editors : f # e =>
              /\ editor'[f] = [editor[f] EXCEPT !.alone = editor'[f].alone]
              /\ editor'[f].alone <=> editor[f].alone /\ ~Disturbs(r, editor[f])
        /\ editor'[e] = [r EXCEPT !.alone = editor'[e].alone]
        /\ editor'[e].alone <=> \A f \in Editors : ~Disturbs(editor[f], r)
    BY BeginEffect
  <1> DEFINE New(f) == IF f = e THEN r ELSE editor[f]
             Same(x, y) == /\ x.op = y.op /\ x.pc = y.pc /\ x.name = y.name /\ x.val = y.val
                           /\ x.i = y.i /\ x.n = y.n /\ x.list = y.list /\ x.snap = y.snap
  <1>2. ASSUME NEW f \in Editors
        PROVE  Same(editor'[f], New(f)) /\ New(f) \in EditorType /\ Fits(New(f))
    <2>1. PICK x \in EditorType : x = New(f)
      BY DEF TypeInv
    <2>2. PICK a : editor'[f] = [x EXCEPT !.alone = a]
      <3>1. CASE f = e
        BY <1>1, <2>1, <3>1
      <3>2. CASE f # e
        BY <1>1, <2>1, <3>2
      <3> QED BY <3>1, <3>2
    <2>3. Same(editor'[f], x)
      BY <2>2 DEF EditorType
    <2>4. Fits(New(f))
      BY DEF TypeInv
    <2> QED BY <2>1, <2>3, <2>4
  <1>3. \A f \in Editors : /\ Target(editor'[f]) = Target(New(f))
                           /\ Editing(editor'[f]) <=> Editing(New(f))
    BY <1>2 DEF Target, Editing
  <1>4. \A f, g \in Editors : Disturbs(editor'[f], editor'[g]) <=> Disturbs(New(f), New(g))
    BY <1>2, <1>3 DEF Disturbs
  <1>5. \A x, y : Disturbs(x, y) <=> Disturbs(y, x)
    BY DEF Disturbs
  <1> HIDE DEF Same
  <1>6. Apart'
    <2>1. ASSUME NEW f \in Editors, NEW g \in Editors, f # g, Disturbs(New(f), New(g))
          PROVE  ~editor'[f].alone
      <3>1. CASE f = e
        BY <1>1, <1>5, <2>1, <3>1
      <3>2. CASE g = e
        BY <1>1, <1>5, <2>1, <3>2
      <3>3. CASE f # e /\ g # e
        BY <1>1, <2>1, <3>3 DEF AloneInv, Apart
      <3> QED BY <3>1, <3>2, <3>3
    <2> QED BY <1>4, <2>1 DEF Apart
  <1>7. ASSUME NEW p \in Parts
        PROVE  /\ promised'[p] \in {promised[p], Unknown}
               /\ r.op # "find" /\ p = Target(r) => promised'[p] = Unknown
               /\ ~(\A f \in Editors : ~Disturbs(editor[f], r)) /\ r.op \in ListOps /\ p \in Names
                     => promised'[p] = Unknown
    <2>1. promised'[p] =
             IF \/ r.op # "find" /\ p = Target(r)
                \/ {f \in Editors : Disturbs(editor[f], r)} # {} /\ r.op \in ListOps /\ p \in Names
             THEN Unknown ELSE promised[p]
      BY DEF Begin
    <2> QED BY <2>1
  <1>8. ASSUME NEW f \in Editors, Editing(New(f))
        PROVE  promised'[Target(New(f))] = Unknown
    <2>1. Target(New(f)) \in Parts
      BY <1>2, <1>8, Targets
    <2>2. CASE f = e
      BY <1>7, <1>8, <2>1, <2>2 DEF Editing
    <2>3. CASE f # e
      BY <1>7, <1>8, <2>1, <2>3 DEF AloneInv, Withdrawn
    <2> QED BY <2>2, <2>3
  <1>9. ASSUME NEW f \in Editors, Editing(New(f)), New(f).op \in ListOps, ~editor'[f].alone,
               NEW p \in Names
        PROVE  promised'[p] = Unknown
    <2>1. p \in Parts
      BY DEF Parts
    <2>2. CASE f = e
      BY <1>1, <1>7, <1>9, <2>1, <2>2
    <2>3. CASE f # e /\ ~editor[f].alone
      BY <1>7, <1>9, <2>1, <2>3 DEF AloneInv, Withdrawn
    <2>4. CASE f # e /\ editor[f].alone
      <3>1. Disturbs(r, editor[f])
        BY <1>1, <1>9, <2>4
      <3>2. CASE r.op \in ListOps
        BY <1>5, <1>7, <2>1, <3>1, <3>2
      <3>3. CASE r.op \notin ListOps
        <4>1. Target(r) = Target(editor[f]) /\ Editing(r)
          BY <3>1, <3>3 DEF Disturbs, Editing
        <4>2. Target(r) \in {"cloud", "mode", "remote"} /\ Target(editor[f]) \in Names
          BY <1>2, <1>9, <2>4, <3>3, <4>1, Targets
        <4> QED BY <4>1, <4>2, ConfigAssumption DEF ConfigAssumption
      <3> QED BY <3>2, <3>3
    <2> QED BY <2>2, <2>3, <2>4
  <1>10. Withdrawn'
    <2>1. ASSUME NEW f \in Editors, Editing(editor'[f])
          PROVE  /\ promised'[Target(editor'[f])] = Unknown
                 /\ editor'[f].op \in ListOps /\ ~editor'[f].alone
                     => \A p \in Names : promised'[p] = Unknown
      <3>1. editor'[f].op = New(f).op
        BY <1>2 DEF Same
      <3> QED BY <1>3, <1>8, <1>9, <2>1, <3>1
    <2> QED BY <2>1 DEF Withdrawn
  <1>11. ASSUME NEW f \in Editors, editor'[f].alone, Editing(New(f))
         PROVE  Progress(New(f), current)
    <2>1. CASE f = e
      <3>1. current.sources \in Lists
        BY DEF TypeInv, Config, Lists
      <3>2. DOMAIN current.sources = 1..Len(current.sources) /\ Len(current.sources) \in Nat
        BY <3>1 DEF Lists
      <3>3. r.op \in ListOps => r.pc # "assign"
        BY DEF Begins, ListOps
      <3>4. r.pc = "scan" => /\ r.n = Len(current.sources) /\ r.i <= r.n + 1
                             /\ \A k \in DOMAIN current.sources :
                                   k < r.i => current.sources[k].name # r.name
        BY <3>2 DEF Begins
      <3>5. r.op = "source" => r.pc = "scan"
        BY DEF Begins
      <3> QED BY <2>1, <3>3, <3>4, <3>5 DEF Progress, Begins, Storing
    <2>2. CASE f # e
      BY <1>1, <1>11, <2>2 DEF AloneInv, Alone
    <2> QED BY <2>1, <2>2
  <1>12. Alone'
    <2>1. ASSUME NEW f \in Editors, editor'[f].alone, Editing(editor'[f])
          PROVE  Progress(editor'[f], current)
      <3>1. Progress(New(f), current)
        BY <1>3, <1>11, <2>1
      <3>2. Target(editor'[f]) = Target(New(f)) /\ Wanted(editor'[f]) = Wanted(New(f))
        BY <1>2 DEF Same, Target, Wanted
      <3> QED BY <1>2, <3>1, <3>2 DEF Progress, Same
    <2> QED BY <1>1, <2>1 DEF Alone
  <1>13. \A c : Holds(c) => Holds(c)'
    BY <1>7 DEF Holds
  <1>14. ASSUME NEW f \in Editors
         PROVE  Encoded(editor'[f], current, torn, Settled(editor'[f], promised'))
    <2>1. CASE f = e
      <3>1. editor'[f].pc \notin {"encode", "element", "write"}
        BY <1>2, <2>1 DEF Same, Begins
      <3> QED BY <3>1, EncodedNot
    <2>2. CASE f # e
      <3>1. /\ editor'[f].pc = editor[f].pc /\ editor'[f].i = editor[f].i
            /\ editor'[f].snap = editor[f].snap
            /\ Target(editor'[f]) = Target(editor[f])
            /\ Editing(editor'[f]) <=> Editing(editor[f])
        BY <1>2, <1>3, <2>2 DEF Same
      <3>2. editor'[f].alone => editor[f].alone
        BY <1>1, <2>2
      <3>3. Settled(editor'[f], promised') \subseteq Settled(editor[f], promised)
        <4>1. ASSUME NEW p \in Settled(editor'[f], promised')
              PROVE  p \in Parts /\ (promised[p] # Unknown \/ p \in Settled(editor[f], promised))
          <5>1. /\ p \in Parts
                /\ \/ promised'[p] # Unknown
                   \/ editor'[f].alone /\ Editing(editor'[f]) /\ p = Target(editor'[f])
            BY <4>1 DEF Settled
          <5>2. promised'[p] \in {promised[p], Unknown}
            BY <1>7, <5>1
          <5>3. CASE promised'[p] # Unknown
            BY <5>1, <5>2, <5>3
          <5>4. CASE editor'[f].alone /\ Editing(editor'[f]) /\ p = Target(editor'[f])
            <6>1. editor[f].alone /\ Editing(editor[f]) /\ p = Target(editor[f])
              BY <3>1, <3>2, <5>4
            <6> QED BY <5>1, <6>1 DEF Settled
          <5> QED BY <5>1, <5>3, <5>4
        <4> QED BY <4>1 DEF Settled
      <3>4. Encoded(editor[f], current, torn, Settled(editor[f], promised))
        BY DEF AloneInv, Kept
      <3> QED BY <3>1, <3>3, <3>4, EncodedLess
    <2> QED BY <2>1, <2>2
  <1>15. Kept'
    <2>1. Stored(file, promised')
      BY <1>7 DEF AloneInv, Kept, Stored
    <2>2. Holds(current)'
      BY <1>1, <1>13 DEF AloneInv, Kept, Holds
    <2> QED BY <1>1, <1>14, <2>1, <2>2 DEF Kept
  <1> QED BY <1>6, <1>10, <1>12, <1>15 DEF AloneInv

\* Every step keeps what undisturbed edits have done and were promised.
LEMMA AloneStep ==
    ASSUME TypeInv, Quiet, AloneInv, TypeInv', [Next]_vars
    PROVE  AloneInv'
  <1>1. ASSUME NEW e \in Editors, BeginSettings(e) \/ BeginSource(e)
        PROVE  AloneInv'
    BY <1>1, RequestEffect, AloneBegin
  <1>2. ASSUME NEW e \in Editors, Dropped(e)
        PROVE  AloneInv'
    BY <1>2, AloneEnds DEF Dropped, Unchanged
  <1>3. CASE Crash
    <2>1. \A e \in Editors : editor'[e].pc = "idle"
      BY <1>3 DEF Crash, Idle
    <2>2. process' # "up" /\ UNCHANGED <<file, promised>>
      BY <1>3 DEF Crash
    <2>3. Alone' /\ Withdrawn'
      BY <2>1 DEF Alone, Withdrawn, Editing
    <2>4. Apart'
      BY <2>1 DEF Apart, Disturbs
    <2>5. \A e \in Editors : Encoded(editor'[e], current', torn', Settled(editor'[e], promised'))
      BY <2>1, EncodedNot
    <2>6. Kept'
      BY <2>2, <2>5 DEF AloneInv, Kept
    <2> QED BY <2>3, <2>4, <2>6 DEF AloneInv
  <1>4. ASSUME NEW e \in Editors, Paired(e)
        PROVE  AloneInv'
    <2>1. PICK v \in EditorType : Onward(e, v) /\ v.pc = "assign" /\ v.val = editor[e].val
      BY <1>4, PairedEffect
    <2>2. editor[e].pc = "request" /\ UNCHANGED <<current, file, torn>>
      BY <1>4, PairedEffect
    <2>3. v.op \in {"setup", "pair"}
      BY <2>1, <2>2 DEF TypeInv, Fits, EditorType, Onward, Ops, Storing
    <2>4. Progress(v, current)
      BY <2>1, <2>3 DEF Progress, ListOps, Storing
    <2>5. Encoded(v, current, torn', Settled(editor[e], promised))
      BY <2>1, EncodedNot
    <2> QED BY <2>1, <2>2, <2>4, <2>5, AloneStill
  <1>5. ASSUME NEW e \in Editors, NotPaired(e)
        PROVE  AloneInv'
    BY <1>2, <1>5, DroppedEffect
  <1>6. ASSUME NEW e \in Editors, Scan(e)
        PROVE  AloneInv'
    <2>1. editor[e].pc = "scan" /\ editor[e] \in EditorType
      BY <1>6, ScanEffect DEF TypeInv
    <2>2. PICK len \in Nat : len = Len(current.sources) /\ DOMAIN current.sources = 1..len
      <3>1. current.sources \in Lists
        BY DEF TypeInv, Config, Lists
      <3> QED BY <3>1 DEF Lists
    <2>3. ASSUME NEW v \in EditorType, UNCHANGED <<current, file, lock, failing, torn>>, Onward(e, v),
                 Searched(e, v) \/ Advanced(e, v) \/ Matched(e, v)
          PROVE  AloneInv'
      <3>1. ASSUME editor[e].alone, Editing(v)
            PROVE  Progress(v, current)
        <4>1. Editing(editor[e]) /\ v.name = editor[e].name /\ v.op = editor[e].op
          BY <2>1, <2>3, <3>1 DEF Editing, Onward
        <4>2. Progress(editor[e], current)
          BY <3>1, <4>1 DEF AloneInv, Alone
        <4>3. /\ editor[e].n = len /\ editor[e].i \in Nat /\ editor[e].i <= len + 1
              /\ \A k \in 1..len : k < editor[e].i => current.sources[k].name # editor[e].name
          BY <2>1, <2>2, <4>2 DEF Progress, EditorType
        <4>4. CASE Searched(e, v)
          <5>1. \A k \in 1..len : k < editor[e].i
            BY <4>3, <4>4 DEF Searched
          <5>2. Unnamed(current.sources, v.name)
            BY <2>2, <4>1, <4>3, <5>1 DEF Unnamed
          <5> QED BY <4>4, <5>2 DEF Searched, Progress, Storing
        <4>5. CASE Advanced(e, v)
          <5>1. PICK i \in 1..len : i = editor[e].i /\ v.i = i + 1 /\ v.n = len
            BY <2>2, <4>3, <4>5 DEF Advanced
          <5>2. \A k \in 1..len : k < i + 1 => k < i \/ k = i
            BY <5>1
          <5>3. current.sources[i].name # v.name
            BY <4>1, <4>5, <5>1 DEF Advanced
          <5>4. \A k \in 1..len : k < v.i => current.sources[k].name # v.name
            BY <4>1, <4>3, <5>1, <5>2, <5>3
          <5>5. v.i <= v.n + 1
            BY <5>1
          <5> QED BY <2>2, <4>5, <5>1, <5>4, <5>5 DEF Advanced, Progress, Storing
        <4>6. CASE Matched(e, v)
          <5>1. PICK i \in 1..len : i = editor[e].i /\ v.i = i
            BY <2>2, <4>6 DEF Matched
          <5>2. \A k \in 1..len : k < i \/ i <= k
            BY <5>1
          <5>3. Foremost(current.sources, v.name, v.i)
            BY <2>2, <4>1, <4>3, <4>6, <5>1, <5>2 DEF Foremost, Matched
          <5> QED BY <4>6, <5>3 DEF Matched, Progress, Storing
        <4> QED BY <2>3, <4>4, <4>5, <4>6
      <3>2. v.pc \notin {"idle", "encode", "element", "write"}
        BY <2>3 DEF Searched, Advanced, Matched
      <3>3. Encoded(v, current, torn', Settled(editor[e], promised))
        BY <3>2, EncodedNot
      <3> QED BY <2>1, <2>3, <3>1, <3>2, <3>3, AloneStill
    <2> QED BY <1>2, <1>3, <1>6, <2>3, ScanEffect
  <1>7. ASSUME NEW e \in Editors, Replace(e)
        PROVE  AloneInv'
    <2>1. editor[e].pc = "replace"
      BY <1>7, ReplaceEffect
    <2>2. ASSUME NEW v \in EditorType, Onward(e, v), v.pc = "save", v.val = editor[e].val,
                 editor[e].i \in DOMAIN current.sources,
                 current' = [current EXCEPT !.sources = [current.sources EXCEPT ![editor[e].i] =
                               [name |-> editor[e].name, val |-> editor[e].val]]],
                 UNCHANGED <<file, lock, failing, torn>>
          PROVE  AloneInv'
      <3>1. PICK d : d = current'
        OBVIOUS
      <3>2. ChangesTo(editor[e], d)
        BY <2>1, <2>2, <3>1 DEF ChangesTo
      <3>3. torn' \in BOOLEAN /\ (torn => torn')
        BY <2>2 DEF TypeInv
      <3> QED BY <2>1, <2>2, <3>1, <3>2, <3>3, AloneChange
    <2> QED BY <1>2, <1>3, <1>7, <2>2, ReplaceEffect
  <1>8. ASSUME NEW e \in Editors, Read(e)
        PROVE  AloneInv'
    <2>1. PICK v \in EditorType : Onward(e, v) /\ v.pc = "assign" /\ v.list = current.sources
      BY <1>8, ReadEffect
    <2>2. editor[e].pc = "read" /\ UNCHANGED <<current, file, torn>>
      BY <1>8, ReadEffect
    <2>3. ASSUME editor[e].alone, Editing(v)
          PROVE  Progress(v, current)
      <3>1. Editing(editor[e]) /\ v.name = editor[e].name /\ v.op = editor[e].op
        BY <2>1, <2>2, <2>3 DEF Editing, Onward
      <3>2. Progress(editor[e], current)
        BY <2>3, <3>1 DEF AloneInv, Alone
      <3> QED BY <2>1, <2>2, <3>1, <3>2 DEF Progress, Storing
    <2>4. Encoded(v, current, torn', Settled(editor[e], promised))
      BY <2>1, EncodedNot
    <2> QED BY <2>1, <2>2, <2>3, <2>4, AloneStill
  <1>9. ASSUME NEW e \in Editors, Assign(e)
        PROVE  AloneInv'
    <2>1. PICK v \in EditorType : /\ Onward(e, v) /\ v.val = editor[e].val
                                  /\ editor[e].op \in {"setup", "pair"} => v.pc = "key"
                                  /\ editor[e].op \notin {"setup", "pair"} => v.pc = "save"
      BY <1>9, AssignEffect
    <2>2. /\ editor[e].pc = "assign" /\ UNCHANGED file /\ current' = Changed(editor[e])
          /\ torn' \in BOOLEAN /\ (torn => torn')
          /\ \A f \in Editors : Tears(editor[e], editor[f]) => torn'
      BY <1>9, AssignEffect
    <2>3. PICK d : d = current'
      OBVIOUS
    <2>4. ChangesTo(editor[e], d)
      BY <2>2, <2>3 DEF ChangesTo
    <2> QED BY <2>1, <2>2, <2>3, <2>4, AloneChange
  <1>10. ASSUME NEW e \in Editors, AssignKey(e)
         PROVE  AloneInv'
    <2>1. PICK v \in EditorType : Onward(e, v) /\ v.pc = "save" /\ v.val = editor[e].val
      BY <1>10, AssignKeyEffect
    <2>2. /\ editor[e].pc = "key" /\ UNCHANGED file
          /\ current' = [current EXCEPT !.key = editor[e].val]
          /\ torn' \in BOOLEAN /\ (torn => torn')
      BY <1>10, AssignKeyEffect DEF TypeInv
    <2>3. PICK d : d = current'
      OBVIOUS
    <2>4. ChangesTo(editor[e], d)
      BY <2>2, <2>3 DEF ChangesTo
    <2> QED BY <2>1, <2>2, <2>3, <2>4, AloneChange
  <1>11. ASSUME NEW e \in Editors, Create(e)
         PROVE  AloneInv'
    <2>1. PICK v \in EditorType : /\ Onward(e, v) /\ v.pc = "encode" /\ v.val = editor[e].val
                                  /\ v.i = 1 /\ v.snap = DefaultConfig
      BY <1>11, CreateEffect
    <2>2. /\ editor[e].pc = "save" /\ UNCHANGED current /\ lock = NoOne
          /\ file' = [state |-> "cut", value |-> DefaultConfig]
      BY <1>11, CreateEffect
    <2>3. ASSUME editor[e].alone, Editing(v)
          PROVE  Progress(v, current)
      <3>1. Editing(editor[e]) /\ Target(v) = Target(editor[e]) /\ Wanted(v) = Wanted(editor[e])
        BY <2>1, <2>2, <2>3 DEF Editing, Onward, Target, Wanted
      <3>2. PartOf(current, Target(v)) = Wanted(v)
        BY <2>2, <2>3, <3>1 DEF AloneInv, Alone, Progress, Storing
      <3> QED BY <2>1, <3>2 DEF Progress
    <2>4. \A f \in Editors : editor[f].pc \notin {"encode", "element", "write"}
      BY <2>2, ConfigAssumption DEF TypeInv, ConfigAssumption
    <2>5. \A S : Beginning(v.snap.sources, current.sources, S)
      <3>1. v.snap.sources = <<>> /\ current.sources \in Seq(DataSource)
        BY <2>1 DEF DefaultConfig, TypeInv, Config
      <3>2. Len(v.snap.sources) = 0 /\ 0 <= Len(current.sources)
        BY <3>1
      <3> QED BY <3>2 DEF Beginning
    <2>6. Encoded(v, current, torn', Settled(editor[e], promised))
      BY <2>1, <2>5 DEF Encoded
    <2>7. file'.state = "cut"
      BY <2>2
    <2> QED BY <2>1, <2>2, <2>3, <2>4, <2>6, <2>7, AloneStill
  <1>12. ASSUME NEW e \in Editors, CreateFails(e) \/ WriteFails(e) \/ EncodePanics(e)
         PROVE  AloneInv'
    <2> SUFFICES ASSUME ~Crash PROVE AloneInv'
      BY <1>3
    <2>1. /\ editor' = [editor EXCEPT ![e] = Idle] /\ UNCHANGED <<current, process, promised, torn>>
          /\ \/ UNCHANGED file
             \/ file' = [state |-> "broken", value |-> DefaultConfig]
             \/ \E c \in Cuts(editor[e].snap) : file' = [state |-> "cut", value |-> c]
      BY <1>12, FailsEffect
    <2>2. file' = file \/ file'.state \in {"cut", "broken"}
      BY <2>1
    <2> QED BY <2>1, <2>2, AloneEnds
  <1>13. ASSUME NEW e \in Editors, EncodeField(e) \/ EncodeLen(e) \/ EncodeElement(e)
         PROVE  AloneInv'
    <2>1. /\ editor[e].pc \in {"encode", "element"} /\ UNCHANGED <<current, file, torn>>
          /\ editor[e] \in EditorType /\ current \in Config /\ torn \in BOOLEAN
      BY <1>13, FieldEffect, LenEffect, ElementEffect DEF TypeInv
    <2>2. PICK S \in SUBSET Parts : S = Settled(editor[e], promised)
      BY DEF Settled
    <2>3. Encoded(editor[e], current, torn, S)
      BY <2>2 DEF AloneInv, Kept
    <2>4. ASSUME NEW v \in EditorType, Onward(e, v), v.pc \in {"encode", "element", "write"},
                 v.val = editor[e].val, Encoded(v, current, torn, S)
          PROVE  AloneInv'
      <3>1. ASSUME editor[e].alone, Editing(v)
            PROVE  Progress(v, current)
        <4>1. Editing(editor[e]) /\ Target(v) = Target(editor[e]) /\ Wanted(v) = Wanted(editor[e])
          BY <2>1, <2>4, <3>1 DEF Editing, Onward, Target, Wanted
        <4>2. PartOf(current, Target(v)) = Wanted(v)
          BY <2>1, <3>1, <4>1 DEF AloneInv, Alone, Progress, Storing
        <4>3. v.op \in ListOps => v.pc # "assign"
          BY <2>4
        <4> QED BY <2>4, <4>2, <4>3 DEF Progress
      <3> QED BY <2>1, <2>2, <2>4, <3>1, AloneStill
    <2>5. CASE EncodeField(e)
      <3>1. PICK v \in EditorType :
               /\ Onward(e, v) /\ v.pc = "encode" /\ v.val = editor[e].val
               /\ v.i = editor[e].i + 1
               /\ v.snap.sources = editor[e].snap.sources
               /\ v.snap.url = IF editor[e].i = 1 THEN current.url ELSE editor[e].snap.url
               /\ v.snap.key = IF editor[e].i = 2 THEN current.key ELSE editor[e].snap.key
               /\ v.snap.remote = IF editor[e].i = 3 THEN current.remote ELSE editor[e].snap.remote
               /\ v.snap.mode = IF editor[e].i = 4 THEN current.mode ELSE editor[e].snap.mode
        BY <2>5, FieldEffect
      <3>2. editor[e].pc = "encode" /\ editor[e].i \in 1..4
        BY <2>5, FieldEffect
      <3>3. Encoded(v, current, torn, S)
        BY <2>1, <2>3, <3>1, <3>2, EncodedField
      <3> QED BY <2>4, <3>1, <3>3
    <2>6. CASE EncodeLen(e)
      <3>1. PICK v \in EditorType :
               /\ Onward(e, v) /\ v.val = editor[e].val /\ v.snap = editor[e].snap
               /\ v.i = editor[e].i
               /\ v.pc = "element" \/ (v.pc = "write" /\ ~More(e))
        BY <2>6, LenEffect
      <3>2. editor[e].pc = "encode" /\ editor[e].i > 4
        BY <2>6, LenEffect
      <3>3. CASE v.pc = "element"
        <4>1. Encoded(v, current, torn, S)
          BY <2>3, <3>1, <3>2, <3>3 DEF Encoded
        <4> QED BY <2>4, <3>1, <3>3, <4>1
      <3>4. CASE v.pc = "write" /\ ~More(e)
        <4>1. Encoded(v, current, torn, S)
          BY <2>1, <2>3, <3>1, <3>2, <3>4, EncodedAll DEF More
        <4> QED BY <2>4, <3>1, <3>4, <4>1
      <3> QED BY <3>1, <3>3, <3>4
    <2>7. CASE EncodeElement(e)
      <3>1. PICK v \in EditorType :
               /\ Onward(e, v) /\ v.pc = "encode" /\ v.val = editor[e].val /\ v.i = editor[e].i
               /\ v.snap = [editor[e].snap EXCEPT !.sources =
                               Append(editor[e].snap.sources,
                                      current.sources[Len(editor[e].snap.sources) + 1])]
        BY <2>7, ElementEffect
      <3>2. editor[e].pc = "element" /\ More(e)
        BY <2>7, ElementEffect
      <3>3. Encoded(v, current, torn, S)
        BY <2>1, <2>3, <3>1, <3>2, EncodedElement DEF More
      <3> QED BY <2>4, <3>1, <3>3
    <2> QED BY <1>13, <2>5, <2>6, <2>7
  <1>14. ASSUME NEW e \in Editors, Write(e)
         PROVE  AloneInv'
    BY <1>14, AloneWrite
  <1>15. CASE Load
    <2>1. \A e \in Editors : editor'[e].pc = "idle"
      BY <1>15 DEF Load, Quiet, Idle
    <2>2. /\ current' = Loaded(file) /\ UNCHANGED file /\ file.state # "broken" /\ file \in Files
          /\ \A p \in Parts : promised'[p] =
                IF file.state = "cut" \/ (file.state = "torn" /\ p \in Names) THEN Unknown
                ELSE promised[p]
      BY <1>15 DEF Load, TypeInv
    <2>3. Alone' /\ Withdrawn'
      BY <2>1 DEF Alone, Withdrawn, Editing
    <2>4. Apart'
      BY <2>1 DEF Apart, Disturbs
    <2>5. \A p \in Parts : promised'[p] # Unknown => PartOf(Loaded(file), p) = promised'[p]
      BY <2>2 DEF AloneInv, Kept, Stored
    <2>6. \A e \in Editors : Encoded(editor'[e], current', torn', Settled(editor'[e], promised'))
      BY <2>1, EncodedNot
    <2>7. Stored(file', promised')
      BY <2>2, <2>5 DEF Stored
    <2>8. Kept'
      BY <2>2, <2>5, <2>6, <2>7 DEF Kept, Holds
    <2> QED BY <2>3, <2>4, <2>8 DEF AloneInv
  <1>16. CASE LoadFails \/ Unstartable \/ UNCHANGED vars
    <2>1. /\ UNCHANGED <<current, file, editor, promised, torn>>
          /\ process' = "up" => process = "up"
      BY <1>16 DEF LoadFails, Unstartable, vars
    <2>2. Alone'
      <3>1. \A e \in Editors : editor'[e].alone /\ Editing(editor'[e]) => Progress(editor'[e], current')
        BY <2>1 DEF AloneInv, Alone
      <3> QED BY <3>1 DEF Alone
    <2>3. Withdrawn' /\ Apart'
      <3>1. \A e \in Editors : Editing(editor'[e]) =>
               /\ promised'[Target(editor'[e])] = Unknown
               /\ editor'[e].op \in ListOps /\ ~editor'[e].alone
                     => \A p \in Names : promised'[p] = Unknown
        BY <2>1 DEF AloneInv, Withdrawn
      <3>2. \A e, f \in Editors : e # f /\ Disturbs(editor'[e], editor'[f]) => ~editor'[e].alone
        BY <2>1 DEF AloneInv, Apart
      <3> QED BY <3>1, <3>2 DEF Withdrawn, Apart
    <2>4. Kept'
      <3>1. \A e \in Editors : Encoded(editor'[e], current', torn', Settled(editor'[e], promised'))
        BY <2>1 DEF AloneInv, Kept
      <3>2. (process' = "up" => Holds(current)') /\ Stored(file', promised')
        BY <2>1 DEF AloneInv, Kept, Holds
      <3> QED BY <3>1, <3>2 DEF Kept
    <2> QED BY <2>2, <2>3, <2>4 DEF AloneInv
  <1> QED BY <1>1, <1>3, <1>4, <1>5, <1>6, <1>7, <1>8, <1>9, <1>10, <1>11, <1>12, <1>13, <1>14, <1>15,
             <1>16 DEF Next, EditorStep

\* What an undisturbed edit saved is found again, in memory and, after a restart
\* from a complete file, in what is loaded: a data source unless a deletion took
\* of the list what the encoder had read.
THEOREM AloneIsSaved == Spec => []SavedAlone
  <1> DEFINE Inv == TypeInv /\ Quiet /\ AloneInv
  <1>1. Init => Inv
    <2> SUFFICES ASSUME Init PROVE Inv
      OBVIOUS
    <2>1. /\ \A e \in Editors : editor[e] = Idle
          /\ \A p \in Parts : promised[p] = Unknown
          /\ process = "down" /\ Idle.pc = "idle"
      BY DEF Init, Idle
    <2>2. Quiet /\ Alone /\ Withdrawn /\ Apart
      BY <2>1 DEF Quiet, Alone, Withdrawn, Apart, Editing, Disturbs
    <2>3. Kept
      BY <2>1, EncodedNot DEF Kept, Holds, Stored
    <2> QED BY <2>2, <2>3, TypeInit DEF AloneInv
  <1>2. Inv /\ [Next]_vars => Inv'
    BY TypeStep, QuietStep, AloneStep
  <1>3. Inv => SavedAlone
    BY DEF AloneInv, Kept, Holds, SavedAlone
  <1> QED BY <1>1, <1>2, <1>3, PTL DEF Spec
====
