-------------------------- MODULE DashboardsProofs --------------------------
(***************************************************************************)
(* Proofs about Dashboards, for any number of requests, dashboards and     *)
(* items, whatever clients send.                                           *)
(***************************************************************************)
EXTENDS Dashboards, FiniteSetTheorems, SequenceTheorems, TLAPS

-----------------------------------------------------------------------------
(* Lists of items, their ids from a set. *)

ItemOf(S) == [id : S, is : Values]
Ided(items, S) == items \in Seq(ItemOf(S)) /\ DistinctIds(items)

LEMMA IdedGrows ==
    ASSUME NEW S, NEW T, S \subseteq T, NEW items, Ided(items, S)
    PROVE  Ided(items, T)
<1>1. ItemOf(S) \subseteq ItemOf(T)
  BY DEF ItemOf
<1>2. items \in Seq(ItemOf(T))
  BY <1>1, SeqMonotonic DEF Ided
<1> QED BY <1>2 DEF Ided

LEMMA ItemsAre ==
    ASSUME NEW S, NEW items \in Seq(ItemOf(S))
    PROVE  /\ Len(items) \in Nat /\ DOMAIN items = 1..Len(items)
           /\ \A i \in DOMAIN items : /\ items[i] \in ItemOf(S)
                                      /\ items[i].id \in S /\ items[i].is \in Values
<1>1. /\ Len(items) \in Nat /\ DOMAIN items = 1..Len(items)
  BY LenProperties
<1>2. \A i \in DOMAIN items : items[i] \in ItemOf(S)
  BY <1>1, ElementOfSeq
<1> QED BY <1>1, <1>2 DEF ItemOf

\* IDs.Generate counts the items that need an id.
LEMMA Counted ==
    ASSUME NEW n \in Nat, NEW S \in SUBSET (1..n)
    PROVE  /\ IsFiniteSet(S) /\ Cardinality(S) \in Nat
           /\ \A i \in S : Cardinality({j \in S : j <= i}) \in 1..Cardinality(S)
           /\ \A i, k \in S : i < k =>
                 Cardinality({j \in S : j <= i}) < Cardinality({j \in S : j <= k})
<1> DEFINE Upto(i) == {j \in S : j <= i}
<1>1. IsFiniteSet(S)
  <2>1. IsFiniteSet(1..n)
    BY FS_Interval
  <2> QED BY <2>1, FS_Subset
<1>2. \A T \in SUBSET S : IsFiniteSet(T) /\ Cardinality(T) \in Nat
                          /\ Cardinality(T) <= Cardinality(S)
  BY <1>1, FS_Subset, FS_CardinalityType
<1>3. \A i \in S : Upto(i) \in SUBSET S /\ i \in Upto(i)
  BY DEF Upto
<1>4. ASSUME NEW i \in S PROVE Cardinality(Upto(i)) \in 1..Cardinality(S)
  <2>1. Cardinality(Upto(i)) # 0
    BY <1>2, <1>3, FS_EmptySet
  <2> QED BY <2>1, <1>2, <1>3
<1>5. ASSUME NEW i \in S, NEW k \in S, i < k
      PROVE  Cardinality(Upto(i)) < Cardinality(Upto(k))
  <2>0. \A j \in S : j \in Nat /\ (j <= i => j <= k) /\ ~(k <= i)
    BY <1>5
  <2>1. Upto(i) \in SUBSET Upto(k) /\ Upto(i) # Upto(k)
    BY <2>0, <1>3
  <2>2. /\ Cardinality(Upto(i)) <= Cardinality(Upto(k))
        /\ Cardinality(Upto(k)) = Cardinality(Upto(i)) => Upto(k) = Upto(i)
    BY <2>1, <1>2, <1>3, FS_Subset
  <2> QED BY <2>1, <2>2, <1>2, <1>3
<1> QED BY <1>1, <1>2, <1>4, <1>5

\* The items of S get new ids, each its own; the others keep theirs.
LEMMA WithIdsIs ==
    ASSUME uids \in Nat, NEW items \in Seq(ItemOf(0..uids)),
           NEW S \in SUBSET DOMAIN items,
           \A i \in DOMAIN items \ S : items[i].id \in 1..uids,
           \A i, j \in DOMAIN items \ S : items[i].id = items[j].id => i = j
    PROVE  /\ IsFiniteSet(S) /\ Cardinality(S) \in Nat
           /\ Ided(WithIds(items, S), 1..(uids + Cardinality(S)))
           /\ DOMAIN WithIds(items, S) = DOMAIN items
           /\ \A i \in DOMAIN items :
                 /\ WithIds(items, S)[i].is = items[i].is
                 /\ i \notin S => WithIds(items, S)[i] = items[i]
                 /\ i \in S => WithIds(items, S)[i].id > uids
<1> DEFINE n == Len(items)
           new == WithIds(items, S)
           count(i) == Cardinality({j \in S : j <= i})
           fresh(i) == uids + count(i)
           top == uids + Cardinality(S)
<1>1. /\ n \in Nat /\ DOMAIN items = 1..n
      /\ \A i \in 1..n : items[i] \in ItemOf(0..uids)
  BY ItemsAre
<1>2. /\ IsFiniteSet(S) /\ Cardinality(S) \in Nat
      /\ \A i \in S : fresh(i) \in (uids + 1)..top
      /\ \A i, k \in S : i < k => fresh(i) < fresh(k)
  <2>1. /\ IsFiniteSet(S) /\ Cardinality(S) \in Nat
        /\ \A i \in S : count(i) \in 1..Cardinality(S)
        /\ \A i, k \in S : i < k => count(i) < count(k)
    BY <1>1, Counted
  <2>2. \A i \in S : fresh(i) \in (uids + 1)..top
    BY <2>1
  <2>3. ASSUME NEW i \in S, NEW k \in S, i < k PROVE fresh(i) < fresh(k)
    <3>1. count(i) \in Nat /\ count(k) \in Nat /\ count(i) < count(k)
      BY <2>1, <2>3
    <3> QED BY <3>1
  <2> QED BY <2>1, <2>2, <2>3
<1>3. /\ DOMAIN new = 1..n
      /\ \A i \in 1..n : new[i] = IF i \in S THEN [items[i] EXCEPT !.id = fresh(i)]
                                             ELSE items[i]
  BY <1>1 DEF WithIds
<1> HIDE DEF new, fresh
<1>4. \A i \in 1..n : /\ new[i].is = items[i].is /\ new[i].is \in Values
                      /\ DOMAIN new[i] = {"id", "is"}
                      /\ i \in S => new[i] = [id |-> fresh(i), is |-> items[i].is]
                      /\ i \notin S => new[i] = items[i]
  BY <1>1, <1>3 DEF ItemOf
<1>5. \A i \in 1..n : /\ i \in S => new[i].id = fresh(i)
                      /\ i \notin S => new[i].id \in 1..uids
  <2> TAKE i \in 1..n
  <2>1. CASE i \in S
    <3>1. new[i] = [id |-> fresh(i), is |-> items[i].is]
      BY <2>1, <1>4
    <3> QED BY <2>1, <3>1
  <2>2. CASE i \notin S
    <3>1. new[i] = items[i] /\ i \in DOMAIN items \ S
      BY <2>2, <1>1, <1>4
    <3> QED BY <3>1, <2>2
  <2> QED BY <2>1, <2>2
<1>6. \A i \in 1..n : new[i].id \in 1..top /\ (i \in S => new[i].id > uids)
  BY <1>2, <1>5
<1>7. \A i \in 1..n : new[i] \in ItemOf(1..top)
  <2> TAKE i \in 1..n
  <2>1. CASE i \in S
    <3>1. fresh(i) \in 1..top /\ items[i].is \in Values
      BY <2>1, <1>1, <1>2 DEF ItemOf
    <3>2. new[i] = [id |-> fresh(i), is |-> items[i].is]
      BY <2>1, <1>4
    <3> QED BY <3>1, <3>2 DEF ItemOf
  <2>2. CASE i \notin S
    BY <2>2, <1>1, <1>4, <1>6 DEF ItemOf
  <2> QED BY <2>1, <2>2
<1>8. new \in Seq(ItemOf(1..top))
  <2>1. new = [i \in 1..n |-> new[i]]
    BY <1>3 DEF new, WithIds
  <2> QED BY <1>1, <1>7, <2>1
<1>9. ASSUME NEW i \in 1..n, NEW j \in 1..n, new[i].id = new[j].id PROVE i = j
  <2>1. CASE i \in S /\ j \in S
    BY <2>1, <1>1, <1>2, <1>5, <1>9
  <2>2. CASE i \notin S /\ j \notin S
    BY <2>2, <1>1, <1>4, <1>9
  <2>3. CASE ~(i \in S <=> j \in S)
    BY <2>3, <1>5, <1>6, <1>9
  <2> QED BY <2>1, <2>2, <2>3
<1>10. Ided(new, 1..top)
  BY <1>3, <1>8, <1>9 DEF Ided, DistinctIds
<1> QED BY <1>1, <1>2, <1>3, <1>4, <1>6, <1>10 DEF new

\* No item lacks an id: the list stays.
LEMMA WithIdsNone ==
    ASSUME NEW S, NEW items \in Seq(ItemOf(S)) PROVE WithIds(items, {}) = items
<1>1. /\ Len(items) \in Nat /\ DOMAIN items = 1..Len(items)
      /\ items = [i \in 1..Len(items) |-> items[i]]
  BY ItemsAre, LenProperties
<1> QED BY <1>1 DEF WithIds

\* What the handlers of a cell or template do to a list, and to it as a set.
LEMMA AppendIs ==
    ASSUME NEW S, NEW T, S \subseteq T, NEW items, Ided(items, S),
           NEW x \in ItemOf(T), x.id \notin S
    PROVE  /\ Ided(Append(items, x), T)
           /\ AsSet(Append(items, x)) = AsSet(items) \cup {x}
<1> DEFINE n == Len(items)
           new == Append(items, x)
<1>1. Ided(items, T)
  BY IdedGrows
<1>2. /\ n \in Nat /\ DOMAIN items = 1..n
      /\ \A i \in 1..n : items[i].id \in S
      /\ \A i, j \in 1..n : items[i].id = items[j].id => i = j
  BY ItemsAre DEF Ided, DistinctIds
<1>3. /\ new \in Seq(ItemOf(T)) /\ DOMAIN new = 1..(n + 1)
      /\ \A i \in 1..n : new[i] = items[i]
      /\ new[n + 1] = x
  <2>1. /\ new \in Seq(ItemOf(T)) /\ Len(new) = n + 1
        /\ \A i \in 1..n : new[i] = items[i]
        /\ new[n + 1] = x
    BY <1>1, AppendProperties DEF Ided
  <2> QED BY <2>1, ItemsAre
<1> HIDE DEF new, n
<1>4. ASSUME NEW i \in 1..(n + 1), NEW j \in 1..(n + 1), new[i].id = new[j].id
      PROVE  i = j
  <2>1. CASE i \in 1..n /\ j \in 1..n
    BY <2>1, <1>2, <1>3, <1>4
  <2>2. CASE i = n + 1 /\ j \in 1..n
    BY <2>2, <1>2, <1>3, <1>4
  <2>3. CASE i \in 1..n /\ j = n + 1
    BY <2>3, <1>2, <1>3, <1>4
  <2> QED BY <2>1, <2>2, <2>3, <1>2
<1>5. AsSet(new) = AsSet(items) \cup {x}
  <2>1. ASSUME NEW y PROVE y \in AsSet(new) <=> y \in AsSet(items) \/ y = x
    <3>1. y \in AsSet(new) <=> \E i \in 1..(n + 1) : y = new[i]
      BY <1>3 DEF AsSet
    <3>2. y \in AsSet(items) <=> \E i \in 1..n : y = items[i]
      BY <1>2 DEF AsSet
    <3>3. \A i \in 1..(n + 1) : i \in 1..n \/ i = n + 1
      BY <1>2
    <3>4. n + 1 \in 1..(n + 1) /\ \A i \in 1..n : i \in 1..(n + 1)
      BY <1>2
    <3> QED BY <3>1, <3>2, <3>3, <3>4, <1>3
  <2> QED BY <2>1
<1> QED BY <1>3, <1>4, <1>5 DEF Ided, DistinctIds, new

LEMMA RemoveIs ==
    ASSUME NEW S, NEW items, Ided(items, S), NEW k \in DOMAIN items
    PROVE  /\ Ided(RemoveAt(items, k), S)
           /\ AsSet(RemoveAt(items, k)) = AsSet(items) \ {items[k]}
<1> DEFINE n == Len(items)
           new == RemoveAt(items, k)
           from(i) == IF i < k THEN i ELSE i + 1
<1>1. /\ n \in Nat /\ DOMAIN items = 1..n /\ k \in 1..n
      /\ \A i \in 1..n : items[i] \in ItemOf(S)
      /\ \A i, j \in 1..n : items[i].id = items[j].id => i = j
  BY ItemsAre DEF Ided, DistinctIds
<1>2. /\ new \in Seq(ItemOf(S)) /\ DOMAIN new = 1..(n - 1)
      /\ \A i \in 1..(n - 1) : new[i] = items[from(i)]
  <2> DEFINE low == SubSeq(items, 1, k - 1)
             high == SubSeq(items, k + 1, n)
  <2>1. /\ low \in Seq(ItemOf(S)) /\ Len(low) = k - 1
        /\ \A i \in 1..(k - 1) : low[i] = items[i]
    <3>1. \A i \in 1..(k - 1) : items[i] \in ItemOf(S)
      BY <1>1
    <3>2. /\ low \in Seq(ItemOf(S))
          /\ Len(low) = IF 1 <= k - 1 THEN k - 1 - 1 + 1 ELSE 0
          /\ \A i \in 1..(k - 1 - 1 + 1) : low[i] = items[1 + i - 1]
      BY <1>1, <3>1, SubSeqProperties
    <3> QED BY <1>1, <3>2
  <2>2. /\ high \in Seq(ItemOf(S)) /\ Len(high) = n - k
        /\ \A i \in 1..(n - k) : high[i] = items[k + i]
    <3>1. \A i \in (k + 1)..n : items[i] \in ItemOf(S)
      BY <1>1
    <3>2. /\ high \in Seq(ItemOf(S))
          /\ Len(high) = IF k + 1 <= n THEN n - (k + 1) + 1 ELSE 0
          /\ \A i \in 1..(n - (k + 1) + 1) : high[i] = items[k + 1 + i - 1]
      BY <1>1, <3>1, SubSeqProperties
    <3> QED BY <1>1, <3>2
  <2> HIDE DEF low, high
  <2>3. /\ low \o high \in Seq(ItemOf(S)) /\ Len(low \o high) = n - 1
        /\ \A i \in 1..(n - 1) :
              (low \o high)[i] = IF i <= k - 1 THEN low[i] ELSE high[i - (k - 1)]
    <3>1. /\ low \o high \in Seq(ItemOf(S))
          /\ Len(low \o high) = Len(low) + Len(high)
          /\ \A i \in 1..(Len(low) + Len(high)) :
                (low \o high)[i] = IF i <= Len(low) THEN low[i] ELSE high[i - Len(low)]
      BY <2>1, <2>2, ConcatProperties
    <3>2. Len(low) + Len(high) = n - 1
      BY <1>1, <2>1, <2>2
    <3> QED BY <2>1, <3>1, <3>2
  <2>4. new = low \o high
    BY DEF low, high, RemoveAt
  <2>5. ASSUME NEW i \in 1..(n - 1) PROVE new[i] = items[from(i)]
    <3>1. CASE i < k
      BY <3>1, <1>1, <2>1, <2>3, <2>4
    <3>2. CASE ~(i < k)
      <4>1. i - (k - 1) \in 1..(n - k) /\ k + (i - (k - 1)) = i + 1
        BY <3>2, <1>1
      <4>2. high[i - (k - 1)] = items[i + 1]
        BY <4>1, <2>2
      <4>3. ~(i <= k - 1)
        BY <3>2, <1>1
      <4>4. new[i] = high[i - (k - 1)]
        BY <4>3, <2>3, <2>4
      <4> QED BY <3>2, <4>2, <4>4
    <3> QED BY <3>1, <3>2
  <2> QED BY <2>3, <2>4, <2>5, ItemsAre
<1> HIDE DEF new
<1>3. /\ \A i \in 1..(n - 1) : from(i) \in 1..n /\ from(i) # k
      /\ \A i, j \in 1..(n - 1) : from(i) = from(j) => i = j
      /\ \A i \in 1..n : i # k => \E j \in 1..(n - 1) : from(j) = i
  <2>1. ASSUME NEW i \in 1..n, i # k PROVE \E j \in 1..(n - 1) : from(j) = i
    <3>1. CASE i < k
      <4>1. i \in 1..(n - 1) /\ from(i) = i
        BY <3>1, <1>1
      <4> QED BY <4>1
    <3>2. CASE ~(i < k)
      <4>1. i - 1 \in 1..(n - 1) /\ from(i - 1) = i
        BY <3>2, <2>1, <1>1
      <4> QED BY <4>1
    <3> QED BY <3>1, <3>2
  <2> QED BY <2>1, <1>1
<1> HIDE DEF from
<1>4. ASSUME NEW i \in 1..(n - 1), NEW j \in 1..(n - 1), new[i].id = new[j].id
      PROVE  i = j
  <2>1. items[from(i)].id = items[from(j)].id
    BY <1>2, <1>4
  <2> QED BY <2>1, <1>1, <1>3
<1>5. AsSet(new) = AsSet(items) \ {items[k]}
  <2>1. ASSUME NEW y
        PROVE  y \in AsSet(new) <=> y \in AsSet(items) /\ y # items[k]
    <3>1. y \in AsSet(new) <=> \E i \in 1..(n - 1) : y = items[from(i)]
      BY <1>2 DEF AsSet
    <3>2. y \in AsSet(items) <=> \E i \in 1..n : y = items[i]
      BY <1>1 DEF AsSet
    <3>3. \A i \in 1..n : items[i] = items[k] => i = k
      BY <1>1
    <3> QED BY <3>1, <3>2, <3>3, <1>1, <1>3
  <2> QED BY <2>1
<1> QED BY <1>2, <1>4, <1>5 DEF Ided, DistinctIds, new

LEMMA ReplaceIs ==
    ASSUME NEW S, NEW items, Ided(items, S), NEW k \in DOMAIN items,
           NEW x \in ItemOf(S), x.id = items[k].id
    PROVE  /\ Ided([items EXCEPT ![k] = x], S)
           /\ AsSet([items EXCEPT ![k] = x]) = (AsSet(items) \ {items[k]}) \cup {x}
<1> DEFINE n == Len(items)
           new == [items EXCEPT ![k] = x]
<1>1. /\ n \in Nat /\ DOMAIN items = 1..n /\ k \in 1..n
      /\ \A i, j \in 1..n : items[i].id = items[j].id => i = j
  BY ItemsAre DEF Ided, DistinctIds
<1>2. /\ new \in Seq(ItemOf(S)) /\ DOMAIN new = 1..n
      /\ \A i \in 1..n : new[i] = IF i = k THEN x ELSE items[i]
  BY <1>1, ExceptSeq DEF Ided
<1> HIDE DEF new
<1>3. ASSUME NEW i \in 1..n, NEW j \in 1..n, new[i].id = new[j].id PROVE i = j
  <2>1. new[i].id = items[i].id /\ new[j].id = items[j].id
    BY <1>2
  <2> QED BY <2>1, <1>1, <1>3
<1>4. AsSet(new) = (AsSet(items) \ {items[k]}) \cup {x}
  <2>1. ASSUME NEW y
        PROVE  y \in AsSet(new) <=> (y \in AsSet(items) /\ y # items[k]) \/ y = x
    <3>1. y \in AsSet(new) <=> \E i \in 1..n : y = new[i]
      BY <1>2 DEF AsSet
    <3>2. y \in AsSet(items) <=> \E i \in 1..n : y = items[i]
      BY <1>1 DEF AsSet
    <3>3. \A i \in 1..n : items[i] = items[k] => i = k
      BY <1>1
    <3> QED BY <3>1, <3>2, <3>3, <1>1, <1>2
  <2> QED BY <2>1
<1> QED BY <1>2, <1>3, <1>4 DEF Ided, DistinctIds, new

LEMMA PositionIs ==
    ASSUME NEW S, NEW items, Ided(items, S), NEW id
    PROVE  Position(items, id) # 0 =>
              /\ Position(items, id) \in DOMAIN items
              /\ items[Position(items, id)].id = id
<1>1. /\ Len(items) \in Nat /\ DOMAIN items = 1..Len(items)
      /\ \A i, j \in DOMAIN items : items[i].id = items[j].id => i = j
  BY ItemsAre DEF Ided, DistinctIds
<1>2. SUFFICES ASSUME NEW k \in DOMAIN items, items[k].id = id
               PROVE  /\ Position(items, id) \in DOMAIN items
                      /\ items[Position(items, id)].id = id
  BY DEF Position
<1>3. \A j \in 1..(k - 1) : items[j].id # id
  BY <1>1, <1>2
<1> QED BY <1>2, <1>3 DEF Position

-----------------------------------------------------------------------------
(* What is stored, read and asked for, when n ids have been made.           *)

TemplateIds(n) == (1..n) \cup ClientIds
BoardOf(orgs, S, T) == [org : orgs, name : Names \cup {""},
                        cells : Seq(ItemOf(S)), templates : Seq(ItemOf(T))]

\* A dashboard whose items each have an id of their own.
Sound(b, n) ==
    /\ b \in BoardOf(Orgs, 1..n, TemplateIds(n))
    /\ DistinctIds(b.cells) /\ DistinctIds(b.templates)

\* The body of a whole dashboard, some cell of which may lack an id.
SoundBody(b, n) ==
    /\ b \in BoardOf(Orgs \cup {""}, 0..n, TemplateIds(n))
    /\ DistinctIds(b.cells) /\ DistinctIds(b.templates)

SoundUpdate(b, n) ==
    /\ b \in [name : Names \cup {""}, cells : Seq(ItemOf(0..n))]
    /\ DistinctIds(b.cells)

Items == {"addItem", "removeItem", "replaceItem"}
Ops == {"create", "remove", "replace", "update"} \cup Items

Asks(r, n) ==
    /\ r.op \in Ops
    /\ r.op = "create" => /\ DOMAIN r = {"op", "org", "body"} /\ r.org \in Orgs
                          /\ SoundBody(r.body, n)
    /\ r.op \in {"replace", "update"} => DOMAIN r = {"op", "org", "id", "body"}
    /\ r.op = "replace" => SoundBody(r.body, n)
    /\ r.op = "update" => SoundUpdate(r.body, n)
    /\ r.op \in Items => r.part \in Parts
    /\ r.op \in {"addItem", "replaceItem"} => r.is \in Values

\* A request at work, when k dashboards have been made.
Works(q, n, k) ==
    /\ q.at \in {"get", "check", "store"}
    /\ Asks(q.r, n)
    /\ q.r.op = "create" => q.at = "store"
    /\ q.r.op # "create" => q.r.id \in 1..k
    /\ q.r.op # "create" /\ q.at # "get" => Sound(q.dash, n) /\ Accepted(q.r, q.dash)

Inv ==
    /\ boardSeq \in Nat /\ uids \in 0..MaxUid
    /\ DOMAIN boards \subseteq 1..boardSeq
    /\ \A b \in DOMAIN boards : Sound(boards[b], uids)
    /\ DOMAIN reqs = Slots
    /\ \A s \in Slots : reqs[s] = Idle \/ Works(reqs[s], uids, boardSeq)

LEMMA BoardGrows ==
    ASSUME NEW orgs, NEW S, NEW S1, S \subseteq S1, NEW T, NEW T1, T \subseteq T1,
           NEW b \in BoardOf(orgs, S, T)
    PROVE  b \in BoardOf(orgs, S1, T1)
<1>1. ItemOf(S) \subseteq ItemOf(S1) /\ ItemOf(T) \subseteq ItemOf(T1)
  BY DEF ItemOf
<1>2. b.cells \in Seq(ItemOf(S1)) /\ b.templates \in Seq(ItemOf(T1))
  BY <1>1, SeqMonotonic DEF BoardOf
<1> QED BY <1>2 DEF BoardOf

\* More ids and more dashboards change nothing of what was sound.
LEMMA SoundGrows ==
    ASSUME NEW n \in Nat, NEW m \in Nat, n <= m
    PROVE  /\ \A b : Sound(b, n) => Sound(b, m)
           /\ \A b : SoundBody(b, n) => SoundBody(b, m)
           /\ \A b : SoundUpdate(b, n) => SoundUpdate(b, m)
           /\ \A r : Asks(r, n) => Asks(r, m)
<1>1. 1..n \subseteq 1..m /\ 0..n \subseteq 0..m /\ TemplateIds(n) \subseteq TemplateIds(m)
  BY DEF TemplateIds
<1>2. \A b : Sound(b, n) => Sound(b, m)
  BY <1>1, BoardGrows DEF Sound
<1>3. \A b : SoundBody(b, n) => SoundBody(b, m)
  BY <1>1, BoardGrows DEF SoundBody
<1>4. \A b : SoundUpdate(b, n) => SoundUpdate(b, m)
  <2>1. ItemOf(0..n) \subseteq ItemOf(0..m)
    BY <1>1 DEF ItemOf
  <2> TAKE b
  <2> HAVE SoundUpdate(b, n)
  <2>2. b.cells \in Seq(ItemOf(0..m))
    BY <2>1, SeqMonotonic DEF SoundUpdate
  <2> QED BY <2>2 DEF SoundUpdate
<1>5. \A r : Asks(r, n) => Asks(r, m)
  BY <1>3, <1>4 DEF Asks
<1> QED BY <1>2, <1>3, <1>4, <1>5

LEMMA WorksGrows ==
    ASSUME NEW n \in Nat, NEW m \in Nat, n <= m, NEW k \in Nat, NEW l \in Nat, k <= l,
           NEW q, Works(q, n, k)
    PROVE  Works(q, m, l)
<1>1. Asks(q.r, m) /\ (Sound(q.dash, n) => Sound(q.dash, m))
  BY SoundGrows DEF Works
<1> QED BY <1>1 DEF Works

-----------------------------------------------------------------------------
(* What a request asks for is something a client can ask.                   *)

LEMMA KnownAre ==
    ASSUME NEW S, NEW n \in Nat, NEW items \in SeqUpTo([id : S, is : BodyValues], n)
    PROVE  items \in Seq(ItemOf(S))
<1>1. PICK k \in 0..n : items \in [1..k -> [id : S, is : BodyValues]]
  BY DEF SeqUpTo
<1>2. [id : S, is : BodyValues] \subseteq ItemOf(S)
  BY DashboardsAssumption DEF ItemOf
<1>3. items \in [1..k -> ItemOf(S)] /\ k \in Nat
  BY <1>1, <1>2
<1> QED BY <1>3

LEMMA RequestAsks ==
    ASSUME uids \in Nat, NEW r \in Requests
    PROVE  Asks(r, uids) /\ (r.op # "create" => r.id \in Ids)
<1>1. \A c \in KnownCells : c \in Seq(ItemOf(0..uids)) /\ DistinctIds(c)
  BY KnownAre, DashboardsAssumption DEF KnownCells
<1>2. \A c \in KnownTemplates : c \in Seq(ItemOf(TemplateIds(uids))) /\ DistinctIds(c)
  BY KnownAre, DashboardsAssumption DEF KnownTemplates, TemplateIds
<1>3. \A b \in Bodies : SoundBody(b, uids)
  BY <1>1, <1>2 DEF Bodies, SoundBody, BoardOf
<1>4. \A b \in Updates : SoundUpdate(b, uids)
  BY <1>1 DEF Updates, SoundUpdate
<1>5. CASE r \in [op : {"create"}, org : Orgs, body : Bodies]
  BY <1>5, <1>3 DEF Asks, Ops, Items
<1>6. CASE r \in [op : {"remove"}, org : Orgs, id : Ids]
  BY <1>6 DEF Asks, Ops, Items
<1>7. CASE r \in [op : {"replace"}, org : Orgs, id : Ids, body : Bodies]
  BY <1>7, <1>3 DEF Asks, Ops, Items
<1>8. CASE r \in [op : {"update"}, org : Orgs, id : Ids, body : Updates]
  BY <1>8, <1>4 DEF Asks, Ops, Items
<1>9. CASE r \in [op : {"addItem"}, org : Orgs, id : Ids, part : Parts, is : Values]
  BY <1>9 DEF Asks, Ops, Items
<1>10. CASE r \in [op : {"removeItem"}, org : Orgs, id : Ids, part : Parts,
                   item : 1..uids \cup ClientIds]
  BY <1>10 DEF Asks, Ops, Items
<1>11. CASE r \in [op : {"replaceItem"}, org : Orgs, id : Ids, part : Parts,
                   item : 1..uids \cup ClientIds, is : Values]
  BY <1>11 DEF Asks, Ops, Items
<1> QED BY <1>5, <1>6, <1>7, <1>8, <1>9, <1>10, <1>11 DEF Requests

-----------------------------------------------------------------------------
(* What is written back.                                                    *)

Made(r, d) ==
    Cardinality(Missing(Changed(r, d).cells)) + IF r.op = "addItem" THEN 1 ELSE 0
Written(r, d) == [Changed(r, d) EXCEPT
    !.cells = WithIds(Changed(r, d).cells, Missing(Changed(r, d).cells))]

PartIds(p, n) == IF p = "cells" THEN 1..n ELSE TemplateIds(n)

LEMMA PartIs ==
    ASSUME NEW n \in Nat, NEW d, Sound(d, n), NEW p \in Parts
    PROVE  /\ Ided(d[p], PartIds(p, n))
           /\ AsBoard(d)[p] = AsSet(d[p])
<1>1. CASE p = "cells"
  BY <1>1 DEF PartIds, Sound, BoardOf, Ided, AsBoard
<1>2. CASE p = "templates"
  BY <1>2 DEF PartIds, Sound, BoardOf, Ided, AsBoard
<1> QED BY <1>1, <1>2 DEF Parts

With(b, p, x) == [b EXCEPT ![p] = x]

LEMMA PartChanges ==
    ASSUME NEW n \in Nat, NEW m \in Nat, n <= m, NEW d, Sound(d, n), NEW p \in Parts,
           NEW items, Ided(items, PartIds(p, m))
    PROVE  /\ Sound(With(d, p, items), m)
           /\ AsBoard(With(d, p, items)) = With(AsBoard(d), p, AsSet(items))
<1>1. Sound(d, m)
  BY SoundGrows
<1>2. CASE p = "cells"
  BY <1>1, <1>2 DEF PartIds, Sound, BoardOf, Ided, AsBoard, With
<1>3. CASE p = "templates"
  BY <1>1, <1>3 DEF PartIds, Sound, BoardOf, Ided, AsBoard, With
<1> QED BY <1>2, <1>3 DEF Parts

\* A sound dashboard is written as it is.
LEMMA NoneMissing ==
    ASSUME NEW n \in Nat, NEW d, Sound(d, n)
    PROVE  /\ Missing(d.cells) = {} /\ Cardinality(Missing(d.cells)) = 0
           /\ [d EXCEPT !.cells = WithIds(d.cells, Missing(d.cells))] = d
<1>1. d.cells \in Seq(ItemOf(1..n))
  BY DEF Sound, BoardOf
<1>2. \A i \in DOMAIN d.cells : d.cells[i].id \in 1..n
  BY <1>1, ItemsAre
<1>3. Missing(d.cells) = {}
  BY <1>2 DEF Missing
<1>4. WithIds(d.cells, {}) = d.cells
  BY <1>1, WithIdsNone
<1>5. [d EXCEPT !.cells = d.cells] = d
  BY DEF Sound, BoardOf
<1> QED BY <1>3, <1>4, <1>5, FS_EmptySet

\* A list of items and its set have as many members.
LEMMA SetSize ==
    ASSUME NEW S, NEW items \in Seq(ItemOf(S)), DistinctIds(items)
    PROVE  Cardinality(AsSet(items)) = Len(items)
<1> DEFINE n == Len(items)
<1>1. /\ n \in Nat /\ DOMAIN items = 1..n
      /\ items = [i \in 1..n |-> items[i]]
      /\ \A i, j \in 1..n : items[i].id = items[j].id => i = j
  BY ItemsAre, LenProperties DEF DistinctIds
<1>2. items \in Bijection(1..n, AsSet(items))
  BY <1>1 DEF Bijection, Injection, Surjection, IsInjective, AsSet
<1> HIDE DEF n
<1>3. IsFiniteSet(1..n) /\ Cardinality(1..n) = n
  <2>1. n \in Int /\ 1 \in Int /\ n - 1 + 1 = n /\ (1 > n => n = 0)
    BY <1>1
  <2> QED BY <2>1, FS_Interval
<1> USE DEF n
<1> QED BY <1>2, <1>3, FS_Bijection DEF ExistsBijection

LEMMA OthersAre ==
    ASSUME NEW S, NEW items, Ided(items, S), NEW k \in DOMAIN items
    PROVE  /\ Edits!Others(AsSet(items), items[k].id) = AsSet(items) \ {items[k]}
           /\ items[k] \in AsSet(items)
<1>1. \A i \in DOMAIN items : items[i].id = items[k].id => i = k
  BY DEF Ided, DistinctIds
<1>2. \A c \in AsSet(items) : c.id = items[k].id <=> c = items[k]
  BY <1>1 DEF AsSet
<1> QED BY <1>2 DEF Edits!Others, AsSet

\* A client adds, removes or replaces an item of a dashboard.
LEMMA ItemWritten ==
    ASSUME uids \in Nat, NEW r, Asks(r, uids), r.op \in Items,
           NEW d, Sound(d, uids), Accepted(r, d),
           r.op = "addItem" => uids + 1 \notin ClientIds
    PROVE  /\ Sound(Changed(r, d), uids + IF r.op = "addItem" THEN 1 ELSE 0)
           /\ Edits!Edited(r, AsBoard(d), AsBoard(Changed(r, d)))
<1> DEFINE p == r.part
           items == d[p]
           b == AsBoard(d)
<1>1. p \in Parts
  BY DEF Asks
<1>2. Ided(items, PartIds(p, uids)) /\ b[p] = AsSet(items)
  BY <1>1, PartIs
<1>3. DOMAIN b = {"org", "name", "cells", "templates"} /\ p \in DOMAIN b
  BY <1>1 DEF Sound, BoardOf, AsBoard, Parts
<1>4. ASSUME NEW m \in Nat, uids <= m, NEW new, Ided(new, PartIds(p, m)),
             Changed(r, d) = [d EXCEPT ![p] = new]
      PROVE  /\ Sound(Changed(r, d), m)
             /\ AsBoard(Changed(r, d)) = [b EXCEPT ![p] = AsSet(new)]
             /\ [b EXCEPT ![p] = AsSet(new)][p] = AsSet(new)
  <2> HIDE DEF p
  <2>1. Sound(With(d, p, new), m) /\ AsBoard(With(d, p, new)) = With(AsBoard(d), p, AsSet(new))
    BY <1>1, <1>4, PartChanges
  <2>2. \A S : [b EXCEPT ![p] = S][p] = S
    BY <1>3
  <2> QED BY <1>4, <2>1, <2>2 DEF With
<1>9. uids <= uids
  OBVIOUS
<1>5. CASE r.op = "addItem"
  <2> DEFINE x == [id |-> uids + 1, is |-> r.is]
             new == Append(items, x)
  <2>1. /\ PartIds(p, uids) \subseteq PartIds(p, uids + 1)
        /\ uids + 1 \in PartIds(p, uids + 1) /\ uids + 1 \notin PartIds(p, uids)
    BY <1>5 DEF PartIds, TemplateIds
  <2>2. x \in ItemOf(PartIds(p, uids + 1)) /\ x.id = uids + 1 /\ x.is = r.is
    BY <2>1, <1>5 DEF ItemOf, Asks
  <2>3. Ided(new, PartIds(p, uids + 1)) /\ AsSet(new) = AsSet(items) \cup {x}
    BY <1>2, <2>1, <2>2, AppendIs
  <2>4. Changed(r, d) = [d EXCEPT ![p] = new]
    BY <1>5 DEF Changed, NewItem
  <2>5. \A c \in AsSet(items) : c.id # x.id
    BY <1>2, <2>1, <2>2, ItemsAre DEF Ided, AsSet
  <2> HIDE DEF x, new, p, items, b
  <2>6. Edits!AddItem(r, AsSet(items), AsSet(new))
    BY <2>2, <2>3, <2>5 DEF Edits!AddItem, Edits!Others, x
  <2>7. uids <= uids + 1 /\ uids + 1 \in Nat
    OBVIOUS
  <2>8. /\ Sound(Changed(r, d), uids + 1)
        /\ AsBoard(Changed(r, d)) = [b EXCEPT ![p] = AsSet(new)]
        /\ [b EXCEPT ![p] = AsSet(new)][p] = AsSet(new)
    BY <1>4, <2>3, <2>4, <2>7
  <2>9. Edits!Edited(r, b, AsBoard(Changed(r, d)))
    BY <1>2, <1>5, <2>6, <2>8 DEF Edits!Edited, p
  <2> QED BY <1>5, <2>8, <2>9 DEF b
<1>6. ASSUME r.op \in {"removeItem", "replaceItem"}
      PROVE  /\ Position(items, r.item) \in DOMAIN items
             /\ items[Position(items, r.item)].id = r.item
  BY <1>2, <1>6, PositionIs DEF Accepted
<1>7. CASE r.op = "removeItem"
  <2> DEFINE k == Position(items, r.item)
             new == RemoveAt(items, k)
  <2>1. k \in DOMAIN items /\ items[k].id = r.item
    BY <1>6, <1>7
  <2>2. Ided(new, PartIds(p, uids)) /\ AsSet(new) = AsSet(items) \ {items[k]}
    BY <1>2, <2>1, RemoveIs
  <2>3. Changed(r, d) = [d EXCEPT ![p] = new]
    BY <1>7 DEF Changed, RemovedItem
  <2>4. Edits!Others(AsSet(items), items[k].id) = AsSet(items) \ {items[k]}
    BY <1>2, <2>1, OthersAre
  <2> HIDE DEF k, new, p, items, b
  <2>5. Edits!RemoveItem(r, AsSet(items), AsSet(new))
    BY <2>1, <2>2, <2>4 DEF Edits!RemoveItem
  <2>6. /\ Sound(Changed(r, d), uids)
        /\ AsBoard(Changed(r, d)) = [b EXCEPT ![p] = AsSet(new)]
        /\ [b EXCEPT ![p] = AsSet(new)][p] = AsSet(new)
    BY <1>4, <2>2, <2>3, <1>9
  <2>7. Edits!Edited(r, b, AsBoard(Changed(r, d)))
    BY <1>2, <1>7, <2>5, <2>6 DEF Edits!Edited, p
  <2>8. uids + 0 = uids
    OBVIOUS
  <2> QED BY <1>7, <2>6, <2>7, <2>8 DEF b
<1>8. CASE r.op = "replaceItem"
  <2> DEFINE k == Position(items, r.item)
             x == [id |-> r.item, is |-> r.is]
             new == [items EXCEPT ![k] = x]
  <2>1. k \in DOMAIN items /\ items[k].id = r.item
    BY <1>6, <1>8
  <2>2. x \in ItemOf(PartIds(p, uids)) /\ x.id = items[k].id
    BY <1>2, <1>8, <2>1, ItemsAre DEF ItemOf, Asks, Ided
  <2>3. /\ Ided(new, PartIds(p, uids))
        /\ AsSet(new) = (AsSet(items) \ {items[k]}) \cup {x}
    BY <1>2, <2>1, <2>2, ReplaceIs
  <2>4. Changed(r, d) = [d EXCEPT ![p] = new]
    BY <1>8 DEF Changed, ReplacedItem
  <2>5. /\ Edits!Others(AsSet(items), items[k].id) = AsSet(items) \ {items[k]}
        /\ items[k] \in AsSet(items)
    BY <1>2, <2>1, OthersAre
  <2> HIDE DEF k, new, p, items, b
  <2>6. Edits!ReplaceItem(r, AsSet(items), AsSet(new))
    BY <2>1, <2>3, <2>5 DEF Edits!ReplaceItem
  <2>7. /\ Sound(Changed(r, d), uids)
        /\ AsBoard(Changed(r, d)) = [b EXCEPT ![p] = AsSet(new)]
        /\ [b EXCEPT ![p] = AsSet(new)][p] = AsSet(new)
    BY <1>4, <2>3, <2>4, <1>9
  <2>8. Edits!Edited(r, b, AsBoard(Changed(r, d)))
    BY <1>2, <1>8, <2>6, <2>7 DEF Edits!Edited, p
  <2>9. uids + 0 = uids
    OBVIOUS
  <2> QED BY <1>8, <2>7, <2>8, <2>9 DEF b
<1> QED BY <1>5, <1>7, <1>8 DEF Items

\* The cells of a body are written with an id for each that had none.
LEMMA CellsWritten ==
    ASSUME uids \in Nat, NEW cells \in Seq(ItemOf(0..uids)), DistinctIds(cells)
    PROVE  LET missing == Missing(cells)
               new == WithIds(cells, missing) IN
           /\ Cardinality(missing) \in Nat
           /\ Ided(new, 1..(uids + Cardinality(missing)))
           /\ Edits!Given(AsSet(cells), AsSet(new))
<1> DEFINE missing == Missing(cells)
           new == WithIds(cells, missing)
           top == uids + Cardinality(missing)
<1>1. /\ Len(cells) \in Nat /\ DOMAIN cells = 1..Len(cells)
      /\ \A i \in DOMAIN cells : cells[i].id \in 0..uids
      /\ \A i, j \in DOMAIN cells : cells[i].id = cells[j].id => i = j
  BY ItemsAre DEF DistinctIds
<1>2. /\ missing \in SUBSET DOMAIN cells
      /\ \A i \in DOMAIN cells : i \in missing <=> cells[i].id = 0
  BY DEF Missing
<1>3. \A i \in DOMAIN cells \ missing : cells[i].id \in 1..uids
  BY <1>1, <1>2
<1> HIDE DEF missing
<1>4. /\ Cardinality(missing) \in Nat /\ Ided(new, 1..top)
      /\ DOMAIN new = DOMAIN cells
      /\ \A i \in DOMAIN cells : /\ new[i].is = cells[i].is
                                 /\ i \notin missing => new[i] = cells[i]
  BY <1>1, <1>2, <1>3, WithIdsIs
<1> HIDE DEF new, top
<1>5. Cardinality(AsSet(new)) = Cardinality(AsSet(cells))
  <2>1. Len(new) = Len(cells)
    BY <1>1, <1>4, LenProperties, ItemsAre DEF Ided
  <2> QED BY <2>1, <1>4, SetSize DEF Ided
<1>6. {c \in AsSet(cells) : c.id # 0} \subseteq AsSet(new)
  BY <1>2, <1>4 DEF AsSet
<1>7. {c.is : c \in AsSet(new)} = {c.is : c \in AsSet(cells)}
  BY <1>4 DEF AsSet
<1>8. Edits!Given(AsSet(cells), AsSet(new))
  <2>1. Edits!Cardinality(AsSet(new)) = Edits!Cardinality(AsSet(cells))
    BY <1>5 DEF Cardinality, Edits!Cardinality
  <2> QED BY <2>1, <1>6, <1>7 DEF Edits!Given
<1> QED BY <1>4, <1>8 DEF missing, new, top

\* An item that is added takes the next id, which no client has made up.
LEMMA AddMakesOne ==
    ASSUME uids \in Nat, NEW r, Asks(r, uids), r.op = "addItem", NEW d, Sound(d, uids)
    PROVE  Made(r, d) = 1
<1> DEFINE x == [id |-> uids + 1, is |-> r.is]
<1>1. d.cells \in Seq(ItemOf(1..uids)) /\ Ided(d.cells, 1..uids)
  BY DEF Sound, BoardOf, Ided
<1>2. CASE r.part = "templates"
  <2>1. Changed(r, d).cells = d.cells
    BY <1>2 DEF Changed, NewItem, Sound, BoardOf
  <2> QED BY <2>1, NoneMissing DEF Made
<1>3. CASE r.part = "cells"
  <2>1. Changed(r, d).cells = Append(d.cells, x)
    BY <1>3 DEF Changed, NewItem, Sound, BoardOf
  <2>2. /\ x \in ItemOf(1..(uids + 1)) /\ x.id \notin 1..uids
        /\ 1..uids \subseteq 1..(uids + 1)
    BY DEF ItemOf, Asks
  <2> HIDE DEF x
  <2>3. Append(d.cells, x) \in Seq(ItemOf(1..(uids + 1)))
    BY <1>1, <2>2, AppendIs DEF Ided
  <2>4. \A i \in DOMAIN Append(d.cells, x) : Append(d.cells, x)[i].id \in 1..(uids + 1)
    BY <2>3, ItemsAre
  <2>5. Missing(Append(d.cells, x)) = {}
    BY <2>4 DEF Missing
  <2> QED BY <2>1, <2>5, FS_EmptySet DEF Made
<1> QED BY <1>2, <1>3 DEF Asks, Items, Parts

\* What a request writes is sound, and the edit that was asked for.
LEMMA WriteIs ==
    ASSUME uids \in Nat, NEW r, Asks(r, uids), r.op \notin {"create", "remove"},
           NEW d, Sound(d, uids), Accepted(r, d), uids + Made(r, d) <= MaxUid
    PROVE  /\ Made(r, d) \in Nat
           /\ Sound(Written(r, d), uids + Made(r, d))
           /\ Edits!Edited(Asked(r), AsBoard(d), AsBoard(Written(r, d)))
<1> DEFINE b == AsBoard(d)
           new == Changed(r, d)
           cells == WithIds(r.body.cells, Missing(r.body.cells))
           c == Cardinality(Missing(r.body.cells))
<1>1. CASE r.op \in Items
  <2> DEFINE one == IF r.op = "addItem" THEN 1 ELSE 0
  <2>1. one \in Nat /\ uids + one \in Nat
    OBVIOUS
  <2>2. Asked(r) = r
    BY <1>1 DEF Asked, Items
  <2>3. r.op = "addItem" => uids + 1 \notin ClientIds
    <3> HAVE r.op = "addItem"
    <3>1. Made(r, d) = 1
      BY <1>1, AddMakesOne
    <3>2. MaxUid \in Nat
      BY DashboardsAssumption
    <3>3. uids + 1 \in 0..MaxUid
      BY <3>1, <3>2
    <3> QED BY <3>3, DashboardsAssumption
  <2>4. Sound(new, uids + one) /\ Edits!Edited(r, b, AsBoard(new))
    BY <1>1, <2>3, ItemWritten
  <2> HIDE DEF one, new
  <2>5. /\ Cardinality(Missing(new.cells)) = 0
        /\ [new EXCEPT !.cells = WithIds(new.cells, Missing(new.cells))] = new
    BY <2>1, <2>4, NoneMissing
  <2> QED BY <2>1, <2>2, <2>4, <2>5 DEF Made, Written, one, new
<1>2. ASSUME r.op = "replace" \/ r.op = "update"
      PROVE  /\ c \in Nat
             /\ Ided(cells, 1..(uids + c))
             /\ Edits!Given(AsSet(r.body.cells), AsSet(cells))
  <2>1. r.body.cells \in Seq(ItemOf(0..uids)) /\ DistinctIds(r.body.cells)
    BY <1>2 DEF Asks, SoundBody, SoundUpdate, BoardOf
  <2> QED BY <2>1, CellsWritten
<1>3. CASE r.op = "replace"
  <2> DEFINE final == [r.body EXCEPT !.org = OrgOf(r.body), !.cells = cells]
  <2>1. SoundBody(r.body, uids)
    BY <1>3 DEF Asks
  <2>2. /\ Made(r, d) = c + 0 /\ Written(r, d) = final
    BY <1>3, <2>1 DEF Made, Written, Changed, Replaced, SoundBody, BoardOf
  <2>3. OrgOf(r.body) \in Orgs
    BY <2>1, DashboardsAssumption DEF OrgOf, SoundBody, BoardOf
  <2> HIDE DEF cells, c
  <2>4. TemplateIds(uids) \subseteq TemplateIds(uids + c)
    BY <1>2, <1>3 DEF TemplateIds
  <2>5. r.body.templates \in Seq(ItemOf(TemplateIds(uids + c)))
    <3>1. ItemOf(TemplateIds(uids)) \subseteq ItemOf(TemplateIds(uids + c))
      BY <2>4 DEF ItemOf
    <3> QED BY <2>1, <3>1, SeqMonotonic DEF SoundBody, BoardOf
  <2>6. Sound(final, uids + c)
    BY <1>2, <1>3, <2>1, <2>3, <2>5 DEF Sound, SoundBody, BoardOf, Ided
  <2>7. /\ Asked(r).op = "replace" /\ Asked(r).body = AsBoard(r.body)
    BY <1>3 DEF Asked, Asks
  <2>8. Edits!Body(Asked(r), AsBoard(final))
    <3>1. /\ AsBoard(r.body) = [r.body EXCEPT !.cells = AsSet(r.body.cells),
                                              !.templates = AsSet(r.body.templates)]
          /\ AsBoard(final) = [final EXCEPT !.cells = AsSet(cells),
                                            !.templates = AsSet(r.body.templates)]
      BY <2>1 DEF AsBoard, SoundBody, BoardOf
    <3>2. /\ AsBoard(r.body).org = r.body.org /\ AsBoard(r.body).name = r.body.name
          /\ AsBoard(r.body).templates = AsSet(r.body.templates)
          /\ AsBoard(r.body).cells = AsSet(r.body.cells)
      BY <2>1, <3>1 DEF SoundBody, BoardOf
    <3>3. /\ AsBoard(final).org = OrgOf(r.body) /\ AsBoard(final).name = r.body.name
          /\ AsBoard(final).templates = AsSet(r.body.templates)
          /\ AsBoard(final).cells = AsSet(cells)
      BY <2>1, <3>1 DEF SoundBody, BoardOf
    <3> QED BY <1>2, <1>3, <2>7, <3>2, <3>3 DEF Edits!Body, OrgOf
  <2> QED BY <1>2, <1>3, <2>2, <2>6, <2>7, <2>8 DEF Edits!Edited
<1>4. CASE r.op = "update"
  <2> DEFINE final == [d EXCEPT !.cells = cells]
  <2>1. /\ Asked(r).op = "update" /\ DOMAIN r.body = {"name", "cells"}
        /\ Asked(r).body = [r.body EXCEPT !.cells = AsSet(r.body.cells)]
        /\ SoundUpdate(r.body, uids)
    BY <1>4 DEF Asked, Asks, SoundUpdate
  <2>2. Asked(r).body.name = r.body.name /\ Asked(r).body.cells = AsSet(r.body.cells)
    BY <2>1
  <2>3. CASE r.body.name # ""
    <3>1. /\ new = [d EXCEPT !.name = r.body.name] /\ new.cells = d.cells
          /\ Sound(new, uids)
      BY <1>4, <2>1, <2>3 DEF Changed, Updated, Sound, BoardOf, SoundUpdate
    <3>2. AsBoard(new) = [b EXCEPT !.name = r.body.name]
      BY <3>1 DEF AsBoard, Sound, BoardOf
    <3> HIDE DEF new
    <3>3. /\ Cardinality(Missing(new.cells)) = 0
          /\ [new EXCEPT !.cells = WithIds(new.cells, Missing(new.cells))] = new
      BY <3>1, NoneMissing
    <3>4. Edits!Edited(Asked(r), b, AsBoard(new))
      BY <2>1, <2>2, <2>3, <3>2 DEF Edits!Edited
    <3>5. Made(r, d) = 0 + 0 /\ Written(r, d) = new
      BY <1>4, <3>3 DEF Made, Written, new
    <3> QED BY <3>1, <3>4, <3>5
  <2>4. CASE r.body.name = ""
    <3>1. /\ new = [d EXCEPT !.cells = r.body.cells] /\ new.cells = r.body.cells
      BY <1>4, <2>1, <2>4 DEF Changed, Updated, Sound, BoardOf
    <3>2. Made(r, d) = c + 0 /\ Written(r, d) = final
      BY <1>4, <3>1 DEF Made, Written, Sound, BoardOf
    <3> HIDE DEF cells, c, new
    <3>3. Sound(d, uids + c)
      BY <1>2, <1>4, SoundGrows
    <3>4. Sound(final, uids + c)
      BY <1>2, <1>4, <3>3 DEF Sound, BoardOf, Ided
    <3>5. AsBoard(final) = [b EXCEPT !.cells = AsSet(cells)] /\ AsBoard(final).cells = AsSet(cells)
      BY DEF AsBoard, Sound, BoardOf
    <3> HIDE DEF final
    <3>6. Edits!Edited(Asked(r), b, AsBoard(final))
      BY <1>2, <1>4, <2>1, <2>2, <2>4, <3>5 DEF Edits!Edited
    <3> QED BY <1>2, <1>4, <3>2, <3>4, <3>6
  <2> QED BY <2>3, <2>4
<1> QED BY <1>1, <1>3, <1>4 DEF Asks, Ops

-----------------------------------------------------------------------------
(* Every step keeps what is stored and asked for sound.                     *)

\* A dashboard that is created: all its cells get new ids.
Created(r) == [r.body EXCEPT !.org = r.org,
                             !.cells = WithIds(r.body.cells, DOMAIN r.body.cells)]

LEMMA CreateIs ==
    ASSUME uids \in Nat, NEW r, Asks(r, uids), r.op = "create"
    PROVE  LET cells == WithIds(r.body.cells, DOMAIN r.body.cells) IN
           /\ Len(cells) \in Nat
           /\ Sound(Created(r), uids + Len(cells))
           /\ Cardinality(AsSet(cells)) = Cardinality(AsSet(r.body.cells))
           /\ {c.is : c \in AsSet(cells)} = {c.is : c \in AsSet(r.body.cells)}
<1> DEFINE items == r.body.cells
           n == Len(items)
           cells == WithIds(items, DOMAIN items)
<1>1. SoundBody(r.body, uids) /\ r.org \in Orgs
  BY DEF Asks
<1>2. items \in Seq(ItemOf(0..uids)) /\ DistinctIds(items)
  BY <1>1 DEF SoundBody, BoardOf
<1>3. n \in Nat /\ DOMAIN items = 1..n
  BY <1>2, ItemsAre
<1>4. Cardinality(DOMAIN items) = n
  <2> HIDE DEF n, items
  <2>1. n \in Int /\ 1 \in Int /\ n - 1 + 1 = n /\ (1 > n => n = 0)
    BY <1>3
  <2> QED BY <1>3, <2>1, FS_Interval
<1>5. /\ Ided(cells, 1..(uids + Cardinality(DOMAIN items)))
      /\ DOMAIN cells = DOMAIN items
      /\ \A i \in DOMAIN items : cells[i].is = items[i].is
  BY <1>2, WithIdsIs
<1> HIDE DEF cells
<1>6. Ided(cells, 1..(uids + n)) /\ Len(cells) = n
  BY <1>3, <1>4, <1>5, LenProperties, ItemsAre DEF Ided
<1>7. Cardinality(AsSet(cells)) = Cardinality(AsSet(items))
  BY <1>2, <1>6, SetSize DEF Ided
<1>8. {c.is : c \in AsSet(cells)} = {c.is : c \in AsSet(items)}
  BY <1>5 DEF AsSet
<1> HIDE DEF n
<1>9. r.body.templates \in Seq(ItemOf(TemplateIds(uids + n)))
  <2>1. TemplateIds(uids) \subseteq TemplateIds(uids + n)
    BY <1>3 DEF TemplateIds
  <2>2. ItemOf(TemplateIds(uids)) \subseteq ItemOf(TemplateIds(uids + n))
    BY <2>1 DEF ItemOf
  <2> QED BY <1>1, <2>2, SeqMonotonic DEF SoundBody, BoardOf
<1>10. Created(r) = [r.body EXCEPT !.org = r.org, !.cells = cells]
  BY DEF Created, cells
<1>11. Sound(Created(r), uids + n)
  BY <1>1, <1>6, <1>9, <1>10 DEF Sound, SoundBody, BoardOf, Ided
<1> QED BY <1>3, <1>6, <1>7, <1>8, <1>11 DEF cells

LEMMA InitInv == Init => Inv
<1> SUFFICES ASSUME Init PROVE Inv
  OBVIOUS
<1>1. DOMAIN << >> = {}
  BY DEF Init
<1>2. boards = << >> /\ boardSeq = 0 /\ uids = 0 /\ reqs = [s \in Slots |-> Idle]
  BY DEF Init
<1>3. DOMAIN boards = {}
  BY <1>1, <1>2
<1>4. MaxUid \in Nat
  BY DashboardsAssumption
<1> QED BY <1>2, <1>3, <1>4 DEF Inv

\* The request of slot s changes; ids and dashboards may be made.
LEMMA OthersKeep ==
    ASSUME Inv, NEW n \in Nat, uids <= n, n <= MaxUid, NEW k \in Nat, boardSeq <= k,
           NEW s \in Slots, NEW q, q = Idle \/ Works(q, n, k)
    PROVE  /\ DOMAIN [reqs EXCEPT ![s] = q] = Slots
           /\ \A t \in Slots : \/ [reqs EXCEPT ![s] = q][t] = Idle
                               \/ Works([reqs EXCEPT ![s] = q][t], n, k)
           /\ \A b \in DOMAIN boards : Sound(boards[b], n)
           /\ DOMAIN boards \subseteq 1..k
<1>1. uids \in Nat /\ boardSeq \in Nat
  BY DEF Inv
<1>2. \A t \in Slots : reqs[t] = Idle \/ Works(reqs[t], n, k)
  BY <1>1, WorksGrows DEF Inv
<1>3. \A b \in DOMAIN boards : Sound(boards[b], n)
  BY <1>1, SoundGrows DEF Inv
<1> QED BY <1>1, <1>2, <1>3 DEF Inv

LEMMA Keeps ==
    ASSUME Inv, NEW s \in Slots, NEW q, q = Idle \/ Works(q, uids, boardSeq),
           reqs' = [reqs EXCEPT ![s] = q], UNCHANGED <<boards, boardSeq, uids>>
    PROVE  Inv'
<1>0. MaxUid \in Nat
  BY DashboardsAssumption
<1>1. /\ uids \in Nat /\ uids <= uids /\ uids <= MaxUid
      /\ boardSeq \in Nat /\ boardSeq <= boardSeq
  BY <1>0 DEF Inv
<1>2. /\ DOMAIN reqs' = Slots
      /\ \A t \in Slots : reqs'[t] = Idle \/ Works(reqs'[t], uids, boardSeq)
  BY <1>1, OthersKeep
<1> QED BY <1>2 DEF Inv, Works, Asks

LEMMA BoundInv ==
    ASSUME NEW n \in 0..MaxUid, uids' = n, NEW k \in Nat, boardSeq' = k,
           DOMAIN boards' \subseteq 1..k, \A b \in DOMAIN boards' : Sound(boards'[b], n),
           DOMAIN reqs' = Slots,
           \A t \in Slots : reqs'[t] = Idle \/ Works(reqs'[t], n, k)
    PROVE  Inv'
<1>1. \A t \in Slots : reqs'[t] = Idle' \/ Works(reqs'[t], uids', boardSeq')
  BY DEF Idle
<1> QED BY <1>1 DEF Inv

LEMMA NextInv == Inv /\ [Next]_vars => Inv'
<1> SUFFICES ASSUME Inv, [Next]_vars PROVE Inv'
  OBVIOUS
<1>1. CASE UNCHANGED vars
  BY <1>1 DEF vars, Inv
<1>2. CASE Next
  <2> PICK s \in Slots : Send(s) \/ Serve(s)
    BY <1>2 DEF Next
  <2> DEFINE r == reqs[s].r
             d == reqs[s].dash
  <2>0. /\ uids \in Nat /\ uids <= uids /\ boardSeq \in Nat /\ boardSeq <= boardSeq
        /\ MaxUid \in Nat /\ uids <= MaxUid
    <3>1. MaxUid \in Nat
      BY DashboardsAssumption
    <3> QED BY <3>1 DEF Inv
  <2>1. CASE Send(s)
    <3>1. PICK a \in Requests : Arrive(s, a)
      BY <2>1 DEF Send
    <3> DEFINE q == [at |-> IF a.op = "create" THEN "store" ELSE "get", r |-> a]
    <3>2. Asks(a, uids) /\ (a.op # "create" => a.id \in 1..boardSeq)
      BY <2>0, RequestAsks DEF Ids
    <3>3. Works(q, uids, boardSeq)
      BY <3>2 DEF Works
    <3> QED BY <3>1, <3>3, Keeps DEF Arrive
  <2>2. CASE Fail(s)
    BY <2>2, Keeps DEF Fail
  <2>a. ASSUME reqs[s].at \in {"get", "check", "store"} PROVE Works(reqs[s], uids, boardSeq)
    <3>1. Idle.at = "idle"
      BY DEF Idle
    <3> QED BY <2>a, <3>1 DEF Inv
  <2>3. CASE Add(s)
    <3> DEFINE cells == WithIds(r.body.cells, DOMAIN r.body.cells)
               n == uids + Len(cells)
               id == boardSeq + 1
    <3>1. Asks(r, uids) /\ r.op = "create"
      BY <2>3, <2>a DEF Add, Works
    <3>2. Len(cells) \in Nat /\ Sound(Created(r), n)
      BY <2>0, <3>1, CreateIs
    <3>3. /\ n <= MaxUid /\ uids' = n /\ boardSeq' = id
          /\ boards' = [b \in DOMAIN boards \cup {id} |->
                          IF b = id THEN Created(r) ELSE boards[b]]
          /\ reqs' = [reqs EXCEPT ![s] = Idle]
      BY <2>3 DEF Add, Created
    <3> HIDE DEF cells
    <3>4. n \in Nat /\ uids <= n /\ id \in Nat /\ boardSeq <= id
      BY <2>0, <3>2
    <3> HIDE DEF n, id
    <3>5. /\ DOMAIN reqs' = Slots
          /\ \A t \in Slots : reqs'[t] = Idle \/ Works(reqs'[t], n, id)
          /\ \A b \in DOMAIN boards : Sound(boards[b], n)
          /\ DOMAIN boards \subseteq 1..id
      BY <3>3, <3>4, OthersKeep
    <3>6. DOMAIN boards' = DOMAIN boards \cup {id} /\ id \in 1..id
      BY <2>0, <3>3 DEF id
    <3>7. \A b \in DOMAIN boards' : Sound(boards'[b], n)
      BY <3>2, <3>3, <3>5, <3>6
    <3>8. n \in 0..MaxUid
      BY <2>0, <3>3, <3>4
    <3> QED BY <3>3, <3>4, <3>5, <3>6, <3>7, <3>8, BoundInv
  <2>4. CASE Get(s)
    <3>1. Works(reqs[s], uids, boardSeq) /\ reqs[s].at = "get"
      BY <2>4, <2>a DEF Get
    <3>2. r.op # "create" /\ Asks(r, uids) /\ r.id \in 1..boardSeq
      BY <3>1 DEF Works
    <3>3. CASE reqs' = [reqs EXCEPT ![s] = Idle]
      BY <2>4, <3>3, Keeps DEF Get
    <3>4. CASE ~(reqs' = [reqs EXCEPT ![s] = Idle])
      <4> DEFINE q == [at |-> "check", r |-> r, dash |-> boards[r.id]]
      <4>1. /\ reqs' = [reqs EXCEPT ![s] = q]
            /\ r.id \in DOMAIN boards /\ Accepted(r, boards[r.id])
        BY <2>4, <3>4 DEF Get
      <4>2. Sound(boards[r.id], uids)
        BY <4>1 DEF Inv
      <4>3. Works(q, uids, boardSeq)
        BY <3>2, <4>1, <4>2 DEF Works
      <4> QED BY <2>4, <4>1, <4>3, Keeps DEF Get
    <3> QED BY <3>3, <3>4
  <2>5. CASE Check(s)
    <3>1. Works(reqs[s], uids, boardSeq) /\ reqs[s].at = "check"
      BY <2>5, <2>a DEF Check
    <3> DEFINE q == [reqs[s] EXCEPT !.at = "store"]
    <3>2. reqs' = [reqs EXCEPT ![s] = Idle] \/ reqs' = [reqs EXCEPT ![s] = q]
      BY <2>5 DEF Check, Inv
    <3>3. q.r = reqs[s].r /\ q.dash = reqs[s].dash /\ q.at = "store"
      BY <3>1
    <3>4. Works(q, uids, boardSeq)
      BY <3>1, <3>3 DEF Works
    <3> QED BY <2>5, <3>2, <3>4, Keeps DEF Check
  <2>6. CASE Update(s)
    <3>1. /\ Asks(r, uids) /\ r.op \notin {"create", "remove"} /\ Sound(d, uids)
          /\ Accepted(r, d) /\ r.id \in 1..boardSeq
      BY <2>6, <2>a DEF Update, Works
    <3>2. CASE r.id \notin DOMAIN boards
      BY <2>6, <3>2, Keeps DEF Update
    <3>3. CASE r.id \in DOMAIN boards
      <4> DEFINE n == uids + Made(r, d)
      <4>1. /\ n <= MaxUid /\ uids' = n
            /\ boards' = [boards EXCEPT ![r.id] = Written(r, d)]
            /\ reqs' = [reqs EXCEPT ![s] = Idle] /\ boardSeq' = boardSeq
        BY <2>6, <3>3 DEF Update, Made, Written
      <4>2. Made(r, d) \in Nat /\ Sound(Written(r, d), n)
        BY <2>0, <3>1, <4>1, WriteIs
      <4>3. n \in Nat /\ uids <= n
        BY <2>0, <4>2
      <4> HIDE DEF n, r, d
      <4>4. /\ DOMAIN reqs' = Slots
            /\ \A t \in Slots : reqs'[t] = Idle \/ Works(reqs'[t], n, boardSeq)
            /\ \A b \in DOMAIN boards : Sound(boards[b], n)
            /\ DOMAIN boards \subseteq 1..boardSeq
        BY <2>0, <4>1, <4>3, OthersKeep
      <4>5. DOMAIN boards' = DOMAIN boards /\ \A b \in DOMAIN boards' : Sound(boards'[b], n)
        BY <4>1, <4>2, <4>4
      <4>6. n \in 0..MaxUid
        BY <2>0, <4>1, <4>3
      <4> QED BY <2>0, <4>1, <4>4, <4>5, <4>6, BoundInv
    <3> QED BY <3>2, <3>3
  <2>7. CASE Delete(s)
    <3>1. /\ reqs' = [reqs EXCEPT ![s] = Idle] /\ uids' = uids /\ boardSeq' = boardSeq
          /\ boards' = [b \in DOMAIN boards \ {reqs[s].r.id} |-> boards[b]]
      BY <2>7 DEF Delete
    <3>2. DOMAIN boards' \subseteq DOMAIN boards /\ \A b \in DOMAIN boards' : boards'[b] = boards[b]
      BY <3>1
    <3>3. /\ DOMAIN reqs' = Slots
          /\ \A t \in Slots : reqs'[t] = Idle \/ Works(reqs'[t], uids, boardSeq)
          /\ \A b \in DOMAIN boards : Sound(boards[b], uids)
          /\ DOMAIN boards \subseteq 1..boardSeq
      BY <2>0, <3>1, OthersKeep
    <3>4. uids \in 0..MaxUid
      BY <2>0
    <3> QED BY <2>0, <3>1, <3>2, <3>3, <3>4, BoundInv
  <2> QED BY <2>1, <2>2, <2>3, <2>4, <2>5, <2>6, <2>7 DEF Serve
<1> QED BY <1>1, <1>2

LEMMA InvDistinct == Inv => CellIdsDistinct
<1> SUFFICES ASSUME Inv, NEW b \in DOMAIN boards
             PROVE  LET cells == boards[b].cells IN
                    DistinctIds(cells) /\ \A i \in DOMAIN cells : cells[i].id # 0
  BY DEF CellIdsDistinct
<1>1. Sound(boards[b], uids)
  BY DEF Inv
<1>2. DistinctIds(boards[b].cells) /\ boards[b].cells \in Seq(ItemOf(1..uids))
  BY <1>1 DEF Sound, BoardOf
<1>3. \A i \in DOMAIN boards[b].cells : boards[b].cells[i].id \in 1..uids
  BY <1>2, ItemsAre
<1>4. uids \in Nat
  BY DEF Inv
<1> QED BY <1>2, <1>3, <1>4

LEMMA SpecInv == Spec => []Inv
<1> QED BY InitInv, NextInv, PTL DEF Spec

\* Whichever requests write over each other, with however many in flight, a
\* cell that is stored has an id that no other cell of its dashboard has: the
\* handlers of one cell (cells.go:303, :340) never find two, and never none.
THEOREM CellsHaveTheirIds == Spec => []CellIdsDistinct
<1> QED BY SpecInv, InvDistinct, PTL

\* The bounds of the model.
Bounds == boardSeq \in 0..MaxBoards /\ sent \in 0..MaxRequests

LEMMA InvTypeOK == Inv /\ Bounds => TypeOK
<1> SUFFICES ASSUME Inv, Bounds PROVE TypeOK
  OBVIOUS
<1>1. MaxUid \in Nat /\ uids \in 0..MaxUid
  BY DashboardsAssumption DEF Inv
<1>2. 1..uids \subseteq 0..MaxUid \cup ClientIds /\ TemplateIds(uids) \subseteq 0..MaxUid \cup ClientIds
  BY <1>1 DEF TemplateIds
<1>3. ItemOf(0..MaxUid \cup ClientIds) = Item
  BY DEF ItemOf, Item
<1>4. \A b : Sound(b, uids) => b \in Board
  <2> TAKE b
  <2> HAVE Sound(b, uids)
  <2>1. b \in BoardOf(Orgs, 0..MaxUid \cup ClientIds, 0..MaxUid \cup ClientIds)
    BY <1>2, BoardGrows DEF Sound
  <2> QED BY <2>1, <1>3 DEF BoardOf, Board
<1>5. \A b \in DOMAIN boards : boards[b] \in Board
  BY <1>4 DEF Inv
<1>6. ASSUME NEW s \in Slots, reqs[s] # Idle
      PROVE  /\ reqs[s].at \in {"get", "check", "store"}
             /\ reqs[s].r.op # "create" => reqs[s].r.id \in 1..boardSeq
             /\ reqs[s].at = "check" => reqs[s].dash \in Board
  <2>1. Works(reqs[s], uids, boardSeq)
    BY <1>6 DEF Inv
  <2> QED BY <2>1, <1>4 DEF Works
<1> QED BY <1>1, <1>5, <1>6 DEF TypeOK, Bounds, Inv

LEMMA NextBounds == Inv /\ Bounds /\ [Next]_vars => Bounds'
<1> SUFFICES ASSUME Inv, Bounds, [Next]_vars PROVE Bounds'
  OBVIOUS
<1>1. MaxBoards \in Nat
  BY DashboardsAssumption
<1>2. MaxRequests \in Nat
  BY DashboardsAssumption
<1>3. CASE UNCHANGED vars
  BY <1>3 DEF vars, Bounds
<1>4. ASSUME NEW s \in Slots, Send(s) \/ Serve(s) PROVE Bounds'
  <2>1. CASE Send(s)
    BY <2>1, <1>2 DEF Send, Arrive, Bounds
  <2>2. CASE Add(s)
    BY <2>2, <1>1 DEF Add, Bounds
  <2>3. CASE Fail(s) \/ Get(s) \/ Check(s) \/ Update(s) \/ Delete(s)
    BY <2>3 DEF Fail, Get, Check, Update, Delete, Bounds
  <2> QED BY <1>4, <2>1, <2>2, <2>3 DEF Serve
<1> QED BY <1>3, <1>4 DEF Next

\* Every state is of its types, and the bounds that stop the model are kept.
THEOREM TypeCorrect == Spec => []TypeOK
<1>1. Init => Bounds
  <2>1. MaxBoards \in Nat /\ MaxRequests \in Nat
    BY DashboardsAssumption
  <2> QED BY <2>1 DEF Init, Bounds
<1>2. Spec => []Bounds
  BY <1>1, SpecInv, NextBounds, PTL DEF Spec
<1> QED BY <1>2, SpecInv, InvTypeOK, PTL

-----------------------------------------------------------------------------
(* Each step is a step of DashboardEdits, or none.                          *)

LEMMA AskedIs ==
    ASSUME NEW n, NEW r, Asks(r, n)
    PROVE  /\ Asked(r).op = r.op /\ r.op # "none"
           /\ r.op # "create" => Asked(r).id = r.id
           /\ r.op = "create" => Asked(r).org = r.org /\ Asked(r).body = AsBoard(r.body)
<1>1. CASE r.op \in {"create", "replace"}
  BY <1>1 DEF Asked, Asks
<1>2. CASE r.op = "update"
  BY <1>2 DEF Asked, Asks
<1>3. CASE r.op \notin {"create", "replace", "update"}
  BY <1>3 DEF Asked, Asks, Ops, Items
<1> QED BY <1>1, <1>2, <1>3

\* A request at work is asked for as it is.
LEMMA RequestedIs ==
    ASSUME Inv, NEW s \in Slots, reqs[s].at \in {"get", "check", "store"}
    PROVE  /\ Works(reqs[s], uids, boardSeq) /\ reqs[s] # Idle
           /\ Requested[s] = Asked(reqs[s].r)
           /\ Requested[s].op = reqs[s].r.op /\ reqs[s].r.op # "none"
           /\ reqs[s].r.op # "create" => Requested[s].id = reqs[s].r.id
<1>1. reqs[s] # Idle
  BY DEF Idle
<1>2. Works(reqs[s], uids, boardSeq)
  BY <1>1 DEF Inv
<1> QED BY <1>1, <1>2, AskedIs DEF Requested, Works

LEMMA EditedAre ==
    /\ DOMAIN EditedBoards = DOMAIN boards
    /\ \A b \in DOMAIN boards : EditedBoards[b] = AsBoard(boards[b])
<1> QED BY DEF EditedBoards

\* Slot s is done.
LEMMA Answered ==
    ASSUME Inv, NEW s \in Slots, reqs' = [reqs EXCEPT ![s] = Idle]
    PROVE  /\ Edits!Done(s)
           /\ \A t \in Slots : reqs'[t] = IF t = s THEN Idle ELSE reqs[t]
           /\ s \notin Overtaken'
<1>1. \A t \in Slots : reqs'[t] = IF t = s THEN Idle ELSE reqs[t]
  BY DEF Inv
<1>2. Edits!Done(s)
  <2>1. Requested' = [t \in Slots |-> IF reqs'[t] = Idle THEN [op |-> "none"]
                                                       ELSE Asked(reqs'[t].r)]
    BY DEF Requested, Idle
  <2>2. Requested = [t \in Slots |-> IF reqs[t] = Idle THEN [op |-> "none"]
                                                     ELSE Asked(reqs[t].r)]
    BY DEF Requested
  <2>3. Requested' = [Requested EXCEPT ![s] = [op |-> "none"]]
    BY <1>1, <2>1, <2>2
  <2> QED BY <2>3 DEF Edits!Done, Edits!NoRequest
<1>3. s \notin Overtaken'
  BY <1>1 DEF Overtaken, Idle
<1> QED BY <1>1, <1>2, <1>3

LEMMA Refused ==
    ASSUME Inv, NEW s \in Slots, reqs' = [reqs EXCEPT ![s] = Idle],
           UNCHANGED <<boards, boardSeq>>
    PROVE  Edits!Refuse(s)
<1>1. /\ Edits!Done(s)
      /\ \A t \in Slots : reqs'[t] = IF t = s THEN Idle ELSE reqs[t]
  BY Answered
<1>2. Overtaken' = Overtaken \ {s}
  BY <1>1 DEF Overtaken, Idle
<1>3. UNCHANGED <<EditedBoards, 1..boardSeq>>
  BY DEF EditedBoards
<1> QED BY <1>1, <1>2, <1>3 DEF Edits!Refuse

\* Slot s goes on with its request.
LEMMA GoesOn ==
    ASSUME Inv, NEW s \in Slots, reqs[s].at \in {"get", "check", "store"},
           NEW q, reqs' = [reqs EXCEPT ![s] = q], q.r = reqs[s].r, q # Idle,
           s \in Overtaken' <=> s \in Overtaken,
           UNCHANGED <<boards, boardSeq>>
    PROVE  UNCHANGED Edits!vars
<1>1. \A t \in Slots : reqs'[t] = IF t = s THEN q ELSE reqs[t]
  BY DEF Inv
<1>2. reqs[s] # Idle
  BY RequestedIs
<1>3. Requested' = Requested
  <2>1. Requested' = [t \in Slots |-> IF reqs'[t] = Idle THEN [op |-> "none"]
                                                       ELSE Asked(reqs'[t].r)]
    BY DEF Requested, Idle
  <2>2. Requested = [t \in Slots |-> IF reqs[t] = Idle THEN [op |-> "none"]
                                                     ELSE Asked(reqs[t].r)]
    BY DEF Requested
  <2> QED BY <1>1, <1>2, <2>1, <2>2
<1>4. Overtaken' = Overtaken
  BY <1>1 DEF Overtaken, Idle
<1> QED BY <1>3, <1>4 DEF Edits!vars, EditedBoards

LEMMA InitEdits == Init => Edits!Init
<1> SUFFICES ASSUME Init PROVE Edits!Init
  OBVIOUS
<1>1. boards = << >> /\ boardSeq = 0 /\ \A s \in Slots : reqs[s] = Idle
  BY DEF Init
<1>2. EditedBoards = << >>
  BY <1>1 DEF EditedBoards
<1>3. Requested = [s \in Slots |-> Edits!NoRequest] /\ Overtaken = {}
  BY <1>1 DEF Requested, Overtaken, Edits!NoRequest
<1>4. 1..boardSeq = {}
  BY <1>1
<1> QED BY <1>2, <1>3, <1>4 DEF Edits!Init

LEMMA SendAsks ==
    ASSUME Inv, NEW s \in Slots, Send(s)
    PROVE  Edits!Ask(s)
<1>1. PICK r \in Requests : Arrive(s, r)
  BY DEF Send
<1> DEFINE q == [at |-> IF r.op = "create" THEN "store" ELSE "get", r |-> r]
<1>2. /\ \A t \in Slots : reqs'[t] = IF t = s THEN q ELSE reqs[t]
      /\ reqs[s] = Idle
  BY <1>1 DEF Arrive, Inv
<1>3. q # Idle /\ q.r = r /\ (q.at = "get" \/ q.r.op = "create")
  BY DEF Idle
<1> HIDE DEF q
<1>4. Requested' = [Requested EXCEPT ![s] = Asked(r)] /\ Requested[s] = [op |-> "none"]
  <2>1. Requested' = [t \in Slots |-> IF reqs'[t] = Idle THEN [op |-> "none"]
                                                       ELSE Asked(reqs'[t].r)]
    BY DEF Requested, Idle
  <2>2. Requested = [t \in Slots |-> IF reqs[t] = Idle THEN [op |-> "none"]
                                                     ELSE Asked(reqs[t].r)]
    BY DEF Requested
  <2> QED BY <1>2, <1>3, <2>1, <2>2
<1>5. Overtaken' = Overtaken
  <2>1. s \notin Overtaken /\ s \notin Overtaken'
    BY <1>1, <1>2, <1>3 DEF Overtaken, Arrive, Idle
  <2>2. \A t \in Slots \ {s} : t \in Overtaken' <=> t \in Overtaken
    BY <1>1, <1>2 DEF Overtaken, Arrive, Idle
  <2> QED BY <2>1, <2>2 DEF Overtaken
<1>6. UNCHANGED <<EditedBoards, 1..boardSeq>>
  BY <1>1 DEF Arrive, EditedBoards
<1>7. Requested'[s] = Asked(r)
  BY <1>4 DEF Requested
<1> QED BY <1>4, <1>5, <1>6, <1>7 DEF Edits!Ask, Edits!NoRequest

LEMMA AddCreates ==
    ASSUME Inv, NEW s \in Slots, Add(s)
    PROVE  Edits!Create(s)
<1> DEFINE r == reqs[s].r
           id == boardSeq + 1
           cells == WithIds(r.body.cells, DOMAIN r.body.cells)
<1>1. /\ Works(reqs[s], uids, boardSeq) /\ r.op = "create"
      /\ Requested[s] = Asked(r) /\ Requested[s].op = "create"
  BY RequestedIs DEF Add
<1>2. uids \in Nat /\ boardSeq \in Nat /\ DOMAIN boards \subseteq 1..boardSeq
  BY DEF Inv
<1>3. Asks(r, uids) /\ SoundBody(r.body, uids)
  BY <1>1 DEF Works, Asks
<1>4. Requested[s].org = r.org /\ Requested[s].body = AsBoard(r.body)
  BY <1>1, <1>3, AskedIs
<1>5. /\ boardSeq' = id /\ reqs' = [reqs EXCEPT ![s] = Idle]
      /\ boards' = [b \in DOMAIN boards \cup {id} |->
                      IF b = id THEN Created(r) ELSE boards[b]]
  BY DEF Add, Created
<1>6. id \notin DOMAIN boards /\ id \notin 1..boardSeq /\ 1..id = 1..boardSeq \cup {id}
  BY <1>2
<1>7. /\ Cardinality(AsSet(cells)) = Cardinality(AsSet(r.body.cells))
      /\ {c.is : c \in AsSet(cells)} = {c.is : c \in AsSet(r.body.cells)}
  BY <1>1, <1>2, <1>3, CreateIs
<1>8. /\ DOMAIN EditedBoards' = DOMAIN EditedBoards \cup {id}
      /\ \A i \in DOMAIN EditedBoards : EditedBoards'[i] = EditedBoards[i]
      /\ EditedBoards'[id] = AsBoard(Created(r))
  <2> HIDE DEF r, id
  <2>1. /\ DOMAIN boards' = DOMAIN boards \cup {id}
        /\ \A i \in DOMAIN boards : boards'[i] = boards[i]
        /\ boards'[id] = Created(r)
    BY <1>5, <1>6
  <2> QED BY <2>1 DEF EditedBoards
<1>9. /\ AsBoard(Created(r)).org = r.org
      /\ AsBoard(Created(r)).name = AsBoard(r.body).name
      /\ AsBoard(Created(r)).templates = AsBoard(r.body).templates
      /\ AsBoard(Created(r)).cells = AsSet(cells)
      /\ AsBoard(r.body).cells = AsSet(r.body.cells)
  BY <1>3 DEF AsBoard, Created, SoundBody, BoardOf
<1>10. /\ Edits!Done(s) /\ s \notin Overtaken'
       /\ \A t \in Slots : reqs'[t] = IF t = s THEN Idle ELSE reqs[t]
  BY <1>5, Answered
<1>11. Overtaken' = Overtaken
  <2>1. s \notin Overtaken
    BY <1>1 DEF Overtaken
  <2>2. ASSUME NEW t \in Slots, t # s PROVE t \in Overtaken' <=> t \in Overtaken
    <3>1. reqs'[t] = reqs[t] /\ Idle' = Idle
      BY <1>10, <2>2 DEF Idle
    <3>2. reqs[t] # Idle /\ reqs[t].r.op # "create" => reqs[t].r.id \in 1..boardSeq
      BY DEF Inv, Works
    <3> HIDE DEF id
    <3>3. reqs[t] # Idle /\ reqs[t].r.op # "create" =>
            /\ reqs[t].r.id \in DOMAIN boards' <=> reqs[t].r.id \in DOMAIN boards
            /\ reqs[t].r.id \in DOMAIN boards => boards'[reqs[t].r.id] = boards[reqs[t].r.id]
      BY <1>5, <1>6, <3>2
    <3> QED BY <3>1, <3>3 DEF Overtaken
  <2> QED BY <1>10, <2>1, <2>2 DEF Overtaken
<1>12. Edits!Cardinality(AsSet(cells)) = Edits!Cardinality(AsSet(r.body.cells))
  BY <1>7 DEF Cardinality, Edits!Cardinality
<1>13. (1..boardSeq)' = 1..boardSeq \cup {id} /\ id \in (1..boardSeq)' \ (1..boardSeq)
  BY <1>5, <1>6
<1> HIDE DEF r, id, cells
<1> QED BY <1>1, <1>4, <1>7, <1>8, <1>9, <1>10, <1>11, <1>12, <1>13 DEF Edits!Create

LEMMA GetGoesOn ==
    ASSUME Inv, NEW s \in Slots, Get(s)
    PROVE  Edits!Refuse(s) \/ UNCHANGED Edits!vars
<1> DEFINE r == reqs[s].r
           q == [at |-> "check", r |-> r, dash |-> boards[r.id]]
<1>1. reqs[s].at = "get" /\ UNCHANGED <<boards, boardSeq>>
  BY DEF Get
<1>2. CASE reqs' = [reqs EXCEPT ![s] = Idle]
  BY <1>1, <1>2, Refused
<1>3. CASE reqs' = [reqs EXCEPT ![s] = q]
  <2>1. q.r = r /\ q.dash = boards[r.id] /\ q # Idle
    BY DEF Idle
  <2> HIDE DEF q
  <2>2. reqs'[s] = q
    BY <1>3 DEF Inv
  <2>3. s \notin Overtaken
    BY <1>1 DEF Overtaken
  <2>4. s \notin Overtaken'
    BY <1>1, <2>1, <2>2 DEF Overtaken
  <2> QED BY <1>1, <1>3, <2>1, <2>3, <2>4, GoesOn
<1> QED BY <1>2, <1>3 DEF Get

LEMMA CheckGoesOn ==
    ASSUME Inv, NEW s \in Slots, Check(s)
    PROVE  Edits!Refuse(s) \/ UNCHANGED Edits!vars
<1> DEFINE q == [reqs[s] EXCEPT !.at = "store"]
<1>1. reqs[s].at = "check" /\ UNCHANGED <<boards, boardSeq>>
  BY DEF Check
<1>2. CASE reqs' = [reqs EXCEPT ![s] = Idle]
  BY <1>1, <1>2, Refused
<1>3. CASE reqs' = [reqs EXCEPT ![s] = q]
  <2>1. q.r = reqs[s].r /\ q.dash = reqs[s].dash /\ q.at = "store"
    BY <1>1
  <2>2. q # Idle /\ reqs[s] # Idle
    BY <1>1, <2>1 DEF Idle
  <2> HIDE DEF q
  <2>3. reqs'[s] = q
    BY <1>3 DEF Inv
  <2>4. s \in Overtaken' <=> s \in Overtaken
    BY <1>1, <2>1, <2>2, <2>3 DEF Overtaken, Idle
  <2> QED BY <1>1, <1>3, <2>1, <2>2, <2>4, GoesOn
<1>4. reqs' = [reqs EXCEPT ![s] = Idle] \/ reqs' = [reqs EXCEPT ![s] = q]
  BY DEF Check, Inv
<1> QED BY <1>2, <1>3, <1>4

LEMMA DeleteDeletes ==
    ASSUME Inv, NEW s \in Slots, Delete(s)
    PROVE  Edits!Delete(s)
<1> DEFINE id == reqs[s].r.id
<1>1. /\ reqs[s].r.op = "remove" /\ Requested[s].op = "remove" /\ Requested[s].id = id
  BY RequestedIs DEF Delete
<1>2. /\ reqs' = [reqs EXCEPT ![s] = Idle] /\ boardSeq' = boardSeq
      /\ boards' = [b \in DOMAIN boards \ {id} |-> boards[b]]
  BY DEF Delete
<1>3. /\ Edits!Done(s) /\ s \notin Overtaken'
      /\ \A t \in Slots : reqs'[t] = IF t = s THEN Idle ELSE reqs[t]
  BY <1>2, Answered
<1> HIDE DEF id
<1>4. EditedBoards' = [i \in DOMAIN EditedBoards \ {id} |-> EditedBoards[i]]
  BY <1>2 DEF EditedBoards
<1>5. Overtaken' \subseteq Overtaken \ {s}
  <2>1. ASSUME NEW t \in Slots, t # s, t \in Overtaken' PROVE t \in Overtaken
    <3>1. reqs'[t] = reqs[t] /\ Idle' = Idle
      BY <1>3, <2>1 DEF Idle
    <3> QED BY <1>2, <2>1, <3>1 DEF Overtaken
  <2> QED BY <1>3, <2>1 DEF Overtaken
<1>6. UNCHANGED (1..boardSeq)
  BY <1>2
<1> QED BY <1>1, <1>3, <1>4, <1>5, <1>6 DEF Edits!Delete

LEMMA UpdateWrites ==
    ASSUME Inv, NEW s \in Slots, Update(s)
    PROVE  Edits!Refuse(s) \/ Edits!Edit(s) \/ Edits!Clobber(s)
<1> DEFINE r == reqs[s].r
           d == reqs[s].dash
           id == r.id
<1>1. /\ Works(reqs[s], uids, boardSeq) /\ reqs[s] # Idle /\ reqs[s].at = "store"
      /\ r.op \notin {"create", "remove"} /\ r.op # "none"
      /\ Requested[s] = Asked(r) /\ Requested[s].op = r.op /\ Requested[s].id = id
  BY RequestedIs DEF Update
<1>2. Asks(r, uids) /\ Sound(d, uids) /\ Accepted(r, d)
  BY <1>1 DEF Works
<1>3. /\ reqs' = [reqs EXCEPT ![s] = Idle] /\ boardSeq' = boardSeq
  BY DEF Update
<1>4. CASE id \notin DOMAIN boards
  BY <1>3, <1>4, Refused DEF Update
<1>5. CASE id \in DOMAIN boards
  <2>1. /\ uids + Made(r, d) <= MaxUid
        /\ boards' = [boards EXCEPT ![id] = Written(r, d)]
    BY <1>5 DEF Update, Made, Written
  <2>2. Edits!Edited(Asked(r), AsBoard(d), AsBoard(Written(r, d)))
    <3>1. uids \in Nat
      BY DEF Inv
    <3> QED BY <1>1, <1>2, <2>1, <3>1, WriteIs
  <2>3. /\ Edits!Done(s) /\ s \notin Overtaken'
        /\ \A t \in Slots : reqs'[t] = IF t = s THEN Idle ELSE reqs[t]
    BY <1>3, Answered
  <2>4. s \in Overtaken <=> boards[id] # d
    BY <1>1, <1>5 DEF Overtaken
  <2> HIDE DEF r, d, id
  <2>5. /\ DOMAIN boards' = DOMAIN boards /\ boards'[id] = Written(r, d)
        /\ \A b \in DOMAIN boards : b # id => boards'[b] = boards[b]
    BY <1>5, <2>1
  <2>6. /\ DOMAIN EditedBoards' = DOMAIN EditedBoards
        /\ EditedBoards' = [EditedBoards EXCEPT ![id] = EditedBoards'[id]]
        /\ EditedBoards[id] = AsBoard(boards[id])
        /\ EditedBoards'[id] = AsBoard(Written(r, d))
    BY <1>5, <2>5 DEF EditedBoards
  <2>7. Edits!Overtake(s, id)
    <3>1. ASSUME NEW t \in Overtaken' \ Overtaken
          PROVE  t # s /\ Requested[t] # Edits!NoRequest /\ Requested[t].id = id
      <4>1. t \in Slots /\ t # s /\ reqs'[t] = reqs[t] /\ Idle' = Idle
        BY <2>3, <3>1 DEF Overtaken, Idle
      <4>2. /\ reqs[t] # Idle /\ reqs[t].at \in {"check", "store"} /\ reqs[t].r.op # "create"
            /\ reqs[t].r.id \in DOMAIN boards /\ reqs[t].r.id = id
        BY <2>5, <3>1, <4>1 DEF Overtaken
      <4>3. Requested[t].op # "none" /\ Requested[t].id = id
        BY <4>1, <4>2, RequestedIs
      <4> QED BY <4>1, <4>3 DEF Edits!NoRequest
    <3> QED BY <3>1 DEF Edits!Overtake
  <2>8. UNCHANGED (1..boardSeq)
    BY <1>3
  <2>9. Edits!Write(s)
    BY <1>1, <1>5, <2>3, <2>6, <2>7, <2>8, EditedAre DEF Edits!Write
  <2>10. CASE boards[id] = d
    BY <1>1, <2>2, <2>6, <2>9, <2>10 DEF Edits!Edit
  <2>11. CASE boards[id] # d
    BY <2>4, <2>9, <2>11 DEF Edits!Clobber
  <2> QED BY <2>10, <2>11
<1> QED BY <1>4, <1>5

LEMMA NextEdits == Inv /\ [Next]_vars => [Edits!Next]_Edits!vars
<1> SUFFICES ASSUME Inv, [Next]_vars PROVE [Edits!Next]_Edits!vars
  OBVIOUS
<1>1. CASE UNCHANGED vars
  <2>1. Idle' = Idle
    BY DEF Idle
  <2> QED BY <1>1, <2>1
          DEF vars, Edits!vars, EditedBoards, Requested, Overtaken
<1>2. ASSUME NEW s \in Slots, Send(s) \/ Serve(s)
      PROVE  [Edits!Next]_Edits!vars
  <2>1. CASE Send(s)
    BY <2>1, SendAsks DEF Edits!Next
  <2>2. CASE Fail(s)
    BY <2>2, Refused DEF Fail, Edits!Next
  <2>3. CASE Add(s)
    BY <2>3, AddCreates DEF Edits!Next
  <2>4. CASE Get(s)
    BY <2>4, GetGoesOn DEF Edits!Next
  <2>5. CASE Check(s)
    BY <2>5, CheckGoesOn DEF Edits!Next
  <2>6. CASE Update(s)
    BY <2>6, UpdateWrites DEF Edits!Next
  <2>7. CASE Delete(s)
    BY <2>7, DeleteDeletes DEF Edits!Next
  <2> QED BY <1>2, <2>1, <2>2, <2>3, <2>4, <2>5, <2>6, <2>7 DEF Serve
<1> QED BY <1>1, <1>2 DEF Next

\* The handlers implement DashboardEdits: of any number of requests that
\* interleave, each is refused, or is the one edit it asks for, or overwrites
\* only the dashboard it names, and that only when another request wrote to
\* it between its read and its write.
THEOREM DashboardsAreEdited == Spec => MakesEdits
<1>1. Spec => Edits!Init /\ [][Edits!Next]_Edits!vars
  BY SpecInv, InitEdits, NextEdits, PTL DEF Spec
<1> QED BY <1>1 DEF MakesEdits, Edits!Spec

=============================================================================
