------------------------- MODULE AnnotationsProofs -------------------------
(***************************************************************************)
(* Proofs about Annotations, for any number of requests, annotations,      *)
(* times, tags and texts, with or without failures of the database.        *)
(***************************************************************************)
EXTENDS Annotations, WellFoundedInduction, TLAPS

-----------------------------------------------------------------------------
(* The points of one annotation and what they say. *)

Alive(p, id) == {k \in DOMAIN p : k.id = id /\ ~p[k].deleted}
Named(p, k) == [end |-> k.end, tags |-> k.tags, text |-> p[k].text]
Top(p, S) == CHOOSE k \in S : \A j \in S : p[j].mod <= p[k].mod
AnnosOf(p, g) ==
    [id \in {i \in g : Alive(p, i) # {}} |-> Named(p, Top(p, Alive(p, id)))]

\* What a slot works on.
Adds == [op : {"add"}, anno : Annotation]
Updates == [op : {"update"}, id : Ids, change : Change]
Deletes == [op : {"delete"}, id : Ids]
Jobs ==
    {Idle}
    \cup [at : {"add"}, r : Adds]
    \cup [at : {"get"}, r : Updates \cup Deletes]
    \cup [at : {"getOld"}, r : Updates, new : Annotation]
    \cup [at : {"write"}, r : Updates, new : Annotation, old : Annotation]
    \cup [at : {"tombstone"}, r : Updates \cup Deletes, old : Annotation]

Dead(x) == x.deleted

\* Points of the database: those that are live can be read.
GoodPoint(x) ==
    x.deleted \in BOOLEAN /\ x.mod \in Nat /\ (~x.deleted => x.text \in Texts)
GoodPoints(p) == DOMAIN p \subseteq Key /\ \A k \in DOMAIN p : GoodPoint(p[k])

BaseInv ==
    /\ GoodPoints(points) /\ clock \in Nat /\ given \subseteq Ids
    /\ spoiled \subseteq given
    /\ \A k \in DOMAIN points : k.id \in given /\ points[k].mod <= clock
    /\ reqs \in [Slots -> Jobs]
    /\ \A s \in Slots : reqs[s] # Idle /\ reqs[s].r.op # "add" =>
                            reqs[s].r.id \in given

\* What a slot holds is determined by where it is.
LEMMA JobShape ==
    ASSUME NEW q \in Jobs
    PROVE  /\ q.at \in {"idle", "add", "get", "getOld", "write", "tombstone"}
           /\ q.at = "idle" <=> q = Idle
           /\ q.at = "add" => q.r.op = "add" /\ q.r.anno \in Annotation
           /\ q.at \in {"getOld", "write"} =>
                 q.r \in Updates /\ q.new \in Annotation
           /\ q.at \in {"write", "tombstone"} => q.old \in Annotation
           /\ q.at \in {"get", "tombstone"} => q.r \in Updates \cup Deletes
<1>1. CASE q = Idle
  BY <1>1 DEF Idle
<1>2. CASE q \in [at : {"add"}, r : Adds]
  BY <1>2 DEF Adds, Idle
<1>3. CASE q \in [at : {"get"}, r : Updates \cup Deletes]
  BY <1>3 DEF Idle
<1>4. CASE q \in [at : {"getOld"}, r : Updates, new : Annotation]
  BY <1>4 DEF Idle
<1>5. CASE q \in [at : {"write"}, r : Updates, new : Annotation, old : Annotation]
  BY <1>5 DEF Idle
<1>6. CASE q \in [at : {"tombstone"}, r : Updates \cup Deletes, old : Annotation]
  BY <1>6 DEF Idle
<1>7. QED
  BY <1>1, <1>2, <1>3, <1>4, <1>5, <1>6 DEF Jobs

\* The definitions of Annotations in terms of those above.
LEMMA Read ==
    ASSUME GoodPoints(points)
    PROVE  /\ \A id : Live(id) = Alive(points, id)
           /\ \A id : Found(id) = IF Alive(points, id) = {} THEN {}
                        ELSE {Named(points, Top(points, Alive(points, id)))}
           /\ Annos = AnnosOf(points, given)
<1>1. \A id : Live(id) = Alive(points, id)
  BY DEF Live, Alive
<1>2. \A k : AnnoOf(k) = Named(points, k)
  BY DEF AnnoOf, Named
<1>3. \A S : Latest(S) = Top(points, S)
  BY DEF Latest, Top
<1>4. \A id : {k \in Live(id) : k.end \in Times /\ k.tags \in Tags} = Live(id)
  BY DEF Live, GoodPoints, Key
<1>5. \A id : Found(id) = IF Live(id) = {} THEN {} ELSE {AnnoOf(Latest(Live(id)))}
  BY <1>4 DEF Found, Listed
<1>6. \A id : Found(id) # {} <=> Alive(points, id) # {}
  BY <1>1, <1>5
<1>7. Annos = AnnosOf(points, given)
  <2>1. {i \in given : Found(i) # {}} = {i \in given : Alive(points, i) # {}}
    BY <1>6
  <2>2. QED
    BY <1>1, <1>2, <1>3, <2>1, Zenon DEF Annos, AnnosOf
<1>8. QED
  BY <1>1, <1>2, <1>3, <1>5, <1>7

\* The point modified last, when there is one modified after all others.
LEMMA TopIs ==
    ASSUME NEW p, NEW S, NEW k \in S, \A j \in S : p[j].mod \in Nat,
           \A j \in S \ {k} : p[j].mod < p[k].mod
    PROVE  Top(p, S) = k
<1>1. \A j \in S : p[j].mod <= p[k].mod
  OBVIOUS
<1>2. \A i \in S : (\A j \in S : p[j].mod <= p[i].mod) => i = k
  OBVIOUS
<1>3. QED
  BY <1>1, <1>2 DEF Top

\* It depends on the points it is chosen from.
LEMMA SameTop ==
    ASSUME NEW p, NEW q, NEW S, \A k \in S : q[k] = p[k]
    PROVE  Top(q, S) = Top(p, S)
  BY Zenon DEF Top

\* There is one modified last, as all were modified by now.
LEMMA TopExists ==
    ASSUME NEW p, NEW S, S # {}, NEW n \in Nat,
           \A j \in S : p[j].mod \in Nat /\ p[j].mod <= n
    PROVE  Top(p, S) \in S
<1> DEFINE R == OpToRel(<, Nat)
           Ages == {n - p[j].mod : j \in S}
<1>1. IsWellFoundedOn(R, Nat)
  BY NatLessThanWellFounded
<1>2. Ages \in SUBSET Nat /\ Ages # {}
  OBVIOUS
<1>3. \E x \in Ages : \A y \in Ages : <<y, x>> \notin R
  <2> HIDE DEF R, Ages
  <2> QED BY <1>1, <1>2, WFMin
<1>4. \A x, y \in Nat : <<y, x>> \notin R => x =< y
  BY DEF OpToRel
<1>5. \E x \in Ages : \A y \in Ages : x =< y
  <2> HIDE DEF R, Ages
  <2> QED BY <1>2, <1>3, <1>4
<1>6. PICK k \in S : \A j \in S : n - p[k].mod =< n - p[j].mod
  BY <1>5
<1>7. \A j \in S : p[j].mod <= p[k].mod
  BY <1>6
<1>8. QED
  BY <1>7 DEF Top

\* What a write of a point of one annotation leaves as it is.
LEMMA SameAnno ==
    ASSUME NEW p, NEW q, NEW i, NEW n \in Nat, Alive(p, i) # {},
           \A j \in DOMAIN p : p[j].mod \in Nat /\ p[j].mod <= n,
           Alive(q, i) = Alive(p, i), \A k \in Alive(p, i) : q[k] = p[k]
    PROVE  Named(q, Top(q, Alive(q, i))) = Named(p, Top(p, Alive(p, i)))
<1> DEFINE S == Alive(p, i)
<1>1. Top(p, S) \in S
  <2>1. \A j \in S : p[j].mod \in Nat /\ p[j].mod <= n
    BY DEF Alive
  <2>2. S # {}
    OBVIOUS
  <2> HIDE DEF S
  <2>3. QED
    BY <2>1, <2>2, TopExists
<1>2. Top(q, S) = Top(p, S)
  BY SameTop
<1>3. QED
  BY <1>1, <1>2 DEF Named

-----------------------------------------------------------------------------
(* An annotation of which something is promised. *)

Way(q, id) == q # Idle /\ q.r.op # "add" /\ q.r.id = id
Halfway(q) == q.at = "tombstone" /\ q.r.op = "update"

\* What the request q for the annotation id has read is still so.
Fits(p, q, id) ==
    /\ q.at \in {"getOld", "write", "tombstone"} => Alive(p, id) # {}
    /\ q.at = "getOld" =>
          \A k \in Alive(p, id) : q.new = Applied(q.r.change, Named(p, k))
    /\ q.at = "write" =>
          \A k \in Alive(p, id) : /\ q.old = Named(p, k)
                                  /\ q.new = Applied(q.r.change, q.old)
    /\ q.at = "tombstone" /\ q.r.op = "delete" =>
          \A k \in Alive(p, id) : q.old = Named(p, k)
    /\ Halfway(q) =>
          \E k : /\ Alive(p, id) = {k, KeyOf(id, q.old)} /\ k # KeyOf(id, q.old)
                 /\ p[KeyOf(id, q.old)].mod < p[k].mod

\* One request at most is at work on it, and one point tells it, but while an
\* update has written the new one and not yet the tombstone of the old.
Settled(p, R, id) ==
    /\ \A s, t \in Slots : Way(R[s], id) /\ Way(R[t], id) => s = t
    /\ (\A s \in Slots : Way(R[s], id) => ~Halfway(R[s])) =>
          \A j, k \in Alive(p, id) : j = k
    /\ \A s \in Slots : Way(R[s], id) => Fits(p, R[s], id)

SettledInv == \A id \in given \ spoiled : Settled(points, reqs, id)

Inv == BaseInv /\ SettledInv

\* A step of a request for another annotation.
LEMMA Unmoved ==
    ASSUME NEW p, NEW q, NEW R, NEW s \in Slots, NEW job, NEW id,
           DOMAIN R = Slots, Settled(p, R, id),
           Alive(q, id) = Alive(p, id), \A k \in Alive(p, id) : q[k] = p[k],
           ~Way(job, id), Way(R[s], id) => ~Halfway(R[s])
    PROVE  Settled(q, [R EXCEPT ![s] = job], id)
<1> DEFINE New == [R EXCEPT ![s] = job]
<1>1. New[s] = job /\ \A t \in Slots \ {s} : New[t] = R[t]
  OBVIOUS
<1>2. \A k \in Alive(p, id) : Named(q, k) = Named(p, k)
  BY DEF Named
<1>3. ASSUME NEW t \in Slots, Way(R[t], id), t # s
      PROVE  Fits(q, R[t], id)
  <2>1. Fits(p, R[t], id)
    BY <1>3 DEF Settled
  <2>2. QED
    BY <1>2, <2>1 DEF Fits
<1> HIDE DEF New
<1>4. \A t \in Slots : Way(New[t], id) => t # s /\ Way(R[t], id) /\ New[t] = R[t]
  BY <1>1
<1>5. \A t \in Slots : Way(New[t], id) => Fits(q, New[t], id)
  BY <1>3, <1>4
<1>6. \A t, u \in Slots : Way(New[t], id) /\ Way(New[u], id) => t = u
  BY <1>4 DEF Settled
<1>7. ASSUME \A t \in Slots : Way(New[t], id) => ~Halfway(New[t])
      PROVE  \A j, k \in Alive(q, id) : j = k
  BY <1>1, <1>7 DEF Settled
<1>8. Settled(q, New, id)
  BY <1>5, <1>6, <1>7 DEF Settled
<1>9. QED
  BY <1>8 DEF New

-----------------------------------------------------------------------------
(* The invariant. *)

Put(p, k, x) == [j \in DOMAIN p \cup {k} |-> IF j = k THEN x ELSE p[j]]

\* What the writing of a point changes, of another annotation and of its own.
LEMMA PutOther ==
    ASSUME NEW p, NEW k \in Key, NEW x, NEW i
    PROVE  i # k.id => /\ Alive(Put(p, k, x), i) = Alive(p, i)
                       /\ \A j \in Alive(p, i) : Put(p, k, x)[j] = p[j]
  BY DEF Put, Alive

LEMMA PutLive ==
    ASSUME NEW p, NEW k \in Key, NEW x, GoodPoint(x), ~Dead(x)
    PROVE  Alive(Put(p, k, x), k.id) = Alive(p, k.id) \cup {k}
  BY DEF Put, Alive, GoodPoint, Dead

LEMMA PutDead ==
    ASSUME NEW p, NEW k \in Key, NEW x, GoodPoint(x), Dead(x)
    PROVE  Alive(Put(p, k, x), k.id) = Alive(p, k.id) \ {k}
  BY DEF Put, Alive, GoodPoint, Dead

\* What Get finds is an annotation.
LEMMA FoundType ==
    ASSUME BaseInv, NEW id, NEW cur \in Found(id)
    PROVE  /\ cur \in Annotation /\ Alive(points, id) # {}
           /\ Top(points, Alive(points, id)) \in Alive(points, id)
           /\ cur = Named(points, Top(points, Alive(points, id)))
<1> DEFINE S == Alive(points, id)
<1>1. S # {} /\ cur = Named(points, Top(points, S))
  BY Read DEF BaseInv
<1>2. \A j \in S : points[j].mod \in Nat /\ points[j].mod <= clock
  BY DEF Alive, BaseInv, GoodPoints, GoodPoint
<1>3. Top(points, S) \in S
  <2> HIDE DEF S
  <2> QED BY <1>1, <1>2, TopExists DEF BaseInv
<1>4. cur \in Annotation
  BY <1>1, <1>3 DEF Alive, Named, Annotation, BaseInv, GoodPoints,
     GoodPoint, Key
<1>5. QED
  BY <1>1, <1>3, <1>4

LEMMA AppliedType ==
    ASSUME NEW change \in Change, NEW cur \in Annotation
    PROVE  Applied(change, cur) \in Annotation
  BY DEF Change, Annotation, Applied, Or

LEMMA KeyType ==
    ASSUME NEW id \in Ids, NEW anno \in Annotation
    PROVE  KeyOf(id, anno) \in Key /\ KeyOf(id, anno).id = id
  BY DEF KeyOf, Key, Annotation

LEMMA WriteKeepsBase ==
    ASSUME BaseInv, NEW s \in Slots, NEW k \in Key, NEW x, NEW next, NEW spoiling,
           GoodPoint(x), x.mod = clock + 1,
           k.id \in given', given \subseteq given', given' \subseteq Ids,
           next \in Jobs,
           next # Idle /\ next.r.op # "add" => next.r.id \in given,
           Write(s, k, x, next, spoiling)
    PROVE  BaseInv'
<1>1. /\ clock' = clock + 1 /\ spoiled' \subseteq spoiled \cup {k.id}
      /\ points' \in {points, Put(points, k, x)}
      /\ \E job \in {next, Idle} : reqs' = [reqs EXCEPT ![s] = job]
  BY DEF Write, Put, Goto
<1>2. GoodPoints(points') /\ \A j \in DOMAIN points' : /\ j.id \in given'
                                                       /\ points'[j].mod <= clock'
  <2>1. CASE points' = points
    BY <1>1, <2>1 DEF BaseInv, GoodPoints, GoodPoint
  <2>2. CASE points' = Put(points, k, x)
    <3>1. /\ DOMAIN points' = DOMAIN points \cup {k} /\ points'[k] = x
          /\ \A j \in DOMAIN points \ {k} : points'[j] = points[j]
      BY <2>2 DEF Put
    <3>2. clock \in Nat /\ clock' = clock + 1
      BY <1>1 DEF BaseInv
    <3>3. QED
      BY <3>1, <3>2 DEF BaseInv, GoodPoints, GoodPoint
  <2>3. QED
    BY <1>1, <2>1, <2>2
<1>3. /\ reqs' \in [Slots -> Jobs]
      /\ \A t \in Slots : reqs'[t] # Idle /\ reqs'[t].r.op # "add" =>
                              reqs'[t].r.id \in given'
  <2>1. PICK job \in {next, Idle} : reqs' = [reqs EXCEPT ![s] = job]
    BY <1>1
  <2>2. job \in Jobs
    BY DEF Jobs
  <2>3. QED
    BY <2>1, <2>2 DEF BaseInv
<1>4. QED
  BY <1>1, <1>2, <1>3 DEF BaseInv

\* A step that writes nothing.
LEMMA ReadKeepsBase ==
    ASSUME BaseInv, NEW s \in Slots, NEW job \in Jobs,
           job # Idle /\ job.r.op # "add" => job.r.id \in given,
           Goto(s, job), spoiled' \subseteq given, UNCHANGED <<points, clock, given>>
    PROVE  BaseInv'
  BY DEF BaseInv, Goto

LEMMA NextKeepsBase ==
    ASSUME BaseInv, [Next]_vars
    PROVE  BaseInv'
<1>1. CASE UNCHANGED vars
  BY <1>1 DEF vars, BaseInv
<1> SUFFICES ASSUME NEW s \in Slots,
                    Arrive(s) \/ Add(s) \/ Get(s) \/ GetOld(s) \/ Update(s) \/ Delete(s)
             PROVE  BaseInv'
  BY <1>1 DEF Next
<1> DEFINE q == reqs[s]
<1>2. q \in Jobs /\ (q # Idle /\ q.r.op # "add" => q.r.id \in given)
  BY DEF BaseInv
<1>3. Idle \in Jobs /\ given \subseteq Ids
  BY DEF Jobs, BaseInv
<1>4. CASE Arrive(s)
  <2>1. PICK r \in Requests :
           Goto(s, [at |-> IF r.op = "add" THEN "add" ELSE "get", r |-> r])
    BY <1>4 DEF Arrive, Goto
  <2>2. \/ r \in Adds
        \/ r \in Updates \cup Deletes /\ r.id \in given
    BY <1>3 DEF Requests, Adds, Updates, Deletes
  <2>3. CASE r \in Adds
    BY <1>4, <2>1, <2>3, ReadKeepsBase DEF Arrive, Adds, Jobs, BaseInv, OnItsWay
  <2>4. CASE r \in Updates \cup Deletes /\ r.id \in given
    <3>1. spoiled' \subseteq given
      BY <1>4 DEF Arrive, OnItsWay, BaseInv
    <3>2. r.op # "add"
      BY <2>4 DEF Updates, Deletes
    <3>3. [at |-> "get", r |-> r] \in Jobs
      BY <2>4 DEF Jobs
    <3>4. QED
      BY <1>4, <2>1, <2>4, <3>1, <3>2, <3>3, ReadKeepsBase DEF Arrive
  <2>5. QED
    BY <2>2, <2>3, <2>4
<1>5. CASE Add(s)
  <2>1. PICK id \in Ids \ given :
           /\ given' = given \cup {id}
           /\ Write(s, KeyOf(id, q.r.anno), ToPoint(q.r.anno), Idle, {})
    BY <1>5 DEF Add
  <2>2. q.r.anno \in Annotation
    BY <1>2, <1>5, JobShape DEF Add
  <2>3. GoodPoint(ToPoint(q.r.anno)) /\ ToPoint(q.r.anno).mod = clock + 1
    BY <2>2 DEF ToPoint, Annotation, GoodPoint, BaseInv
  <2>4. KeyOf(id, q.r.anno) \in Key /\ KeyOf(id, q.r.anno).id = id
    BY <2>2, KeyType
  <2>5. given' \subseteq Ids /\ given \subseteq given' /\ id \in given'
    BY <1>3, <2>1
  <2>6. QED
    BY <1>3, <2>1, <2>3, <2>4, <2>5, WriteKeepsBase
<1>6. CASE Get(s)
  <2>1. q.at = "get" /\ q # Idle /\ UNCHANGED <<points, clock, given, spoiled>>
    BY <1>6 DEF Get, Idle
  <2>2. CASE Goto(s, Idle)
    BY <1>3, <2>1, <2>2, ReadKeepsBase DEF BaseInv
  <2>3. ASSUME NEW cur \in Found(q.r.id),
               Goto(s, IF q.r.op = "delete"
                  THEN [at |-> "tombstone", r |-> q.r, old |-> cur]
                  ELSE [at |-> "getOld", r |-> q.r, new |-> Applied(q.r.change, cur)])
        PROVE  BaseInv'
    <3>1. cur \in Annotation /\ q.r \in Updates \cup Deletes
      BY <1>2, <2>1, FoundType, JobShape
    <3>2. CASE q.r.op = "delete"
      <4>1. [at |-> "tombstone", r |-> q.r, old |-> cur] \in Jobs
        BY <3>1 DEF Jobs
      <4>2. QED
        BY <1>2, <2>1, <2>3, <3>2, <4>1, ReadKeepsBase DEF BaseInv
    <3>3. CASE q.r.op # "delete"
      <4>1. q.r \in Updates /\ q.r.change \in Change
        BY <3>1, <3>3 DEF Updates, Deletes
      <4>2. Applied(q.r.change, cur) \in Annotation
        BY <3>1, <4>1, AppliedType
      <4>3. [at |-> "getOld", r |-> q.r, new |-> Applied(q.r.change, cur)] \in Jobs
        BY <4>1, <4>2 DEF Jobs
      <4>4. QED
        BY <1>2, <2>1, <2>3, <3>3, <4>3, ReadKeepsBase DEF BaseInv
    <3>4. QED
      BY <3>2, <3>3
  <2>4. QED
    BY <1>6, <2>2, <2>3 DEF Get
<1>7. CASE GetOld(s)
  <2>1. q.at = "getOld" /\ q # Idle /\ UNCHANGED <<points, clock, given, spoiled>>
    BY <1>7 DEF GetOld, Idle
  <2>2. CASE Goto(s, Idle)
    BY <1>3, <2>1, <2>2, ReadKeepsBase DEF BaseInv
  <2>3. ASSUME NEW cur \in Found(q.r.id),
               Goto(s, [at |-> "write", r |-> q.r, new |-> q.new, old |-> cur])
        PROVE  BaseInv'
    <3>1. cur \in Annotation /\ q.r \in Updates /\ q.new \in Annotation
      BY <1>2, <2>1, FoundType, JobShape
    <3>2. [at |-> "write", r |-> q.r, new |-> q.new, old |-> cur] \in Jobs
      BY <3>1 DEF Jobs
    <3>3. QED
      BY <1>2, <2>1, <2>3, <3>2, ReadKeepsBase DEF BaseInv
  <2>4. QED
    BY <1>7, <2>2, <2>3 DEF GetOld
<1>8. CASE Update(s)
  <2> DEFINE k == KeyOf(q.r.id, q.new)
             next == AfterUpdate(q.r, q.old, q.new)
  <2>1. /\ q.at = "write" /\ q # Idle /\ UNCHANGED given
        /\ \E spoiling : Write(s, k, ToPoint(q.new), next, spoiling)
    BY <1>8 DEF Update, Idle
  <2>2. /\ q.r \in Updates /\ q.new \in Annotation /\ q.old \in Annotation
        /\ q.r.op # "add" /\ q.r.id \in given
    BY <1>2, <2>1, JobShape DEF Updates
  <2>3. k \in Key /\ k.id \in given
    BY <1>3, <2>2, KeyType
  <2>4. GoodPoint(ToPoint(q.new)) /\ ToPoint(q.new).mod = clock + 1
    BY <2>2 DEF ToPoint, Annotation, GoodPoint, BaseInv
  <2>5. next \in Jobs /\ (next # Idle => next.r = q.r)
    BY <2>2 DEF AfterUpdate, Jobs
  <2> HIDE DEF k, next
  <2>6. QED
    BY <1>3, <2>1, <2>2, <2>3, <2>4, <2>5, WriteKeepsBase
<1>9. CASE Delete(s)
  <2> DEFINE k == KeyOf(q.r.id, q.old)
  <2>1. /\ q.at = "tombstone" /\ q # Idle /\ UNCHANGED given
        /\ \E spoiling : Write(s, k, Tombstone, Idle, spoiling)
    BY <1>9 DEF Delete, Idle
  <2>2. q.old \in Annotation /\ q.r.op # "add" /\ q.r.id \in given
    BY <1>2, <2>1, JobShape DEF Updates, Deletes
  <2>3. k \in Key /\ k.id \in given
    BY <1>3, <2>2, KeyType
  <2>4. GoodPoint(Tombstone) /\ Tombstone.mod = clock + 1
    BY DEF Tombstone, GoodPoint, BaseInv
  <2> HIDE DEF k
  <2>6. given' \subseteq Ids /\ given \subseteq given' /\ k.id \in given'
    BY <1>3, <2>1, <2>3
  <2>7. QED
    BY <1>3, <2>1, <2>3, <2>4, <2>6, WriteKeepsBase
<1>10. QED
  BY <1>4, <1>5, <1>6, <1>7, <1>8, <1>9

\* A step of the only request that is at work on an annotation.
LEMMA Moved ==
    ASSUME NEW q, NEW R, NEW s \in Slots, NEW job, NEW id, DOMAIN R = Slots,
           \A t \in Slots : Way(R[t], id) => t = s,
           Way(job, id) => Fits(q, job, id),
           (Way(job, id) => ~Halfway(job)) => \A j, k \in Alive(q, id) : j = k
    PROVE  Settled(q, [R EXCEPT ![s] = job], id)
<1> DEFINE New == [R EXCEPT ![s] = job]
<1>1. New[s] = job /\ \A t \in Slots \ {s} : New[t] = R[t]
  OBVIOUS
<1> HIDE DEF New
<1>2. \A t \in Slots : Way(New[t], id) => t = s
  BY <1>1
<1>3. Settled(q, New, id)
  BY <1>1, <1>2 DEF Settled
<1>4. QED
  BY <1>3 DEF New

\* The point of an annotation that one point tells.
LEMMA OnePoint ==
    ASSUME BaseInv, NEW id, NEW k \in Alive(points, id)
    PROVE  /\ k \in Key /\ k = KeyOf(id, Named(points, k))
           /\ (\A j, l \in Alive(points, id) : j = l) =>
                 Alive(points, id) = {k} /\ Top(points, Alive(points, id)) = k
<1>1. k \in Key /\ k.id = id
  BY DEF Alive, BaseInv, GoodPoints
<1>2. k = KeyOf(id, Named(points, k))
  BY <1>1 DEF Key, KeyOf, Named
<1>3. ASSUME \A j, l \in Alive(points, id) : j = l
      PROVE  Alive(points, id) = {k} /\ Top(points, Alive(points, id)) = k
  <2>1. Alive(points, id) = {k}
    BY <1>3
  <2>2. points[k].mod \in Nat
    BY DEF Alive, BaseInv, GoodPoints, GoodPoint
  <2>3. QED
    BY <2>1, <2>2, TopIs
<1>4. QED
  BY <1>1, <1>2, <1>3

\* What a request at work on a settled annotation goes by.
LEMMA AtWork ==
    ASSUME Inv, NEW s \in Slots, NEW id \in given \ spoiled, Way(reqs[s], id)
    PROVE  /\ \A t \in Slots : Way(reqs[t], id) => t = s
           /\ Fits(points, reqs[s], id)
           /\ ~Halfway(reqs[s]) => \A j, k \in Alive(points, id) : j = k
<1>1. Settled(points, reqs, id)
  BY DEF Inv, SettledInv
<1>2. QED
  BY <1>1 DEF Settled

LEMMA ArriveSettles ==
    ASSUME Inv, NEW s \in Slots, Arrive(s)
    PROVE  SettledInv'
<1> SUFFICES ASSUME NEW id \in given' \ spoiled'
             PROVE  Settled(points', reqs', id)
  BY DEF SettledInv
<1>1. PICK r \in Requests :
         /\ reqs' = [reqs EXCEPT ![s] =
               [at |-> IF r.op = "add" THEN "add" ELSE "get", r |-> r]]
         /\ spoiled' = IF r.op # "add" /\ \E t \in Slots : OnItsWay(t, r.id)
                       THEN spoiled \cup {r.id} ELSE spoiled
  BY DEF Arrive
<1> DEFINE job == [at |-> IF r.op = "add" THEN "add" ELSE "get", r |-> r]
<1>2. /\ id \in given \ spoiled /\ UNCHANGED points /\ reqs[s] = Idle
      /\ Settled(points, reqs, id) /\ DOMAIN reqs = Slots
  BY <1>1 DEF Arrive, Inv, SettledInv, BaseInv
<1>3. job.r = r /\ job.at \in {"add", "get"} /\ job # Idle
  BY DEF Idle
<1> HIDE DEF job
<1>4. CASE Way(job, id)
  <2>1. \A t \in Slots : ~Way(reqs[t], id)
    BY <1>1, <1>2, <1>3, <1>4 DEF OnItsWay, Way
  <2>2. \A j, k \in Alive(points, id) : j = k
    BY <1>2, <2>1 DEF Settled
  <2>3. Fits(points, job, id)
    BY <1>3 DEF Fits, Halfway
  <2>4. Settled(points, [reqs EXCEPT ![s] = job], id)
    BY <1>2, <2>1, <2>2, <2>3, Moved
  <2>5. QED
    BY <1>1, <1>2, <2>4 DEF job
<1>5. CASE ~Way(job, id)
  <2>1. ~Way(reqs[s], id)
    BY <1>2 DEF Way
  <2>2. Settled(points, [reqs EXCEPT ![s] = job], id)
    BY <1>2, <1>5, <2>1, Unmoved
  <2>3. QED
    BY <1>1, <1>2, <2>2 DEF job
<1>6. QED
  BY <1>4, <1>5

LEMMA GetSettles ==
    ASSUME Inv, NEW s \in Slots, Get(s) \/ GetOld(s)
    PROVE  SettledInv'
<1> SUFFICES ASSUME NEW id \in given \ spoiled
             PROVE  Settled(points', reqs', id)
  BY DEF SettledInv, Get, GetOld
<1> DEFINE q == reqs[s]
<1>1. /\ q \in Jobs /\ q.at \in {"get", "getOld"} /\ q # Idle
      /\ UNCHANGED points /\ Settled(points, reqs, id) /\ DOMAIN reqs = Slots
  BY DEF Get, GetOld, Inv, SettledInv, BaseInv, Idle
<1>2. PICK job :
         /\ reqs' = [reqs EXCEPT ![s] = job]
         /\ \/ job = Idle
            \/ /\ q.at = "get" /\ q.r.op = "delete"
               /\ \E cur \in Found(q.r.id) :
                     job = [at |-> "tombstone", r |-> q.r, old |-> cur]
            \/ /\ q.at = "get" /\ q.r.op # "delete"
               /\ \E cur \in Found(q.r.id) :
                     job = [at |-> "getOld", r |-> q.r,
                            new |-> Applied(q.r.change, cur)]
            \/ /\ q.at = "getOld"
               /\ \E cur \in Found(q.r.id) :
                     job = [at |-> "write", r |-> q.r, new |-> q.new, old |-> cur]
  BY DEF Get, GetOld, Goto
<1>3. job = Idle \/ job.r = q.r
  BY <1>2
<1>4. CASE ~Way(q, id)
  <2>1. ~Way(job, id)
    BY <1>1, <1>3, <1>4 DEF Way
  <2>2. Settled(points, [reqs EXCEPT ![s] = job], id)
    BY <1>1, <1>4, <2>1, Unmoved
  <2>3. QED
    BY <1>1, <1>2, <2>2
<1>5. CASE Way(q, id)
  <2>1. /\ \A t \in Slots : Way(reqs[t], id) => t = s
        /\ Fits(points, q, id) /\ \A j, k \in Alive(points, id) : j = k
    BY <1>1, <1>5, AtWork DEF Halfway
  <2>2. ASSUME NEW cur \in Found(q.r.id)
        PROVE  Alive(points, id) # {} /\ \A k \in Alive(points, id) :
                                            cur = Named(points, k)
    <3>1. q.r.id = id /\ BaseInv
      BY <1>5 DEF Way, Inv
    <3>2. QED
      BY <2>1, <2>2, <3>1, FoundType
  <2>3. job # Idle => ~Halfway(job) /\ Fits(points, job, id)
    <3>1. CASE job = Idle
      BY <3>1
    <3>2. ASSUME NEW cur \in Found(q.r.id), q.r.op = "delete",
                 job = [at |-> "tombstone", r |-> q.r, old |-> cur]
          PROVE  ~Halfway(job) /\ Fits(points, job, id)
      BY <2>2, <3>2 DEF Fits, Halfway
    <3>3. ASSUME NEW cur \in Found(q.r.id),
                 job = [at |-> "getOld", r |-> q.r,
                        new |-> Applied(q.r.change, cur)]
          PROVE  ~Halfway(job) /\ Fits(points, job, id)
      BY <2>2, <3>3 DEF Fits, Halfway
    <3>4. ASSUME NEW cur \in Found(q.r.id), q.at = "getOld",
                 job = [at |-> "write", r |-> q.r, new |-> q.new, old |-> cur]
          PROVE  ~Halfway(job) /\ Fits(points, job, id)
      <4>1. \A k \in Alive(points, id) : q.new = Applied(q.r.change, cur)
        BY <2>1, <2>2, <3>4 DEF Fits
      <4>2. QED
        BY <2>2, <3>4, <4>1 DEF Fits, Halfway
    <3>5. QED
      BY <1>2, <3>1, <3>2, <3>3, <3>4
  <2>4. Way(job, id) => Fits(points, job, id)
    BY <2>3 DEF Way
  <2>5. Settled(points, [reqs EXCEPT ![s] = job], id)
    BY <1>1, <2>1, <2>4, Moved
  <2>6. QED
    BY <1>1, <1>2, <2>5
<1>6. QED
  BY <1>4, <1>5

\* A write with its outcome.
LEMMA WriteShape ==
    ASSUME NEW s, NEW k, NEW x, NEW next, NEW spoiling, Write(s, k, x, next, spoiling)
    PROVE  \E o \in Outcomes :
              /\ points' = IF o.written THEN Put(points, k, x) ELSE points
              /\ reqs' = [reqs EXCEPT ![s] = IF o.ok THEN next ELSE Idle]
              /\ spoiled' = IF o \in spoiling THEN spoiled \cup {k.id} ELSE spoiled
              /\ o.written \/ ~o.ok
  BY DEF Write, Put, Goto, Outcomes

LEMMA AddSettles ==
    ASSUME Inv, NEW s \in Slots, Add(s)
    PROVE  SettledInv'
<1> SUFFICES ASSUME NEW id \in given' \ spoiled'
             PROVE  Settled(points', reqs', id)
  BY DEF SettledInv
<1> DEFINE q == reqs[s]
<1>1. /\ BaseInv /\ q \in Jobs /\ q.at = "add" /\ q.r.op = "add"
      /\ q.r.anno \in Annotation /\ DOMAIN reqs = Slots
  BY JobShape DEF Inv, BaseInv, Add
<1>2. PICK new \in Ids \ given :
         /\ given' = given \cup {new}
         /\ Write(s, KeyOf(new, q.r.anno), ToPoint(q.r.anno), Idle, {})
  BY DEF Add
<1> DEFINE k == KeyOf(new, q.r.anno)
           x == ToPoint(q.r.anno)
<1>3. /\ points' = points \/ points' = Put(points, k, x)
      /\ reqs' = [reqs EXCEPT ![s] = Idle] /\ spoiled' = spoiled
  BY <1>2, WriteShape
<1>4. /\ k \in Key /\ k.id = new /\ GoodPoint(x) /\ ~Dead(x) /\ GoodPoints(points)
  BY <1>1, KeyType DEF ToPoint, Annotation, GoodPoint, Dead, BaseInv
<1>5. Alive(points, new) = {}
  BY <1>1, <1>2 DEF BaseInv, Alive
<1> HIDE DEF k, x
<1>6. CASE id = new
  <2>1. \A t \in Slots : ~Way(reqs[t], id)
    BY <1>1, <1>2, <1>6 DEF Way, BaseInv
  <2>2. \A j, l \in Alive(points', id) : j = l
    BY <1>3, <1>4, <1>5, <1>6, PutLive
  <2>3. ~Way(Idle, id)
    BY DEF Way
  <2>4. Settled(points', [reqs EXCEPT ![s] = Idle], id)
    BY <1>1, <2>1, <2>2, <2>3, Moved
  <2>5. QED
    BY <1>3, <2>4
<1>7. CASE id # new
  <2>1. Settled(points, reqs, id)
    BY <1>2, <1>3, <1>7 DEF Inv, SettledInv
  <2>2. /\ Alive(points', id) = Alive(points, id)
        /\ \A j \in Alive(points, id) : points'[j] = points[j]
    BY <1>3, <1>4, <1>7, PutOther
  <2>3. ~Way(Idle, id) /\ ~Way(q, id)
    BY <1>1 DEF Way
  <2>4. Settled(points', [reqs EXCEPT ![s] = Idle], id)
    BY <1>1, <2>1, <2>2, <2>3, Unmoved
  <2>5. QED
    BY <1>3, <2>4
<1>8. QED
  BY <1>6, <1>7

\* What the write of an update finds, and leaves.
LEMMA UpdateEffect ==
    ASSUME BaseInv, NEW s \in Slots, Update(s), NEW q, q = reqs[s],
           NEW k, k = KeyOf(q.r.id, q.new)
    PROVE  /\ q.at = "write" /\ q.r \in Updates /\ q.r.id \in given /\ q # Idle
           /\ q.new \in Annotation /\ q.old \in Annotation
           /\ k \in Key /\ k.id = q.r.id /\ UNCHANGED given
           /\ GoodPoint(ToPoint(q.new)) /\ ~Dead(ToPoint(q.new))
           /\ ToPoint(q.new).mod = clock + 1 /\ ToPoint(q.new).text = q.new.text
           /\ \/ /\ points' = points /\ spoiled' = spoiled
                 /\ reqs' = [reqs EXCEPT ![s] = Idle]
              \/ /\ points' = Put(points, k, ToPoint(q.new))
                 /\ \/ /\ reqs' = [reqs EXCEPT ![s] = AfterUpdate(q.r, q.old, q.new)]
                       /\ q.old.end = q.new.end /\ q.old.tags # q.new.tags =>
                             spoiled' = spoiled \cup {q.r.id}
                       /\ ~(q.old.end = q.new.end /\ q.old.tags # q.new.tags) =>
                             spoiled' = spoiled
                    \/ /\ reqs' = [reqs EXCEPT ![s] = Idle]
                       /\ q.old.end # q.new.end \/ q.old.tags # q.new.tags =>
                             spoiled' = spoiled \cup {q.r.id}
                       /\ ~(q.old.end # q.new.end \/ q.old.tags # q.new.tags) =>
                             spoiled' = spoiled
<1>1. q \in Jobs /\ q.at = "write" /\ UNCHANGED given
  BY DEF BaseInv, Update
<1>2. /\ q.r \in Updates /\ q.new \in Annotation /\ q.old \in Annotation /\ q # Idle
  BY <1>1, JobShape DEF Idle
<1>3. q.r.id \in given /\ q.r.id \in Ids
  BY <1>2 DEF BaseInv, Updates
<1>4. k \in Key /\ k.id = q.r.id
  BY <1>2, <1>3, KeyType
<1>5. /\ GoodPoint(ToPoint(q.new)) /\ ~Dead(ToPoint(q.new))
      /\ ToPoint(q.new).mod = clock + 1 /\ ToPoint(q.new).text = q.new.text
  BY <1>2 DEF ToPoint, Annotation, GoodPoint, Dead, BaseInv
<1> DEFINE spoiling ==
              {o \in Outcomes :
                 o.written /\ \/ q.old.end # q.new.end /\ ~o.ok
                              \/ q.old.end = q.new.end /\ q.old.tags # q.new.tags}
<1>6. PICK o \in Outcomes :
         /\ points' = IF o.written THEN Put(points, k, ToPoint(q.new)) ELSE points
         /\ reqs' = [reqs EXCEPT ![s] = IF o.ok THEN AfterUpdate(q.r, q.old, q.new)
                                                ELSE Idle]
         /\ spoiled' = IF o \in spoiling THEN spoiled \cup {k.id} ELSE spoiled
         /\ o.written \/ ~o.ok
  <2>1. Write(s, k, ToPoint(q.new), AfterUpdate(q.r, q.old, q.new), spoiling)
    BY DEF Update
  <2> HIDE DEF spoiling
  <2>2. QED
    BY <2>1, WriteShape
<1>7. CASE ~o.written
  BY <1>1, <1>2, <1>3, <1>4, <1>5, <1>6, <1>7
<1>8. CASE o.written /\ o.ok
  BY <1>1, <1>2, <1>3, <1>4, <1>5, <1>6, <1>8
<1>9. CASE o.written /\ ~o.ok
  BY <1>1, <1>2, <1>3, <1>4, <1>5, <1>6, <1>9
<1>10. QED
  BY <1>7, <1>8, <1>9

\* On a settled annotation the written point is the one modified last, and the
\* other is the one the update read.
LEMMA UpdateOnSettled ==
    ASSUME Inv, NEW s \in Slots, Update(s), NEW id \in given \ spoiled,
           Way(reqs[s], id), NEW new, new = KeyOf(id, reqs[s].new),
           points' = Put(points, new, ToPoint(reqs[s].new))
    PROVE  /\ Alive(points, id) = {KeyOf(id, reqs[s].old)}
           /\ Alive(points', id) = {new, KeyOf(id, reqs[s].old)}
           /\ Top(points', Alive(points', id)) = new
           /\ Named(points', new) = reqs[s].new
           /\ reqs[s].new = Applied(reqs[s].r.change, Named(points,
                                      Top(points, Alive(points, id))))
           /\ KeyOf(id, reqs[s].old) # new =>
                 points'[KeyOf(id, reqs[s].old)].mod < points'[new].mod
<1> DEFINE q == reqs[s]
           old == KeyOf(id, q.old)
           x == ToPoint(q.new)
<1>1. BaseInv /\ q.r.id = id /\ ~Halfway(q)
  BY DEF Inv, Way, Update, Halfway
<1>2. /\ q.at = "write" /\ q.new \in Annotation /\ new \in Key /\ new.id = id
      /\ GoodPoint(x) /\ ~Dead(x) /\ x.mod = clock + 1 /\ x.text = q.new.text
  BY <1>1, UpdateEffect
<1>3. /\ Fits(points, q, id) /\ \A j, k \in Alive(points, id) : j = k
  BY <1>1, AtWork
<1>4. PICK k \in Alive(points, id) : /\ q.old = Named(points, k)
                                     /\ q.new = Applied(q.r.change, q.old)
  BY <1>2, <1>3 DEF Fits
<1>5. k = old /\ Alive(points, id) = {k} /\ Top(points, Alive(points, id)) = k
  BY <1>1, <1>3, <1>4, OnePoint
<1>6. GoodPoints(points) /\ points[k].mod \in Nat /\ points[k].mod <= clock
      /\ k \in DOMAIN points /\ clock \in Nat
  BY <1>1 DEF BaseInv, GoodPoints, GoodPoint, Alive
<1> HIDE DEF x
<1>7. Alive(points', id) = Alive(points, id) \cup {new}
  BY <1>2, PutLive DEF x
<1>8. points'[new] = x /\ (k # new => points'[k] = points[k])
  BY <1>6 DEF Put, x
<1>9. /\ \A j \in {new, k} : points'[j].mod \in Nat
      /\ \A j \in {new, k} \ {new} : points'[j].mod < points'[new].mod
  BY <1>2, <1>6, <1>8
<1>10. Alive(points', id) = {new, k}
  BY <1>5, <1>7
<1>11. Top(points', {new, k}) = new
  BY <1>9, TopIs
<1>12. Named(points', new) = q.new
  BY <1>2, <1>8 DEF Named, KeyOf, Annotation
<1>13. QED
  BY <1>4, <1>5, <1>9, <1>10, <1>11, <1>12

LEMMA UpdateSettles ==
    ASSUME Inv, NEW s \in Slots, Update(s)
    PROVE  SettledInv'
<1> SUFFICES ASSUME NEW id \in given' \ spoiled'
             PROVE  Settled(points', reqs', id)
  BY DEF SettledInv
<1> DEFINE q == reqs[s]
           new == KeyOf(q.r.id, q.new)
           x == ToPoint(q.new)
           next == AfterUpdate(q.r, q.old, q.new)
<1>1. BaseInv /\ DOMAIN reqs = Slots
  BY DEF Inv, BaseInv
<1>2. /\ q.at = "write" /\ q.r \in Updates /\ q # Idle
      /\ new \in Key /\ new.id = q.r.id /\ UNCHANGED given
      /\ GoodPoint(x) /\ ~Dead(x) /\ id \in given \ spoiled
      /\ \/ /\ points' = points
            /\ reqs' = [reqs EXCEPT ![s] = Idle]
         \/ /\ points' = Put(points, new, x)
            /\ \/ /\ reqs' = [reqs EXCEPT ![s] = next]
                  /\ q.r.id = id => ~(q.old.end = q.new.end /\ q.old.tags # q.new.tags)
               \/ /\ reqs' = [reqs EXCEPT ![s] = Idle]
                  /\ q.r.id = id => q.old.end = q.new.end /\ q.old.tags = q.new.tags
  BY <1>1, UpdateEffect
<1>3. q.r.op # "add" /\ (next # Idle => next.r = q.r) /\ Settled(points, reqs, id)
  BY <1>2 DEF Updates, AfterUpdate, Inv, SettledInv
<1>4. PICK job \in {Idle, next} :
         /\ reqs' = [reqs EXCEPT ![s] = job]
         /\ \/ points' = points /\ job = Idle
            \/ /\ points' = Put(points, new, x)
               /\ q.r.id = id => \/ job = next /\ q.old.end # q.new.end
                                 \/ q.old.end = q.new.end /\ q.old.tags = q.new.tags
  BY <1>2
<1>5. CASE q.r.id # id
  <2>1. ~Way(job, id) /\ ~Way(q, id)
    BY <1>3, <1>4, <1>5 DEF Way
  <2> HIDE DEF new, x, next
  <2>3. /\ Alive(points', id) = Alive(points, id)
        /\ \A j \in Alive(points, id) : points'[j] = points[j]
    BY <1>2, <1>4, <1>5, PutOther
  <2>4. Settled(points', [reqs EXCEPT ![s] = job], id)
    BY <1>1, <1>3, <2>1, <2>3, Unmoved
  <2>5. QED
    BY <1>4, <2>4
<1>6. CASE q.r.id = id
  <2>1. Way(q, id) /\ ~Halfway(q)
    BY <1>2, <1>3, <1>6 DEF Way, Halfway
  <2>2. /\ \A t \in Slots : Way(reqs[t], id) => t = s
        /\ \A j, k \in Alive(points, id) : j = k
    BY <1>2, <2>1, AtWork
  <2>3. CASE points' = points /\ job = Idle
    <3>1. ~Way(job, id)
      BY <2>3 DEF Way
    <3>2. Settled(points', [reqs EXCEPT ![s] = job], id)
      BY <1>1, <2>2, <2>3, <3>1, Moved
    <3>3. QED
      BY <1>4, <3>2
  <2>4. CASE points' = Put(points, new, x)
    <3> DEFINE old == KeyOf(id, q.old)
    <3>1. /\ Alive(points', id) = {new, old}
          /\ old # new => points'[old].mod < points'[new].mod
      BY <1>2, <1>6, <2>1, <2>4, UpdateOnSettled
    <3>2. CASE q.old.end = q.new.end /\ q.old.tags = q.new.tags
      <4>1. old = new /\ next = Idle
        BY <1>6, <3>2 DEF KeyOf, AfterUpdate
      <4>2. ~Way(Idle, id) /\ \A j, k \in Alive(points', id) : j = k
        BY <3>1, <4>1 DEF Way
      <4>3. Settled(points', [reqs EXCEPT ![s] = Idle], id)
        BY <1>1, <2>2, <4>2, Moved
      <4>4. QED
        BY <1>4, <4>1, <4>3
    <3>3. CASE job = next /\ q.old.end # q.new.end
      <4>1. next = [at |-> "tombstone", r |-> q.r, old |-> q.old]
        BY <3>3 DEF AfterUpdate
      <4>2. old # new
        BY <3>3 DEF KeyOf
      <4>3. q.r.op = "update"
        BY <1>2 DEF Updates
      <4> HIDE DEF new
      <4>4. Fits(points', next, id) /\ Halfway(next)
        BY <3>1, <4>1, <4>2, <4>3 DEF Fits, Halfway
      <4>5. Way(next, id)
        BY <1>3, <1>6, <4>1 DEF Way, Idle
      <4> HIDE DEF next
      <4>6. Settled(points', [reqs EXCEPT ![s] = next], id)
        BY <1>1, <2>2, <4>4, <4>5, Moved
      <4>7. QED
        BY <1>4, <3>3, <4>6
    <3>4. QED
      BY <1>4, <1>6, <2>3, <3>2, <3>3
  <2>5. QED
    BY <1>4, <2>3, <2>4
<1>7. QED
  BY <1>5, <1>6

\* What the write of a tombstone finds, and leaves.
LEMMA DeleteEffect ==
    ASSUME BaseInv, NEW s \in Slots, Delete(s), NEW q, q = reqs[s],
           NEW k, k = KeyOf(q.r.id, q.old)
    PROVE  /\ q.at = "tombstone" /\ q.r \in Updates \cup Deletes /\ q # Idle
           /\ q.r.id \in given /\ q.old \in Annotation
           /\ k \in Key /\ k.id = q.r.id /\ UNCHANGED given
           /\ GoodPoint(Tombstone) /\ Dead(Tombstone)
           /\ reqs' = [reqs EXCEPT ![s] = Idle]
           /\ \/ /\ points' = points
                 /\ q.r.op = "update" => spoiled' = spoiled \cup {q.r.id}
                 /\ q.r.op # "update" => spoiled' = spoiled
              \/ points' = Put(points, k, Tombstone) /\ spoiled' = spoiled
<1>1. q \in Jobs /\ q.at = "tombstone" /\ UNCHANGED given
  BY DEF BaseInv, Delete
<1>2. q.r \in Updates \cup Deletes /\ q.old \in Annotation /\ q # Idle
  BY <1>1, JobShape DEF Idle
<1>3. q.r.id \in given /\ q.r.id \in Ids
  BY <1>2 DEF BaseInv, Updates, Deletes
<1>4. k \in Key /\ k.id = q.r.id
  BY <1>2, <1>3, KeyType
<1>5. GoodPoint(Tombstone) /\ Dead(Tombstone)
  BY DEF Tombstone, GoodPoint, Dead, BaseInv
<1> DEFINE spoiling == {o \in Outcomes : q.r.op = "update" /\ ~o.written}
<1>6. PICK o \in Outcomes :
         /\ points' = IF o.written THEN Put(points, k, Tombstone) ELSE points
         /\ reqs' = [reqs EXCEPT ![s] = Idle]
         /\ spoiled' = IF o \in spoiling THEN spoiled \cup {k.id} ELSE spoiled
  <2>1. Write(s, k, Tombstone, Idle, spoiling)
    BY DEF Delete
  <2> HIDE DEF spoiling
  <2>2. QED
    BY <2>1, WriteShape
<1>7. CASE o.written
  BY <1>1, <1>2, <1>3, <1>4, <1>5, <1>6, <1>7
<1>8. CASE ~o.written
  BY <1>1, <1>2, <1>3, <1>4, <1>5, <1>6, <1>8
<1>9. QED
  BY <1>7, <1>8

\* On a settled annotation a delete leaves no live point, and an update the one
\* it wrote.
LEMMA DeleteOnSettled ==
    ASSUME Inv, NEW s \in Slots, Delete(s), NEW id \in given \ spoiled,
           Way(reqs[s], id), NEW old, old = KeyOf(id, reqs[s].old),
           points' = Put(points, old, Tombstone)
    PROVE  /\ reqs[s].r.op = "delete" => Alive(points', id) = {}
           /\ reqs[s].r.op = "update" =>
                 \E n : /\ Alive(points, id) = {n, old} /\ Alive(points', id) = {n}
                        /\ Top(points, Alive(points, id)) = n
                        /\ Named(points', n) = Named(points, n)
<1> DEFINE q == reqs[s]
<1>1. BaseInv /\ q.r.id = id
  BY DEF Inv, Way
<1>2. /\ q.at = "tombstone" /\ old \in Key /\ old.id = id
      /\ GoodPoint(Tombstone) /\ Dead(Tombstone)
  BY <1>1, DeleteEffect
<1>3. /\ Fits(points, q, id)
      /\ ~Halfway(q) => \A j, k \in Alive(points, id) : j = k
  BY AtWork
<1>4. Alive(points', id) = Alive(points, id) \ {old}
  BY <1>2, PutDead
<1>5. CASE q.r.op = "delete"
  <2>1. PICK k \in Alive(points, id) : q.old = Named(points, k)
    BY <1>2, <1>3, <1>5 DEF Fits
  <2>2. k = old /\ Alive(points, id) = {k}
    BY <1>1, <1>3, <1>5, <2>1, OnePoint DEF Halfway
  <2>3. QED
    BY <1>4, <1>5, <2>2
<1>6. CASE q.r.op = "update"
  <2>1. PICK n : /\ Alive(points, id) = {n, old} /\ n # old
                 /\ points[old].mod < points[n].mod
    BY <1>2, <1>3, <1>6 DEF Fits, Halfway
  <2>2. \A j \in {n, old} : points[j].mod \in Nat /\ j \in DOMAIN points
    BY <1>1, <2>1 DEF BaseInv, GoodPoints, GoodPoint, Alive
  <2>3. Top(points, {n, old}) = n
    BY <2>1, <2>2, TopIs
  <2>4. points'[n] = points[n]
    BY <2>1, <2>2 DEF Put
  <2>5. Alive(points', id) = {n} /\ Named(points', n) = Named(points, n)
    BY <1>4, <2>1, <2>4 DEF Named
  <2>6. QED
    BY <1>6, <2>1, <2>3, <2>5
<1>7. QED
  BY <1>5, <1>6

LEMMA DeleteSettles ==
    ASSUME Inv, NEW s \in Slots, Delete(s)
    PROVE  SettledInv'
<1> SUFFICES ASSUME NEW id \in given' \ spoiled'
             PROVE  Settled(points', reqs', id)
  BY DEF SettledInv
<1> DEFINE q == reqs[s]
           old == KeyOf(q.r.id, q.old)
<1>1. BaseInv /\ DOMAIN reqs = Slots
  BY DEF Inv, BaseInv
<1>2. /\ q.at = "tombstone" /\ q.r \in Updates \cup Deletes /\ q # Idle
      /\ old \in Key /\ old.id = q.r.id /\ id \in given \ spoiled
      /\ reqs' = [reqs EXCEPT ![s] = Idle]
      /\ \/ points' = points /\ (q.r.id = id => q.r.op # "update")
         \/ points' = Put(points, old, Tombstone)
  BY <1>1, DeleteEffect
<1>3. /\ q.r.op \in {"update", "delete"} /\ Settled(points, reqs, id)
      /\ ~Way(Idle, id)
  BY <1>2 DEF Updates, Deletes, Inv, SettledInv, Way
<1>4. CASE q.r.id # id
  <2>1. ~Way(q, id)
    BY <1>4 DEF Way
  <2> HIDE DEF old
  <2>2. /\ Alive(points', id) = Alive(points, id)
        /\ \A j \in Alive(points, id) : points'[j] = points[j]
    BY <1>2, <1>4, PutOther
  <2>3. Settled(points', [reqs EXCEPT ![s] = Idle], id)
    BY <1>1, <1>3, <2>1, <2>2, Unmoved
  <2>4. QED
    BY <1>2, <2>3
<1>5. CASE q.r.id = id
  <2>1. Way(q, id)
    BY <1>2, <1>3, <1>5 DEF Way
  <2>2. /\ \A t \in Slots : Way(reqs[t], id) => t = s
        /\ ~Halfway(q) => \A j, k \in Alive(points, id) : j = k
    BY <1>2, <2>1, AtWork
  <2>3. \A j, k \in Alive(points', id) : j = k
    <3>1. CASE points' = points /\ q.r.op # "update"
      BY <2>2, <3>1 DEF Halfway
    <3>2. CASE points' = Put(points, old, Tombstone)
      BY <1>2, <1>3, <1>5, <2>1, <3>2, DeleteOnSettled
    <3>3. QED
      BY <1>2, <1>5, <3>1, <3>2
  <2>4. Settled(points', [reqs EXCEPT ![s] = Idle], id)
    BY <1>1, <1>3, <2>2, <2>3, Moved
  <2>5. QED
    BY <1>2, <2>4
<1>6. QED
  BY <1>4, <1>5

LEMMA InvHolds == Spec => []Inv
<1>1. Init => Inv
  <2> SUFFICES ASSUME Init PROVE Inv
    OBVIOUS
  <2>1. DOMAIN points = {} /\ given = {} /\ \A s \in Slots : reqs[s] = Idle
    BY DEF Init
  <2>2. QED
    BY <2>1 DEF Init, Inv, BaseInv, SettledInv, GoodPoints, Jobs
<1>2. Inv /\ [Next]_vars => Inv'
  <2> SUFFICES ASSUME Inv, [Next]_vars PROVE Inv'
    OBVIOUS
  <2>1. BaseInv'
    BY NextKeepsBase DEF Inv
  <2>2. CASE UNCHANGED vars
    BY <2>1, <2>2 DEF vars, Inv, SettledInv
  <2>3. SettledInv'
    BY <2>2, ArriveSettles, AddSettles, GetSettles, UpdateSettles, DeleteSettles
       DEF Next, Inv
  <2>4. QED
    BY <2>1, <2>3 DEF Inv
<1>3. QED
  BY <1>1, <1>2, PTL DEF Spec

-----------------------------------------------------------------------------
(* What readers see. *)

\* Whatever span of time and whichever tags a list asks for, it shows of an
\* annotation what Get finds or nothing, and never an earlier version, between
\* requests that take turns (influx/annotations.go, All and Get).
THEOREM ListsShowTheLatest == Spec => []ListsAgree
<1>1. Inv => ListsAgree
  <2> SUFFICES ASSUME Inv, NEW id \in given \ spoiled,
                      \A s \in Slots : OnItsWay(s, id) => reqs[s].at # "tombstone",
                      NEW window \in SUBSET Times, NEW filter \in SUBSET Tags
               PROVE  Listed(id, window, filter) \subseteq Found(id)
    BY DEF ListsAgree
  <2>1. Settled(points, reqs, id) /\ GoodPoints(points)
    BY DEF Inv, SettledInv, BaseInv
  <2>2. \A s \in Slots : Way(reqs[s], id) => ~Halfway(reqs[s])
    BY DEF OnItsWay, Way, Halfway
  <2>3. \A j, k \in Live(id) : j = k
    BY <2>1, <2>2, Read DEF Settled
  <2> DEFINE found == {k \in Live(id) : k.end \in window /\ k.tags \in filter}
  <2>4. CASE found = {}
    BY <2>4 DEF Listed
  <2>5. CASE found # {}
    <3>1. found = Live(id) /\ Live(id) # {}
      BY <2>3, <2>5
    <3>2. Found(id) = {AnnoOf(Latest(Live(id)))}
      <4>1. {k \in Live(id) : k.end \in Times /\ k.tags \in Tags} = Live(id)
        BY <3>1
      <4>2. QED
        BY <3>1, <4>1 DEF Found, Listed
    <3>3. Listed(id, window, filter) = {AnnoOf(Latest(Live(id)))}
      BY <3>1 DEF Listed
    <3>4. QED
      BY <3>2, <3>3
  <2>6. QED
    BY <2>4, <2>5
<1>2. QED
  BY <1>1, InvHolds, PTL

-----------------------------------------------------------------------------
(* The annotations are a map. *)

\* The request of a slot, and the map, after a step.
LEMMA AskedStep ==
    ASSUME BaseInv, NEW s \in Slots, NEW job, reqs' = [reqs EXCEPT ![s] = job]
    PROVE  /\ Asked' = [Asked EXCEPT ![s] = IF job = Idle THEN [op |-> "none"]
                                                          ELSE job.r]
           /\ Asked[s] = IF reqs[s] = Idle THEN [op |-> "none"] ELSE reqs[s].r
           /\ reqs[s] # Idle /\ job # Idle /\ job.r = reqs[s].r => Asked' = Asked
  BY DEF Asked, BaseInv

LEMMA AnnosAre ==
    ASSUME NEW p, NEW g
    PROVE  /\ \A i : i \in DOMAIN AnnosOf(p, g) <=> i \in g /\ Alive(p, i) # {}
           /\ \A i \in DOMAIN AnnosOf(p, g) :
                 AnnosOf(p, g)[i] = Named(p, Top(p, Alive(p, i)))
  BY DEF AnnosOf

LEMMA AnnosRead == BaseInv => Annos = AnnosOf(points, given)
  BY Read DEF BaseInv

\* What a step leaves of the map.
LEMMA AnnosStep ==
    ASSUME BaseInv, BaseInv', NEW id,
           \A i : i # id => /\ i \in given' <=> i \in given
                            /\ Alive(points', i) = Alive(points, i)
                            /\ \A j \in Alive(points, i) : points'[j] = points[j]
    PROVE  /\ \A i : i # id => (i \in DOMAIN Annos' <=> i \in DOMAIN Annos)
           /\ \A i \in DOMAIN Annos : i # id => Annos'[i] = Annos[i]
           /\ id \in DOMAIN Annos' <=> id \in given' /\ Alive(points', id) # {}
           /\ id \in DOMAIN Annos <=> id \in given /\ Alive(points, id) # {}
           /\ id \in DOMAIN Annos' =>
                 Annos'[id] = Named(points', Top(points', Alive(points', id)))
           /\ id \in DOMAIN Annos =>
                 Annos[id] = Named(points, Top(points, Alive(points, id)))
           /\ DOMAIN Annos' = DOMAIN Annos
              /\ (id \in DOMAIN Annos => Annos'[id] = Annos[id])
              => Annos' = Annos
<1>1. BaseInv' => (Annos = AnnosOf(points, given))'
  BY AnnosRead, PTL
<1>2. Annos = AnnosOf(points, given) /\ Annos' = AnnosOf(points', given')
  BY <1>1, AnnosRead
<1>3. \A j \in DOMAIN points : points[j].mod \in Nat /\ points[j].mod <= clock
  BY DEF BaseInv, GoodPoints, GoodPoint
<1>4. ASSUME NEW i, i # id, Alive(points, i) # {}
      PROVE  Named(points', Top(points', Alive(points', i)))
             = Named(points, Top(points, Alive(points, i)))
  <2>1. clock \in Nat
    BY DEF BaseInv
  <2>2. /\ Alive(points', i) = Alive(points, i)
        /\ \A j \in Alive(points, i) : points'[j] = points[j]
    BY <1>4
  <2>3. QED
    BY <1>3, <1>4, <2>1, <2>2, SameAnno
<1>5. /\ \A i : i \in DOMAIN Annos <=> i \in given /\ Alive(points, i) # {}
      /\ \A i \in DOMAIN Annos :
            Annos[i] = Named(points, Top(points, Alive(points, i)))
  BY <1>2, AnnosAre
<1>6. /\ \A i : i \in DOMAIN Annos' <=> i \in given' /\ Alive(points', i) # {}
      /\ \A i \in DOMAIN Annos' :
            Annos'[i] = Named(points', Top(points', Alive(points', i)))
  BY <1>2, AnnosAre
<1>7. \A i : i # id => (i \in DOMAIN Annos' <=> i \in DOMAIN Annos)
  BY <1>5, <1>6
<1>8. \A i \in DOMAIN Annos : i # id => Annos'[i] = Annos[i]
  BY <1>4, <1>5, <1>6, <1>7
<1>9. ASSUME DOMAIN Annos' = DOMAIN Annos,
             id \in DOMAIN Annos => Annos'[id] = Annos[id]
      PROVE  Annos' = Annos
  <2>1. \A i \in DOMAIN Annos : Annos'[i] = Annos[i]
    BY <1>8, <1>9
  <2>2. Annos = [i \in DOMAIN Annos |-> Annos[i]]
        /\ Annos' = [i \in DOMAIN Annos' |-> Annos'[i]]
    BY <1>2 DEF AnnosOf
  <2>3. QED
    BY <1>9, <2>1, <2>2
<1>10. QED
  BY <1>5, <1>6, <1>7, <1>8, <1>9

LEMMA SameAnnos ==
    ASSUME BaseInv, BaseInv', UNCHANGED <<points, given>>
    PROVE  UNCHANGED Annos
<1>1. BaseInv' => (Annos = AnnosOf(points, given))'
  BY AnnosRead, PTL
<1>2. QED
  BY <1>1, AnnosRead

LEMMA ArriveMaps ==
    ASSUME BaseInv, BaseInv', NEW s \in Slots, Arrive(s)
    PROVE  Map!Ask(s)
<1>1. PICK r : reqs' = [reqs EXCEPT ![s] =
                          [at |-> IF r.op = "add" THEN "add" ELSE "get", r |-> r]]
  BY DEF Arrive
<1>2. reqs[s] = Idle /\ UNCHANGED <<points, given>> /\ spoiled \subseteq spoiled'
  BY DEF Arrive
<1>3. Asked[s] = Map!NoRequest /\ \E a : Asked' = [Asked EXCEPT ![s] = a]
  BY <1>1, <1>2, AskedStep DEF Map!NoRequest
<1>4. Asked' = [Asked EXCEPT ![s] = Asked'[s]]
  BY <1>3 DEF Asked
<1>5. QED
  BY <1>2, <1>3, <1>4, SameAnnos DEF Map!Ask

\* A request that ends and has changed nothing.
LEMMA AnswerMaps ==
    ASSUME BaseInv, NEW s \in Slots, UNCHANGED Annos, spoiled \subseteq spoiled',
           reqs' = [reqs EXCEPT ![s] = Idle]
    PROVE  Map!Answer(s)
  BY AskedStep DEF Map!Answer, Map!NoRequest

LEMMA ReadMaps ==
    ASSUME BaseInv, BaseInv', NEW s \in Slots, Get(s) \/ GetOld(s)
    PROVE  Map!Answer(s) \/ UNCHANGED Map!vars
<1>1. /\ reqs[s] # Idle /\ UNCHANGED <<points, given, spoiled>>
  BY DEF Get, GetOld, Idle
<1>2. PICK job : /\ reqs' = [reqs EXCEPT ![s] = job]
                 /\ job # Idle => job.r = reqs[s].r
  <2>1. CASE reqs' = [reqs EXCEPT ![s] = Idle]
    BY <2>1
  <2>2. ASSUME NEW cur, NEW at, NEW new, NEW old,
               \/ Goto(s, [at |-> at, r |-> reqs[s].r, old |-> old])
               \/ Goto(s, [at |-> at, r |-> reqs[s].r, new |-> new])
               \/ Goto(s, [at |-> at, r |-> reqs[s].r, new |-> new, old |-> old])
        PROVE  \E job : /\ reqs' = [reqs EXCEPT ![s] = job]
                        /\ job # Idle => job.r = reqs[s].r
    BY <2>2 DEF Goto
  <2>3. QED
    BY <2>1, <2>2 DEF Get, GetOld, Goto
<1>3. UNCHANGED Annos
  BY <1>1, SameAnnos
<1>4. CASE job = Idle
  BY <1>1, <1>2, <1>3, <1>4, AnswerMaps
<1>5. CASE job # Idle
  BY <1>1, <1>2, <1>3, <1>5, AskedStep DEF Map!vars
<1>6. QED
  BY <1>4, <1>5

LEMMA AddMaps ==
    ASSUME Inv, BaseInv', NEW s \in Slots, Add(s)
    PROVE  Map!Answer(s) \/ Map!Effect(s)
<1> DEFINE q == reqs[s]
<1>1. /\ BaseInv /\ q \in Jobs /\ q.r.op = "add" /\ q # Idle
      /\ q.r.anno \in Annotation
  BY JobShape DEF Inv, BaseInv, Add, Idle
<1>2. PICK new \in Ids \ given :
         /\ given' = given \cup {new}
         /\ Write(s, KeyOf(new, q.r.anno), ToPoint(q.r.anno), Idle, {})
  BY DEF Add
<1> DEFINE k == KeyOf(new, q.r.anno)
           x == ToPoint(q.r.anno)
<1>3. /\ points' = points \/ points' = Put(points, k, x)
      /\ reqs' = [reqs EXCEPT ![s] = Idle] /\ spoiled' = spoiled
  BY <1>2, WriteShape
<1>4. /\ k \in Key /\ k.id = new /\ GoodPoint(x) /\ ~Dead(x)
      /\ x.text = q.r.anno.text /\ x.mod \in Nat
  BY <1>1, KeyType DEF ToPoint, Annotation, GoodPoint, Dead, BaseInv
<1>5. Alive(points, new) = {}
  BY <1>1, <1>2 DEF BaseInv, Alive
<1>6. k.end = q.r.anno.end /\ k.tags = q.r.anno.tags
  BY DEF KeyOf
<1> HIDE DEF k, x
<1>7. \A i : i # new => /\ i \in given' <=> i \in given
                        /\ Alive(points', i) = Alive(points, i)
                        /\ \A j \in Alive(points, i) : points'[j] = points[j]
  BY <1>2, <1>3, <1>4, PutOther
<1>8. CASE points' = points
  <2>1. new \notin DOMAIN Annos /\ DOMAIN Annos' = DOMAIN Annos
    BY <1>1, <1>2, <1>5, <1>7, <1>8, AnnosStep
  <2>2. UNCHANGED Annos
    BY <1>1, <1>7, <2>1, AnnosStep
  <2>3. QED
    BY <1>1, <1>3, <2>2, AnswerMaps
<1>9. CASE points' = Put(points, k, x)
  <2>1. Alive(points', new) = {k}
    BY <1>4, <1>5, <1>9, PutLive
  <2>2. points'[k] = x
    BY <1>9 DEF Put
  <2>3. Top(points', {k}) = k
    <3>1. \A j \in {k} : points'[j].mod \in Nat
      BY <1>4, <2>2
    <3>2. QED
      BY <3>1, TopIs
  <2>4. Named(points', k) = q.r.anno
    BY <1>1, <1>4, <1>6, <2>2 DEF Named, Annotation
  <2>5. /\ new \in DOMAIN Annos' \ DOMAIN Annos /\ Annos'[new] = q.r.anno
        /\ DOMAIN Annos' = DOMAIN Annos \cup {new}
        /\ \A i \in DOMAIN Annos : Annos'[i] = Annos[i]
    <3>1. /\ \A i : i # new => (i \in DOMAIN Annos' <=> i \in DOMAIN Annos)
          /\ \A i \in DOMAIN Annos : i # new => Annos'[i] = Annos[i]
          /\ new \in DOMAIN Annos' <=> new \in given' /\ Alive(points', new) # {}
          /\ new \in DOMAIN Annos <=> new \in given /\ Alive(points, new) # {}
          /\ new \in DOMAIN Annos' =>
                Annos'[new] = Named(points', Top(points', Alive(points', new)))
          /\ new \in DOMAIN Annos =>
                Annos[new] = Named(points, Top(points, Alive(points, new)))
      BY <1>1, <1>7, AnnosStep
    <3>2. new \in DOMAIN Annos' \ DOMAIN Annos /\ Annos'[new] = q.r.anno
      BY <1>2, <2>1, <2>3, <2>4, <3>1
    <3>3. QED
      BY <3>1, <3>2
  <2>6. Asked[s] = q.r /\ Asked' = [Asked EXCEPT ![s] = Map!NoRequest]
    BY <1>1, <1>3, AskedStep DEF Map!NoRequest
  <2>7. Map!Add(s)
    BY <1>1, <2>5, <2>6 DEF Map!Add
  <2>8. QED
    BY <1>3, <2>6, <2>7 DEF Map!Effect
<1>10. QED
  BY <1>3, <1>8, <1>9

\* A request for an annotation of which nothing is promised.
LEMMA MuddleMaps ==
    ASSUME BaseInv, BaseInv', NEW s \in Slots, reqs[s] # Idle,
           reqs[s].r.op \in {"update", "delete"}, reqs[s].r.id \in spoiled,
           NEW job, reqs' = [reqs EXCEPT ![s] = job],
           job # Idle => job.r = reqs[s].r,
           spoiled \subseteq spoiled',
           \A i : i # reqs[s].r.id =>
                     /\ i \in given' <=> i \in given
                     /\ Alive(points', i) = Alive(points, i)
                     /\ \A j \in Alive(points, i) : points'[j] = points[j]
    PROVE  Map!Muddle(s)
<1> DEFINE id == reqs[s].r.id
<1>1. Asked[s] = reqs[s].r /\ Asked' \in {Asked, [Asked EXCEPT ![s] = Map!NoRequest]}
  BY AskedStep DEF Map!NoRequest
<1>2. /\ \A i : i # id => (i \in DOMAIN Annos' <=> i \in DOMAIN Annos)
      /\ \A i \in DOMAIN Annos : i # id => Annos'[i] = Annos[i]
  <2> HIDE DEF id
  <2> QED BY AnnosStep DEF id
<1>3. QED
  BY <1>1, <1>2 DEF Map!Muddle

\* An update changes the annotation with its first write.
LEMMA UpdateMaps ==
    ASSUME Inv, BaseInv', NEW s \in Slots, Update(s)
    PROVE  Map!Answer(s) \/ Map!Effect(s) \/ Map!Muddle(s)
<1> DEFINE q == reqs[s]
           id == q.r.id
           new == KeyOf(id, q.new)
           x == ToPoint(q.new)
           next == AfterUpdate(q.r, q.old, q.new)
<1>1. /\ BaseInv /\ q.at = "write" /\ q.r \in Updates /\ q # Idle
      /\ id \in given /\ new \in Key /\ new.id = id /\ UNCHANGED given
      /\ GoodPoint(x) /\ ~Dead(x) /\ spoiled \subseteq spoiled'
      /\ \/ points' = points /\ reqs' = [reqs EXCEPT ![s] = Idle]
         \/ /\ points' = Put(points, new, x)
            /\ \/ reqs' = [reqs EXCEPT ![s] = next]
               \/ reqs' = [reqs EXCEPT ![s] = Idle]
  BY UpdateEffect DEF Inv
<1>2. q.r.op = "update" /\ (next # Idle => next.r = q.r)
  BY <1>1 DEF Updates, AfterUpdate
<1>3. PICK job : reqs' = [reqs EXCEPT ![s] = job] /\ (job # Idle => job.r = q.r)
  BY <1>1, <1>2
<1>4. CASE points' = points /\ reqs' = [reqs EXCEPT ![s] = Idle]
  BY <1>1, <1>4, SameAnnos, AnswerMaps
<1>5. CASE points' = Put(points, new, x)
  <2>1. \A i : i # id => /\ i \in given' <=> i \in given
                         /\ Alive(points', i) = Alive(points, i)
                         /\ \A j \in Alive(points, i) : points'[j] = points[j]
    <3> HIDE DEF new, x, id
    <3> QED BY <1>1, <1>5, PutOther
  <2>2. CASE id \in spoiled
    BY <1>1, <1>2, <1>3, <2>1, <2>2, MuddleMaps
  <2>3. CASE id \notin spoiled
    <3>1. Way(q, id)
      BY <1>1, <1>2 DEF Way
    <3>2. /\ Alive(points, id) = {KeyOf(id, q.old)}
          /\ Alive(points', id) = {new, KeyOf(id, q.old)}
          /\ Top(points', Alive(points', id)) = new
          /\ Named(points', new) = q.new
          /\ q.new = Applied(q.r.change, Named(points, Top(points, Alive(points, id))))
      BY <1>1, <1>5, <2>3, <3>1, UpdateOnSettled
    <3>3. /\ id \in DOMAIN Annos /\ id \in DOMAIN Annos'
          /\ Annos'[id] = Applied(q.r.change, Annos[id])
          /\ \A i : i # id => (i \in DOMAIN Annos' <=> i \in DOMAIN Annos)
          /\ \A i \in DOMAIN Annos : i # id => Annos'[i] = Annos[i]
      <4> HIDE DEF new, id
      <4>1. /\ \A i : i # id => (i \in DOMAIN Annos' <=> i \in DOMAIN Annos)
            /\ \A i \in DOMAIN Annos : i # id => Annos'[i] = Annos[i]
            /\ id \in DOMAIN Annos' <=> id \in given' /\ Alive(points', id) # {}
            /\ id \in DOMAIN Annos <=> id \in given /\ Alive(points, id) # {}
            /\ id \in DOMAIN Annos' =>
                  Annos'[id] = Named(points', Top(points', Alive(points', id)))
            /\ id \in DOMAIN Annos =>
                  Annos[id] = Named(points, Top(points, Alive(points, id)))
        BY <1>1, <2>1, AnnosStep
      <4>2. id \in DOMAIN Annos /\ id \in DOMAIN Annos'
        BY <1>1, <3>2, <4>1
      <4>3. Annos'[id] = Applied(q.r.change, Annos[id])
        BY <3>2, <4>1, <4>2
      <4>4. QED
        BY <4>1, <4>2, <4>3
    <3>4. Asked[s] = q.r /\ Asked' \in {Asked, [Asked EXCEPT ![s] = Map!NoRequest]}
      BY <1>1, <1>3, AskedStep DEF Map!NoRequest
    <3>5. \A a : Applied(q.r.change, a) = Map!With(a, q.r.change)
      BY DEF Applied, Or, Map!With, Map!Or
    <3>6. Map!Change(s)
      <4>1. DOMAIN Annos' = DOMAIN Annos
        BY <3>3
      <4>2. /\ Annos = [i \in DOMAIN Annos |-> Annos[i]]
            /\ Annos' = [i \in DOMAIN Annos' |-> Annos'[i]]
        BY DEF Annos
      <4>3. Annos' = [Annos EXCEPT ![id] = Map!With(Annos[id], q.r.change)]
        <5> HIDE DEF id
        <5> QED BY <3>3, <3>5, <4>1, <4>2
      <4>4. QED
        BY <1>2, <3>3, <3>4, <4>3 DEF Map!Change
    <3>7. QED
      BY <1>1, <3>4, <3>6 DEF Map!Effect
  <2>4. QED
    BY <2>2, <2>3
<1>6. QED
  BY <1>1, <1>4, <1>5

\* A delete removes it with its tombstone, which changes nothing after an update.
LEMMA DeleteMaps ==
    ASSUME Inv, BaseInv', NEW s \in Slots, Delete(s)
    PROVE  Map!Answer(s) \/ Map!Effect(s) \/ Map!Muddle(s)
<1> DEFINE q == reqs[s]
           id == q.r.id
           old == KeyOf(id, q.old)
<1>1. /\ BaseInv /\ q.at = "tombstone" /\ q.r \in Updates \cup Deletes /\ q # Idle
      /\ id \in given /\ old \in Key /\ old.id = id /\ UNCHANGED given
      /\ spoiled \subseteq spoiled' /\ reqs' = [reqs EXCEPT ![s] = Idle]
      /\ points' = points \/ points' = Put(points, old, Tombstone)
  BY DeleteEffect DEF Inv
<1>2. q.r.op \in {"update", "delete"}
  BY <1>1 DEF Updates, Deletes
<1>3. Asked[s] = q.r /\ Asked' = [Asked EXCEPT ![s] = Map!NoRequest]
  BY <1>1, AskedStep DEF Map!NoRequest
<1>4. CASE points' = points
  BY <1>1, <1>4, SameAnnos, AnswerMaps
<1>5. CASE points' = Put(points, old, Tombstone)
  <2>1. \A i : i # id => /\ i \in given' <=> i \in given
                         /\ Alive(points', i) = Alive(points, i)
                         /\ \A j \in Alive(points, i) : points'[j] = points[j]
    <3> HIDE DEF old, id
    <3> QED BY <1>1, <1>5, PutOther
  <2>2. CASE id \in spoiled
    BY <1>1, <1>2, <2>1, <2>2, MuddleMaps
  <2>3. CASE id \notin spoiled
    <3>1. Way(q, id)
      BY <1>1, <1>2 DEF Way
    <3>2. /\ q.r.op = "delete" => Alive(points', id) = {}
          /\ q.r.op = "update" =>
                \E n : /\ Alive(points, id) = {n, old} /\ Alive(points', id) = {n}
                       /\ Top(points, Alive(points, id)) = n
                       /\ Named(points', n) = Named(points, n)
      BY <1>1, <1>5, <2>3, <3>1, DeleteOnSettled
    <3>3. CASE q.r.op = "delete"
      <4>1. /\ id \notin DOMAIN Annos'
            /\ \A i : i # id => (i \in DOMAIN Annos' <=> i \in DOMAIN Annos)
            /\ \A i \in DOMAIN Annos : i # id => Annos'[i] = Annos[i]
        <5> HIDE DEF id
        <5> QED BY <1>1, <2>1, <3>2, <3>3, AnnosStep
      <4>2. DOMAIN Annos' = DOMAIN Annos \ {id}
        <5> HIDE DEF id
        <5> QED BY <4>1
      <4>3. Annos' = [i \in DOMAIN Annos' |-> Annos'[i]]
        BY DEF Annos
      <4>4. Annos' = [i \in DOMAIN Annos \ {id} |-> Annos[i]]
        <5> HIDE DEF id
        <5> QED BY <4>1, <4>2, <4>3
      <4>5. QED
        BY <1>1, <1>3, <3>3, <4>4 DEF Map!Effect, Map!Remove
    <3>4. CASE q.r.op = "update"
      <4>1. PICK n : /\ Alive(points, id) = {n, old} /\ Alive(points', id) = {n}
                     /\ Top(points, Alive(points, id)) = n
                     /\ Named(points', n) = Named(points, n)
        BY <3>2, <3>4
      <4>2. /\ clock' \in Nat /\ n \in DOMAIN points'
            /\ points'[n].mod \in Nat
        BY <1>1, <4>1 DEF BaseInv, Alive, GoodPoints, GoodPoint
      <4>3. Top(points', {n}) = n
        <5>1. \A j \in {n} : points'[j].mod \in Nat
          BY <4>2
        <5>2. QED
          BY <5>1, TopIs
      <4>4. UNCHANGED Annos
        <5>1. /\ \A i : i # id => (i \in DOMAIN Annos' <=> i \in DOMAIN Annos)
              /\ id \in DOMAIN Annos' /\ id \in DOMAIN Annos
              /\ Annos'[id] = Annos[id]
              /\ DOMAIN Annos' = DOMAIN Annos
                 /\ (id \in DOMAIN Annos => Annos'[id] = Annos[id])
                 => Annos' = Annos
          <6> HIDE DEF id, old
          <6> QED BY <1>1, <2>1, <4>1, <4>3, AnnosStep
        <5>2. DOMAIN Annos' = DOMAIN Annos
          <6> HIDE DEF id
          <6> QED BY <5>1
        <5>3. QED
          BY <5>1, <5>2
      <4>5. QED
        BY <1>1, <4>4, AnswerMaps
    <3>5. QED
      BY <1>2, <3>3, <3>4
  <2>4. QED
    BY <2>2, <2>3
<1>6. QED
  BY <1>1, <1>4, <1>5

\* The points and the handlers implement a map: each request takes effect in one
\* step, between its arrival and its answer, or not at all, on annotations that
\* requests take turns on, whose tags stay and on which no write fails halfway
\* (influx/annotations.go, Add, Update and Delete).
THEOREM AnnotationsAreAMap == Spec => IsMap
<1>1. Init => Map!Init
  <2> SUFFICES ASSUME Init PROVE Map!Init
    OBVIOUS
  <2>1. Asked = [s \in Slots |-> Map!NoRequest]
    BY DEF Init, Asked, Map!NoRequest
  <2>2. Annos = << >>
    BY DEF Init, Annos
  <2>3. QED
    BY <2>1, <2>2 DEF Init, Map!Init
<1>2. Inv /\ BaseInv' /\ [Next]_vars => [Map!Next]_(Map!vars)
  <2> SUFFICES ASSUME Inv, BaseInv', [Next]_vars
               PROVE  Map!Next \/ UNCHANGED Map!vars
    OBVIOUS
  <2>1. BaseInv
    BY DEF Inv
  <2>2. CASE UNCHANGED vars
    <3>1. UNCHANGED Annos
      BY <2>1, <2>2, SameAnnos DEF vars
    <3>2. UNCHANGED <<Asked, spoiled>>
      BY <2>2 DEF vars, Asked
    <3>3. QED
      BY <3>1, <3>2 DEF Map!vars
  <2>3. ASSUME NEW s \in Slots, Arrive(s) PROVE Map!Next
    BY <2>1, <2>3, ArriveMaps DEF Map!Next
  <2>4. ASSUME NEW s \in Slots, Add(s) PROVE Map!Next
    BY <2>4, AddMaps DEF Map!Next
  <2>5. ASSUME NEW s \in Slots, Get(s) \/ GetOld(s)
        PROVE  Map!Next \/ UNCHANGED Map!vars
    BY <2>1, <2>5, ReadMaps DEF Map!Next
  <2>6. ASSUME NEW s \in Slots, Update(s) PROVE Map!Next
    BY <2>6, UpdateMaps DEF Map!Next
  <2>7. ASSUME NEW s \in Slots, Delete(s) PROVE Map!Next
    BY <2>7, DeleteMaps DEF Map!Next
  <2>8. QED
    BY <2>2, <2>3, <2>4, <2>5, <2>6, <2>7 DEF Next
<1>3. Inv => BaseInv
  BY DEF Inv
<1>4. QED
  BY <1>1, <1>2, <1>3, InvHolds, PTL DEF Spec, IsMap, Map!Spec

=============================================================================
