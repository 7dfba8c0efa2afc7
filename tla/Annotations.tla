----------------------------- MODULE Annotations -----------------------------
(***************************************************************************)
(* Annotations (influx/annotations.go and server/annotations.go).  They    *)
(* are points of a time series database, which knows a point by its tags   *)
(* and its time and can only write one over another.  The time of a point  *)
(* is the end of its annotation, and the tags of the annotation are tags   *)
(* of the point besides its id: an update may have to write a new point,   *)
(* and a tombstone over the old one, and readers have to choose.           *)
(***************************************************************************)
EXTENDS Naturals, FiniteSets

CONSTANTS
    Slots,     \* requests the server works on at the same time
    Ids,       \* bound: the ids there are to generate
    Times,     \* when an annotation can end
    Tags,      \* the tags an annotation can have
    Texts,     \* its text and when it started
    Unset,     \* a field that an update leaves alone
    Faults,    \* does the database fail?
    MaxClock   \* bound on the writes

ASSUME AnnotationsAssumption ==
    /\ Unset \notin Times \cup Tags \cup Texts
    /\ Faults \in BOOLEAN
    /\ MaxClock \in Nat

VARIABLES
    points,   \* the points of the measurement, by what the database knows them by
    clock,    \* time.Now, in the order of the writes
    given,    \* the ids that were generated
    reqs,     \* what each slot works on
    spoiled   \* history: annotations the promise of AnnotationMap does not cover

vars == <<points, clock, given, reqs, spoiled>>

-----------------------------------------------------------------------------
Annotation == [end : Times, tags : Tags, text : Texts]
Key == [id : Ids, end : Times, tags : Tags]
Point == [deleted : BOOLEAN, mod : 1..MaxClock, text : Texts \cup {Unset}]

\* An update names an end, a start or a text (updateAnnotationRequest).
Change == {c \in [end : Times \cup {Unset}, tags : Tags \cup {Unset}, text : Texts \cup {Unset}] :
             c.end # Unset \/ c.text # Unset}

Idle == [at |-> "idle"]

Requests == [op : {"add"}, anno : Annotation]
            \cup [op : {"update"}, id : given, change : Change]
            \cup [op : {"delete"}, id : given]

KeyOf(id, anno) == [id |-> id, end |-> anno.end, tags |-> anno.tags]
AnnoOf(k) == [end |-> k.end, tags |-> k.tags, text |-> points[k].text]

\* The queries see no tombstones.
Live(id) == {k \in DOMAIN points : k.id = id /\ ~points[k].deleted}

\* influxResults.Annotations: of the points of one id, the one modified last.
Latest(found) == CHOOSE k \in found : \A j \in found : points[j].mod <= points[k].mod

\* AnnotationStore.All, for one id: the times and the tags that a list asks for.
Listed(id, window, filter) ==
  LET found == {k \in Live(id) : k.end \in window /\ k.tags \in filter} IN
  IF found = {} THEN {} ELSE {AnnoOf(Latest(found))}

\* AnnotationStore.Get.
Found(id) == Listed(id, Times, Tags)

\* toPoint and toDeletedPoint.
ToPoint(anno) == [deleted |-> FALSE, mod |-> clock + 1, text |-> anno.text]
Tombstone == [deleted |-> TRUE, mod |-> clock + 1, text |-> Unset]

\* UpdateAnnotation: the fields that the request sets.
Or(new, old) == IF new = Unset THEN old ELSE new
Applied(change, cur) ==
  [end |-> Or(change.end, cur.end), tags |-> Or(change.tags, cur.tags),
   text |-> Or(change.text, cur.text)]

-----------------------------------------------------------------------------
Init ==
  /\ points = << >>
  /\ clock = 0
  /\ given = {}
  /\ reqs = [s \in Slots |-> Idle]
  /\ spoiled = {}

OnItsWay(s, id) == reqs[s] # Idle /\ reqs[s].r.op # "add" /\ reqs[s].r.id = id

\* A request arrives. Those that meet on one annotation may spoil it.
Arrive(s) ==
  /\ reqs[s] = Idle
  /\ \E r \in Requests :
       /\ reqs' = [reqs EXCEPT ![s] =
            [at |-> IF r.op = "add" THEN "add" ELSE "get", r |-> r]]
       /\ spoiled' = IF r.op # "add" /\ \E t \in Slots : OnItsWay(t, r.id)
                     THEN spoiled \cup {r.id} ELSE spoiled
  /\ UNCHANGED <<points, clock, given>>

Goto(s, rec) == reqs' = [reqs EXCEPT ![s] = rec]

\* client.Write: the point is written, or there is an error, and the point may
\* have been written all the same.
Outcomes == {o \in [written : BOOLEAN, ok : BOOLEAN] :
               (o.written \/ ~o.ok) /\ (Faults \/ o.ok)}

\* The request goes on to next, or ends with the error. The outcomes in spoiling
\* leave another version of the annotation behind.
Write(s, k, p, next, spoiling) ==
  /\ clock < MaxClock
  /\ clock' = clock + 1
  /\ \E o \in Outcomes :
       /\ points' = IF o.written THEN [j \in DOMAIN points \cup {k} |->
                                         IF j = k THEN p ELSE points[j]]
                                 ELSE points
       /\ Goto(s, IF o.ok THEN next ELSE Idle)
       /\ spoiled' = IF o \in spoiling THEN spoiled \cup {k.id} ELSE spoiled

\* AnnotationStore.Add.
Add(s) ==
  /\ reqs[s].at = "add"
  /\ \E id \in Ids \ given :
       /\ given' = given \cup {id}
       /\ Write(s, KeyOf(id, reqs[s].r.anno), ToPoint(reqs[s].r.anno), Idle, {})

\* The Get of UpdateAnnotation, and that of AnnotationStore.Delete.
Get(s) ==
  LET r == reqs[s].r IN
  /\ reqs[s].at = "get"
  /\ \/ \E cur \in Found(r.id) :
          Goto(s, IF r.op = "delete"
                  THEN [at |-> "tombstone", r |-> r, old |-> cur]
                  ELSE [at |-> "getOld", r |-> r, new |-> Applied(r.change, cur)])
     \/ (Found(r.id) = {} \/ Faults) /\ Goto(s, Idle)
  /\ UNCHANGED <<points, clock, given, spoiled>>

\* The Get of AnnotationStore.Update.
GetOld(s) ==
  LET r == reqs[s].r IN
  /\ reqs[s].at = "getOld"
  /\ \/ \E cur \in Found(r.id) :
          Goto(s, [at |-> "write", r |-> r, new |-> reqs[s].new, old |-> cur])
     \/ (Found(r.id) = {} \/ Faults) /\ Goto(s, Idle)
  /\ UNCHANGED <<points, clock, given, spoiled>>

\* Mutant: no tombstone is written for the old point.
AfterUpdateNothing(r, old, new) == Idle

\* Mutant: the tombstone goes over the new point.
AfterUpdateNew(r, old, new) ==
  IF old.end # new.end THEN [at |-> "tombstone", r |-> r, old |-> new] ELSE Idle

\* If the annotation has another time now, the previous one must be deleted.
AfterUpdate(r, old, new) ==
  IF old.end # new.end THEN [at |-> "tombstone", r |-> r, old |-> old] ELSE Idle

\* AnnotationStore.Update: the new point. The old one stays behind when only the
\* tags differ, or when the request ends in an error.
Update(s) ==
  LET r == reqs[s].r
      new == reqs[s].new
      old == reqs[s].old
      spoiling == {o \in Outcomes :
                     o.written /\ \/ old.end # new.end /\ ~o.ok
                                  \/ old.end = new.end /\ old.tags # new.tags} IN
  /\ reqs[s].at = "write"
  /\ Write(s, KeyOf(r.id, new), ToPoint(new), AfterUpdate(r, old, new), spoiling)
  /\ UNCHANGED given

\* The tombstone over the old point.
Delete(s) ==
  LET spoiling == {o \in Outcomes : reqs[s].r.op = "update" /\ ~o.written} IN
  /\ reqs[s].at = "tombstone"
  /\ Write(s, KeyOf(reqs[s].r.id, reqs[s].old), Tombstone, Idle, spoiling)
  /\ UNCHANGED given

Next == \E s \in Slots : Arrive(s) \/ Add(s) \/ Get(s) \/ GetOld(s) \/ Update(s) \/ Delete(s)

Spec == Init /\ [][Next]_vars

-----------------------------------------------------------------------------
TypeOK ==
  /\ DOMAIN points \subseteq Key
  /\ \A k \in DOMAIN points : points[k] \in Point /\ k.id \in given
  /\ clock \in 0..MaxClock
  /\ given \subseteq Ids
  /\ spoiled \subseteq given
  /\ \A s \in Slots : reqs[s] # Idle =>
       /\ reqs[s].at \in {"add", "get", "getOld", "write", "tombstone"}
       /\ reqs[s].at \in {"getOld", "write"} => reqs[s].new \in Annotation
       /\ reqs[s].at \in {"write", "tombstone"} => reqs[s].old \in Annotation

\* Whatever span of time and whichever tags a list asks for, it shows of an
\* annotation what Get finds or nothing: never an earlier version (the choice
\* by modification time in influxResults.Annotations sees only what the query
\* found). Between the two writes of an update it may.
ListsAgree ==
  \A id \in given \ spoiled :
     (\A s \in Slots : OnItsWay(s, id) => reqs[s].at # "tombstone")
       => \A window \in SUBSET Times, filter \in SUBSET Tags :
            Listed(id, window, filter) \subseteq Found(id)

\* The annotations are a map in which every request takes effect at once: an
\* update with its first write, a delete with its tombstone.
Annos == [id \in {i \in given : Found(i) # {}} |-> AnnoOf(Latest(Live(id)))]
Asked == [s \in Slots |-> IF reqs[s] = Idle THEN [op |-> "none"] ELSE reqs[s].r]

Map == INSTANCE AnnotationMap WITH Clients <- Slots, annos <- Annos, asked <- Asked

IsMap == Map!Spec

\* Delete removes the annotation from the store (annotations.go:89), as long as
\* nothing else is at work on it.
DeleteRemoves ==
  [][\A s \in Slots, id \in given :
       /\ OnItsWay(s, id) /\ reqs[s].r.op = "delete" /\ Delete(s)
       /\ \A t \in Slots \ {s} : ~OnItsWay(t, id)
       => Found(id)' = {}]_vars

=============================================================================
