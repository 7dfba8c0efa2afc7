---------------------------- MODULE AnnotationMap ----------------------------
(***************************************************************************)
(* What annotations promise: a map from ids to annotations, in which a     *)
(* request to add, change or remove one takes effect in one step, or, when *)
(* it is answered with an error, not at all.  An annotation is kept as     *)
(* several points of a time series (module Annotations), and what the      *)
(* promise does not cover is spoiled: one that requests fought over, that  *)
(* got other tags, or on which a write failed halfway.                     *)
(***************************************************************************)
CONSTANTS Clients, Unset

VARIABLES annos,   \* the annotations, by id
          asked,   \* the request of each client, or NoRequest
          spoiled  \* ids of which nothing is promised any more

vars == <<annos, asked, spoiled>>

NoRequest == [op |-> "none"]

Or(new, old) == IF new = Unset THEN old ELSE new

\* The annotation a with the fields of change that are set.
With(a, change) ==
  [end |-> Or(change.end, a.end), tags |-> Or(change.tags, a.tags),
   text |-> Or(change.text, a.text)]

Init ==
  /\ annos = << >>
  /\ asked = [c \in Clients |-> NoRequest]
  /\ spoiled = {}

Ask(c) ==
  /\ asked[c] = NoRequest
  /\ asked' = [asked EXCEPT ![c] = asked'[c]]
  /\ UNCHANGED annos
  /\ spoiled \subseteq spoiled'

\* The answer, after the effect or without one.
Answer(c) ==
  /\ asked' = [asked EXCEPT ![c] = NoRequest]
  /\ UNCHANGED annos
  /\ spoiled \subseteq spoiled'

Add(c) ==
  LET r == asked[c] IN
  /\ r.op = "add"
  /\ \E id \in DOMAIN annos' \ DOMAIN annos :
        /\ DOMAIN annos' = DOMAIN annos \cup {id}
        /\ annos'[id] = r.anno
        /\ \A i \in DOMAIN annos : annos'[i] = annos[i]

Change(c) ==
  LET r == asked[c] IN
  /\ r.op = "update" /\ r.id \in DOMAIN annos
  /\ annos' = [annos EXCEPT ![r.id] = With(@, r.change)]

Remove(c) ==
  LET r == asked[c] IN
  /\ r.op = "delete"
  /\ annos' = [i \in DOMAIN annos \ {r.id} |-> annos[i]]

Effect(c) ==
  /\ Add(c) \/ Change(c) \/ Remove(c)
  /\ asked' \in {asked, [asked EXCEPT ![c] = NoRequest]}
  /\ spoiled \subseteq spoiled'

\* A request for a spoiled annotation may do anything to that one.
Muddle(c) ==
  LET r == asked[c] IN
  /\ r.op \in {"update", "delete"} /\ r.id \in spoiled
  /\ DOMAIN annos' \ {r.id} = DOMAIN annos \ {r.id}
  /\ \A i \in DOMAIN annos \ {r.id} : annos'[i] = annos[i]
  /\ asked' \in {asked, [asked EXCEPT ![c] = NoRequest]}
  /\ spoiled \subseteq spoiled'

Next == \E c \in Clients : Ask(c) \/ Answer(c) \/ Effect(c) \/ Muddle(c)

Spec == Init /\ [][Next]_vars
=============================================================================
