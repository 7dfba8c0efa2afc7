--------------------------- MODULE DashboardEdits ---------------------------
(***************************************************************************)
(* What the dashboards of a server promise to those who edit them.  A      *)
(* client asks for an edit and the edit happens in one step: what it names *)
(* changes, and nothing else does.  A dashboard is the set of its items    *)
(* here, whatever their order.                                             *)
(*                                                                         *)
(* The server (module Dashboards) reads a dashboard, changes it and writes *)
(* all of it back.  So the promise has an exception: a request that        *)
(* another one's write has overtaken may clobber the dashboard it names,   *)
(* and only that one.  Requests that take turns are never overtaken.       *)
(***************************************************************************)
EXTENDS Naturals, FiniteSets

CONSTANTS Clients, DefaultOrg

VARIABLES boards,    \* the dashboards that exist, by id
          used,      \* ids of dashboards given out so far
          asked,     \* the request of each client, or NoRequest
          overtaken  \* clients whose request works on an earlier version

vars == <<boards, used, asked, overtaken>>

NoRequest == [op |-> "none"]

\* The items of a body, with new ids for those that have none.
Given(items, new) ==
  /\ Cardinality(new) = Cardinality(items)
  /\ {c \in items : c.id # 0} \subseteq new
  /\ {c.is : c \in new} = {c.is : c \in items}

Body(r, new) ==
  /\ new.org = IF r.body.org = "" THEN DefaultOrg ELSE r.body.org
  /\ new.name = r.body.name
  /\ new.templates = r.body.templates
  /\ Given(r.body.cells, new.cells)

Others(items, id) == {c \in items : c.id # id}

AddItem(r, items, new) ==
  \E c \in new : c.is = r.is /\ Others(items, c.id) = items /\ new = items \cup {c}

RemoveItem(r, items, new) == new = Others(items, r.item)

ReplaceItem(r, items, new) ==
  /\ Others(items, r.item) # items
  /\ new = Others(items, r.item) \cup {[id |-> r.item, is |-> r.is]}

\* The dashboard new is the dashboard b with the edit that r asks for.
Edited(r, b, new) ==
  \/ r.op = "replace" /\ Body(r, new)
  \/ r.op = "update" /\ IF r.body.name # ""
                        THEN new = [b EXCEPT !.name = r.body.name]
                        ELSE /\ Given(r.body.cells, new.cells)
                             /\ new = [b EXCEPT !.cells = new.cells]
  \/ r.op = "addItem" /\ AddItem(r, b[r.part], new[r.part])
                      /\ new = [b EXCEPT ![r.part] = new[r.part]]
  \/ r.op = "removeItem" /\ new = [b EXCEPT ![r.part] = new[r.part]]
                         /\ RemoveItem(r, b[r.part], new[r.part])
  \/ r.op = "replaceItem" /\ ReplaceItem(r, b[r.part], new[r.part])
                          /\ new = [b EXCEPT ![r.part] = new[r.part]]

-----------------------------------------------------------------------------
Init ==
  /\ boards = << >>
  /\ used = {}
  /\ asked = [c \in Clients |-> NoRequest]
  /\ overtaken = {}

Ask(c) ==
  /\ asked[c] = NoRequest
  /\ \E r \in {asked'[c]} : asked' = [asked EXCEPT ![c] = r]
  /\ UNCHANGED <<boards, used, overtaken>>

Done(c) == asked' = [asked EXCEPT ![c] = NoRequest]

\* A request that fails changes nothing.
Refuse(c) ==
  /\ Done(c)
  /\ overtaken' = overtaken \ {c}
  /\ UNCHANGED <<boards, used>>

Create(c) ==
  /\ asked[c].op = "create"
  /\ \E id \in used' \ used :
        /\ used' = used \cup {id}
        /\ DOMAIN boards' = DOMAIN boards \cup {id}
        /\ \A i \in DOMAIN boards : boards'[i] = boards[i]
        /\ boards'[id].org = asked[c].org
        /\ boards'[id].name = asked[c].body.name
        /\ boards'[id].templates = asked[c].body.templates
        /\ Cardinality(boards'[id].cells) = Cardinality(asked[c].body.cells)
        /\ {x.is : x \in boards'[id].cells} = {x.is : x \in asked[c].body.cells}
  /\ Done(c)
  /\ UNCHANGED overtaken

\* Whoever has read dashboard id before it is written may be overtaken then.
Overtake(c, id) ==
  \A d \in overtaken' \ overtaken : d # c /\ asked[d] # NoRequest /\ asked[d].id = id

Delete(c) ==
  /\ asked[c].op = "remove"
  /\ boards' = [i \in DOMAIN boards \ {asked[c].id} |-> boards[i]]
  /\ Done(c)
  /\ overtaken' \subseteq overtaken \ {c}
  /\ UNCHANGED used

Write(c) ==
  /\ asked[c].op \notin {"none", "create", "remove"}
  /\ asked[c].id \in DOMAIN boards
  /\ DOMAIN boards' = DOMAIN boards
  /\ boards' = [boards EXCEPT ![asked[c].id] = boards'[asked[c].id]]
  /\ Done(c)
  /\ Overtake(c, asked[c].id)
  /\ UNCHANGED used

Edit(c) == Write(c) /\ Edited(asked[c], boards[asked[c].id], boards'[asked[c].id])

Clobber(c) == c \in overtaken /\ Write(c)

Next == \E c \in Clients :
  Ask(c) \/ Refuse(c) \/ Create(c) \/ Delete(c) \/ Edit(c) \/ Clobber(c)

Spec == Init /\ [][Next]_vars
=============================================================================
