------------------------------ MODULE Dashboards ------------------------------
(***************************************************************************)
(* The dashboards of a server: the store (bolt/dashboards.go), its view of *)
(* one organization (organizations/dashboards.go) and the handlers that    *)
(* create, remove, replace and update dashboards, their cells and their    *)
(* templates (server/dashboards.go, cells.go, templates.go).               *)
(*                                                                         *)
(* Every handler but the one that creates a dashboard makes three          *)
(* transactions: it reads the dashboard through the organization, then the *)
(* organization's store reads it again to see that it exists, then the     *)
(* whole dashboard is written back.  Requests interleave between them.     *)
(***************************************************************************)
EXTENDS Naturals, Sequences, FiniteSets, SequencesExt

CONSTANTS
    Slots,        \* requests the server works on at the same time
    Orgs,         \* organizations
    DefaultOrg,   \* the default organization
    Names,        \* names of dashboards
    Values,       \* what a cell or template can be, without its id
    BodyValues,   \* those of them considered in the body of a whole dashboard
    ClientIds,    \* ids of templates that clients make up
    MaxBoards,    \* bound on the dashboards created
    MaxUid,       \* bound on the ids generated
    MaxCells,     \* bound on the cells and on the templates of a body
    MaxRequests   \* bound on the requests

ASSUME DashboardsAssumption ==
    /\ DefaultOrg \in Orgs /\ "" \notin Orgs
    /\ "" \notin Names
    /\ BodyValues \subseteq Values
    /\ {MaxBoards, MaxUid, MaxCells, MaxRequests} \subseteq Nat
    /\ ClientIds \cap (0..MaxUid) = {}

VARIABLES
    boards,    \* the bucket of dashboards, by id
    boardSeq,  \* its sequence
    uids,      \* ids.Generate: how many ids were made
    reqs,      \* what each slot works on
    sent       \* how many requests there were

vars == <<boards, boardSeq, uids, reqs, sent>>

-----------------------------------------------------------------------------
\* Cells and templates are alike: an id, 0 when it has none yet, and the rest.
Item == [id : 0..MaxUid \cup ClientIds, is : Values]
Parts == {"cells", "templates"}
Board == [org : Orgs, name : Names \cup {""}, cells : Seq(Item), templates : Seq(Item)]

SeqUpTo(S, n) == UNION {[1..k -> S] : k \in 0..n}

\* Two items of a body never share an id.
DistinctIds(items) ==
  \A i, j \in DOMAIN items : items[i].id = items[j].id => i = j

\* What a client can know: ids that were made, and its own for templates.
KnownCells == {s \in SeqUpTo([id : 0..uids, is : BodyValues], MaxCells) : DistinctIds(s)}
KnownTemplates ==
  {s \in SeqUpTo([id : 1..uids \cup ClientIds, is : BodyValues], MaxCells) : DistinctIds(s)}
Bodies == [org : Orgs \cup {""}, name : Names \cup {""},
           cells : KnownCells, templates : KnownTemplates]
Updates == [name : Names \cup {""}, cells : KnownCells]

Idle == [at |-> "idle"]

Ids == 1..boardSeq
Requests ==
  [op : {"create"}, org : Orgs, body : Bodies]
  \cup [op : {"remove"}, org : Orgs, id : Ids]
  \cup [op : {"replace"}, org : Orgs, id : Ids, body : Bodies]
  \cup [op : {"update"}, org : Orgs, id : Ids, body : Updates]
  \cup [op : {"addItem"}, org : Orgs, id : Ids, part : Parts, is : Values]
  \cup [op : {"removeItem"}, org : Orgs, id : Ids, part : Parts, item : 1..uids \cup ClientIds]
  \cup [op : {"replaceItem"}, org : Orgs, id : Ids, part : Parts,
        item : 1..uids \cup ClientIds, is : Values]

-----------------------------------------------------------------------------
\* Mutant: the cells of a body are stored as they come.
MissingNone(items) == {}

\* The cells that DashboardsStore.Update gives an id.
Missing(items) == {i \in DOMAIN items : items[i].id = 0}

\* IDs.Generate for the items of S, in their order.
WithIds(items, S) ==
  [i \in DOMAIN items |->
     IF i \in S THEN [items[i] EXCEPT !.id = uids + Cardinality({j \in S : j <= i})]
                ELSE items[i]]

\* The position of the first item with that id, 0 when there is none.
Position(items, id) ==
  IF \E i \in DOMAIN items : items[i].id = id
  THEN CHOOSE i \in DOMAIN items :
         items[i].id = id /\ \A j \in 1..(i - 1) : items[j].id # id
  ELSE 0

\* ValidDashboardRequest.
OrgOf(body) == IF body.org = "" THEN DefaultOrg ELSE body.org

\* The handlers, between the read of dash and the write of the whole of it.
NewItem(r, dash) ==
  [dash EXCEPT ![r.part] = Append(@, [id |-> uids + 1, is |-> r.is])]

RemovedItem(r, dash) == [dash EXCEPT ![r.part] = RemoveAt(@, Position(@, r.item))]

\* Mutant: the cell that is replaced keeps no id of its own.
ReplacedItemAnew(r, dash) ==
  [dash EXCEPT ![r.part][Position(dash[r.part], r.item)] = [id |-> 0, is |-> r.is]]

ReplacedItem(r, dash) ==
  [dash EXCEPT ![r.part][Position(dash[r.part], r.item)] = [id |-> r.item, is |-> r.is]]

Replaced(r) == [r.body EXCEPT !.org = OrgOf(r.body)]

Updated(r, dash) ==
  IF r.body.name # "" THEN [dash EXCEPT !.name = r.body.name]
                      ELSE [dash EXCEPT !.cells = r.body.cells]

Changed(r, dash) ==
  CASE r.op = "replace" -> Replaced(r)
    [] r.op = "update" -> Updated(r, dash)
    [] r.op = "addItem" -> NewItem(r, dash)
    [] r.op = "removeItem" -> RemovedItem(r, dash)
    [] r.op = "replaceItem" -> ReplacedItem(r, dash)

\* Not refused for what it asks of dash.
Accepted(r, dash) ==
  /\ r.op = "update" => r.body.name # "" \/ r.body.cells # << >>
  /\ r.op \in {"removeItem", "replaceItem"} => Position(dash[r.part], r.item) # 0

-----------------------------------------------------------------------------
Init ==
  /\ boards = << >>
  /\ boardSeq = 0
  /\ uids = 0
  /\ reqs = [s \in Slots |-> Idle]
  /\ sent = 0

\* A request arrives. Only NewDashboard has nothing to read.
Arrive(s, r) ==
  /\ reqs[s] = Idle
  /\ reqs' = [reqs EXCEPT ![s] =
       [at |-> IF r.op = "create" THEN "store" ELSE "get", r |-> r]]
  /\ UNCHANGED <<boards, boardSeq, uids>>

\* An error at any step: a transaction, the body or a generated id.
Fail(s) ==
  /\ reqs[s] # Idle
  /\ reqs' = [reqs EXCEPT ![s] = Idle]
  /\ UNCHANGED <<boards, boardSeq, uids, sent>>

\* DashboardsStore.Add, through the store of the organization.
Add(s) ==
  LET r == reqs[s].r
      id == boardSeq + 1
      cells == WithIds(r.body.cells, DOMAIN r.body.cells) IN
  /\ reqs[s].at = "store" /\ r.op = "create"
  /\ boardSeq < MaxBoards /\ uids + Len(cells) <= MaxUid
  /\ boardSeq' = id
  /\ uids' = uids + Len(cells)
  /\ boards' = [b \in DOMAIN boards \cup {id} |->
       IF b = id THEN [r.body EXCEPT !.org = r.org, !.cells = cells] ELSE boards[b]]
  /\ reqs' = [reqs EXCEPT ![s] = Idle]
  /\ UNCHANGED sent

\* organizations.DashboardsStore.Get and what the handler does with the answer.
Get(s) ==
  LET r == reqs[s].r
      found == r.id \in DOMAIN boards /\ boards[r.id].org = r.org IN
  /\ reqs[s].at = "get"
  /\ reqs' = [reqs EXCEPT ![s] =
       IF found /\ Accepted(r, boards[r.id])
       THEN [at |-> "check", r |-> r, dash |-> boards[r.id]] ELSE Idle]
  /\ UNCHANGED <<boards, boardSeq, uids, sent>>

\* The Get in organizations.DashboardsStore.Update and Delete.
Check(s) ==
  /\ reqs[s].at = "check"
  /\ reqs' = [reqs EXCEPT ![s] =
       IF @.r.id \in DOMAIN boards THEN [@ EXCEPT !.at = "store"] ELSE Idle]
  /\ UNCHANGED <<boards, boardSeq, uids, sent>>

\* DashboardsStore.Update.
Update(s) ==
  LET r == reqs[s].r
      dash == Changed(r, reqs[s].dash)
      missing == Missing(dash.cells)
      made == Cardinality(missing) + IF r.op = "addItem" THEN 1 ELSE 0 IN
  /\ reqs[s].at = "store" /\ r.op \notin {"create", "remove"}
  /\ reqs' = [reqs EXCEPT ![s] = Idle]
  /\ IF r.id \in DOMAIN boards
     THEN /\ uids + made <= MaxUid
          /\ uids' = uids + made
          /\ boards' = [boards EXCEPT ![r.id] =
                          [dash EXCEPT !.cells = WithIds(dash.cells, missing)]]
     ELSE UNCHANGED <<boards, uids>>
  /\ UNCHANGED <<boardSeq, sent>>

\* DashboardsStore.Delete, which does not look.
Delete(s) ==
  /\ reqs[s].at = "store" /\ reqs[s].r.op = "remove"
  /\ boards' = [b \in DOMAIN boards \ {reqs[s].r.id} |-> boards[b]]
  /\ reqs' = [reqs EXCEPT ![s] = Idle]
  /\ UNCHANGED <<boardSeq, uids, sent>>

Serve(s) == Fail(s) \/ Add(s) \/ Get(s) \/ Check(s) \/ Update(s) \/ Delete(s)

\* Any client may send anything.
Send(s) ==
  /\ sent < MaxRequests
  /\ sent' = sent + 1
  /\ \E r \in Requests : Arrive(s, r)

Next == \E s \in Slots : Send(s) \/ Serve(s)

Spec == Init /\ [][Next]_vars

-----------------------------------------------------------------------------
TypeOK ==
  /\ boardSeq \in 0..MaxBoards
  /\ uids \in 0..MaxUid
  /\ sent \in 0..MaxRequests
  /\ DOMAIN boards \subseteq 1..boardSeq
  /\ \A b \in DOMAIN boards : boards[b] \in Board
  /\ \A s \in Slots : reqs[s] # Idle =>
       /\ reqs[s].at \in {"get", "check", "store"}
       /\ reqs[s].r.op # "create" => reqs[s].r.id \in 1..boardSeq
       /\ reqs[s].at = "check" => reqs[s].dash \in Board

\* A cell that is stored has an id and shares it with no other cell of its
\* dashboard, whichever requests wrote over each other: the id is what the
\* handlers of a cell find it by (cells.go:303, :340).
CellIdsDistinct ==
  \A b \in DOMAIN boards : LET cells == boards[b].cells IN
     DistinctIds(cells) /\ \A i \in DOMAIN cells : cells[i].id # 0

\* What the handlers do is what DashboardEdits promises: a request is one edit
\* that changes what it names and nothing else, at one moment between its
\* arrival and its answer, unless another write to that dashboard came between
\* its read and its own write.
AsSet(items) == {items[i] : i \in DOMAIN items}
AsBoard(b) == [b EXCEPT !.cells = AsSet(@), !.templates = AsSet(@)]

EditedBoards == [b \in DOMAIN boards |-> AsBoard(boards[b])]

Asked(r) ==
  CASE r.op \in {"create", "replace"} -> [r EXCEPT !.body = AsBoard(@)]
    [] r.op = "update" -> [r EXCEPT !.body.cells = AsSet(@)]
    [] OTHER -> r

\* What is asked of the server, and which requests another write has overtaken.
Requested == [s \in Slots |-> IF reqs[s] = Idle THEN [op |-> "none"] ELSE Asked(reqs[s].r)]

Overtaken == {s \in Slots : /\ reqs[s] # Idle /\ reqs[s].at \in {"check", "store"}
                            /\ reqs[s].r.op # "create"
                            /\ reqs[s].r.id \in DOMAIN boards
                            /\ boards[reqs[s].r.id] # reqs[s].dash}

Edits == INSTANCE DashboardEdits WITH
  Clients <- Slots,
  boards <- EditedBoards,
  used <- 1..boardSeq,
  asked <- Requested,
  overtaken <- Overtaken

MakesEdits == Edits!Spec

===============================================================================
