------------------------ MODULE KapaPaginationProofs ------------------------
(***************************************************************************)
(* Proofs about KapaPagination, for any number of workers, any page size,  *)
(* any number of tasks and of failing fetches.                             *)
(***************************************************************************)
EXTENDS KapaPagination, FiniteSetTheorems, TLAPS

\* Where a task can be: in a page that a worker holds, queued, or failed.
Held(w, t) == worker[w].at \in {"fetch", "send"} /\ t \in Page(worker[w].offset)
Queued(i, t) == t \in Page(taskChan[i])
Failed(t) == \E o \in failed : t \in Page(o)

\* A task has been handed out iff it is before the next offset, and it is then
\* in exactly one place: the list, a worker, the queue or a failed page.
HandedOut ==
    Paginates =>
        \A t \in Tasks : t < next =>
            \/ allTasks[t] = 1
            \/ \E w \in Workers : Held(w, t)
            \/ \E i \in 1..Len(taskChan) : Queued(i, t)
            \/ Failed(t)

NotYetHandedOut ==
    Paginates =>
        \A t \in Tasks : next <= t =>
            /\ allTasks[t] = 0
            /\ \A w \in Workers : ~Held(w, t)
            /\ \A i \in 1..Len(taskChan) : ~Queued(i, t)
            /\ ~Failed(t)

OnePlaceOf(t) ==
    /\ allTasks[t] \in {0, 1}
    /\ Failed(t) => allTasks[t] = 0
    /\ \A w \in Workers : Held(w, t) =>
          /\ allTasks[t] = 0 /\ ~Failed(t)
          /\ \A v \in Workers : Held(v, t) => v = w
          /\ \A i \in 1..Len(taskChan) : ~Queued(i, t)
    /\ \A i \in 1..Len(taskChan) : Queued(i, t) =>
          /\ allTasks[t] = 0 /\ ~Failed(t)
          /\ \A j \in 1..Len(taskChan) : Queued(j, t) => i = j

OnePlace == Paginates => \A t \in Tasks : OnePlaceOf(t)

\* Who has seen an empty page has seen the end, and all tasks are handed out.
EndSeen ==
    /\ \A w \in Workers : worker[w].at \in {"fetch", "send", "empty"} =>
          worker[w].offset < next
    /\ \A w \in Workers : worker[w].at = "empty" => NumTasks <= next
    /\ closes > 0 => NumTasks <= next

\* Why the goroutines ended, and in which order.
Shutdown ==
    /\ closes <= 1
    /\ generator = "ended" => closes > 0
    /\ \A w \in Workers :
          worker[w].at = "ended" => closes > 0 \/ failed # {}
    /\ taskClosed => \A w \in Workers : worker[w].at = "ended"
    /\ gatherer = "ended" => taskClosed /\ taskChan = <<>>
    /\ caller = "returned" /\ Paginates => gatherer = "ended"

Places == HandedOut /\ NotYetHandedOut /\ OnePlace

Inv == TypeOK /\ Places /\ EndSeen /\ Shutdown

-----------------------------------------------------------------------------
\* There is a worker, and finitely many.
LEMMA WorkersCount == Cardinality(Workers) \in Nat \ {0}
  BY FS_CardinalityType, FS_EmptySet, KapaAssumption

\* An empty page is past the end.
LEMMA EmptyPage ==
  ASSUME NEW o \in Nat, Page(o) = {}
  PROVE  NumTasks <= o
<1>1. SUFFICES ASSUME o < NumTasks PROVE FALSE
  BY KapaAssumption
<1>2. o \in Tasks /\ o < o + FetchRate
  BY <1>1, KapaAssumption DEF Tasks
<1>3. QED
  BY <1>2 DEF Page

\* The invariant holds before the call.
LEMMA InitInv == Init => Inv
<1>1. SUFFICES ASSUME Init PROVE Inv
  OBVIOUS
<1>2. TypeOK
  <2>1. worker \in [Workers -> [at : At, offset : Nat]]
    BY <1>1 DEF Init, At
  <2>2. taskChan \in Seq(Nat) /\ Len(taskChan) <= Cardinality(Workers)
    BY <1>1, WorkersCount DEF Init
  <2>3. limit \in Nat /\ offset \in Nat
    BY <1>1, KapaAssumption DEF Init
  <2>4. QED
    BY <1>1, <2>1, <2>2, <2>3 DEF Init, TypeOK
<1>3. HandedOut /\ EndSeen /\ Shutdown
  BY <1>1 DEF Init, HandedOut, EndSeen, Shutdown, Tasks
<1>4. NotYetHandedOut /\ OnePlace
  BY <1>1 DEF Init, NotYetHandedOut, OnePlace, OnePlaceOf, Held, Queued, Failed
<1>5. QED
  BY <1>2, <1>3, <1>4 DEF Inv, Places

\* Every step keeps the types; Send is the one that lengthens the queue.
LEMMA StepTypeOK == TypeOK /\ [Next]_vars => TypeOK'
<1>1. SUFFICES ASSUME TypeOK, [Next]_vars PROVE TypeOK'
  OBVIOUS
<1> USE <1>1, KapaAssumption DEF TypeOK, chans
<1>2. CASE Delegate
  <2>1. PICK answer \in SUBSET Tasks : Gathered(answer)
    BY <1>2 DEF Delegate
  <2>2. allTasks' \in [Tasks -> Nat]
    BY <2>1 DEF Gathered
  <2>3. QED
    BY <1>2, <2>2 DEF Delegate
<1>3. CASE Start
  BY <1>3 DEF Start
<1>4. CASE CloseOpt
  BY <1>4 DEF CloseOpt
<1>5. CASE Gather
  <2>1. taskChan' \in Seq(Nat) /\ Len(taskChan') <= Cardinality(Workers)
    BY <1>5, WorkersCount DEF Gather
  <2>2. allTasks' \in [Tasks -> Nat]
    BY <1>5 DEF Gather, Gathered
  <2>3. QED
    BY <1>5, <2>1, <2>2 DEF Gather
<1>6. CASE GatherEnd
  BY <1>6 DEF GatherEnd
<1>7. CASE WorkersDone
  BY <1>7 DEF WorkersDone
<1>8. CASE Return
  BY <1>8 DEF Return
<1>9. ASSUME NEW w \in Workers, SendOpt(w) PROVE TypeOK'
  BY <1>9 DEF SendOpt, NextOffset, At
<1>10. ASSUME NEW w \in Workers, OptsEnd(w) PROVE TypeOK'
  BY <1>10 DEF OptsEnd, At
<1>11. ASSUME NEW w \in Workers, Fetch(w) PROVE TypeOK'
  BY <1>11 DEF Fetch, At
<1>12. ASSUME NEW w \in Workers, FetchFails(w) PROVE TypeOK'
  BY <1>12 DEF FetchFails, At
<1>13. ASSUME NEW w \in Workers, CloseDone(w) PROVE TypeOK'
  BY <1>13 DEF CloseDone, At
<1>14. ASSUME NEW w \in Workers, Send(w) PROVE TypeOK'
  <2>1. taskChan' \in Seq(Nat) /\ Len(taskChan') <= Cardinality(Workers)
    BY <1>14, WorkersCount DEF Send
  <2>2. QED
    BY <1>14, <2>1 DEF Send, At
<1>15. CASE UNCHANGED vars
  BY <1>15 DEF vars
<1>16. QED
  BY <1>2, <1>3, <1>4, <1>5, <1>6, <1>7, <1>8, <1>9, <1>10, <1>11, <1>12,
     <1>13, <1>14, <1>15 DEF Next, WorkerStep

\* Once the workers have seen the end, or have ended, they stay so.
LEMMA StepShutdown ==
  TypeOK /\ Shutdown /\ [Next]_vars => Shutdown'
<1>1. SUFFICES ASSUME TypeOK, Shutdown, [Next]_vars PROVE Shutdown'
  OBVIOUS
<1> USE <1>1 DEF TypeOK, Shutdown, chans, Paginates
<1>2. CASE Delegate
  BY <1>2 DEF Delegate
<1>3. CASE Start
  BY <1>3 DEF Start
<1>4. CASE CloseOpt
  BY <1>4 DEF CloseOpt
<1>5. CASE Gather
  BY <1>5 DEF Gather
<1>6. CASE GatherEnd
  BY <1>6 DEF GatherEnd
<1>7. CASE WorkersDone
  BY <1>7 DEF WorkersDone
<1>8. CASE Return
  BY <1>8 DEF Return
<1>9. ASSUME NEW w \in Workers, SendOpt(w) PROVE Shutdown'
  BY <1>9 DEF SendOpt
<1>10. ASSUME NEW w \in Workers, OptsEnd(w) PROVE Shutdown'
  BY <1>10 DEF OptsEnd
<1>11. ASSUME NEW w \in Workers, Fetch(w) PROVE Shutdown'
  BY <1>11 DEF Fetch
<1>12. ASSUME NEW w \in Workers, FetchFails(w) PROVE Shutdown'
  BY <1>12 DEF FetchFails
<1>13. ASSUME NEW w \in Workers, CloseDone(w) PROVE Shutdown'
  BY <1>13 DEF CloseDone
<1>14. ASSUME NEW w \in Workers, Send(w) PROVE Shutdown'
  BY <1>14 DEF Send
<1>15. CASE UNCHANGED vars
  BY <1>15 DEF vars
<1>16. QED
  BY <1>2, <1>3, <1>4, <1>5, <1>6, <1>7, <1>8, <1>9, <1>10, <1>11, <1>12,
     <1>13, <1>14, <1>15 DEF Next, WorkerStep

\* Only SendOpt moves the next offset, and forward.
LEMMA StepEndSeen ==
  TypeOK /\ EndSeen /\ [Next]_vars => EndSeen'
<1>1. SUFFICES ASSUME TypeOK, EndSeen, [Next]_vars PROVE EndSeen'
  OBVIOUS
<1> USE <1>1, KapaAssumption DEF TypeOK, EndSeen, chans
<1>2. ASSUME NEW w \in Workers, SendOpt(w) PROVE EndSeen'
  BY <1>2 DEF SendOpt, NextOffset
<1>3. ASSUME NEW w \in Workers, OptsEnd(w) PROVE EndSeen'
  BY <1>3 DEF OptsEnd
<1>4. ASSUME NEW w \in Workers, Fetch(w) PROVE EndSeen'
  <2>1. worker[w].offset \in Nat /\ worker[w].offset < next
    BY <1>4 DEF Fetch
  <2>2. Page(worker[w].offset) = {} => NumTasks <= next
    <3>1. SUFFICES ASSUME Page(worker[w].offset) = {} PROVE NumTasks <= next
      OBVIOUS
    <3>2. NumTasks <= worker[w].offset
      BY <2>1, <3>1, EmptyPage
    <3>3. QED
      BY <2>1, <3>2
  <2>3. QED
    BY <1>4, <2>1, <2>2 DEF Fetch
<1>5. ASSUME NEW w \in Workers, FetchFails(w) PROVE EndSeen'
  BY <1>5 DEF FetchFails
<1>6. ASSUME NEW w \in Workers, CloseDone(w) PROVE EndSeen'
  BY <1>6 DEF CloseDone
<1>7. ASSUME NEW w \in Workers, Send(w) PROVE EndSeen'
  BY <1>7 DEF Send
<1>8. CASE Delegate \/ Start \/ CloseOpt \/ Gather \/ GatherEnd
           \/ WorkersDone \/ Return \/ UNCHANGED vars
  BY <1>8 DEF Delegate, Start, CloseOpt, Gather, GatherEnd, WorkersDone, Return,
     vars
<1>9. QED
  BY <1>2, <1>3, <1>4, <1>5, <1>6, <1>7, <1>8 DEF Next, WorkerStep

\* What leaves every task where it is.
LEMMA StepSamePlaces ==
  ASSUME Places, limit' = limit, offset' = offset, next' = next,
         allTasks' = allTasks, taskChan' = taskChan, failed' = failed,
         \A w \in Workers, t \in Tasks : Held(w, t)' <=> Held(w, t)
  PROVE  Places'
<1>1. Paginates' = Paginates
  BY DEF Paginates
<1>2. \A t \in Tasks : Failed(t)' <=> Failed(t)
  BY DEF Failed, Page
<1>3. \A i \in 1..Len(taskChan), t \in Tasks : Queued(i, t)' <=> Queued(i, t)
  BY DEF Queued, Page
<1>4. HandedOut'
  BY <1>1, <1>2, <1>3 DEF Places, HandedOut
<1>5. NotYetHandedOut'
  BY <1>1, <1>2, <1>3 DEF Places, NotYetHandedOut
<1>6. OnePlace'
  BY <1>1, <1>2, <1>3 DEF Places, OnePlace, OnePlaceOf
<1>7. QED
  BY <1>4, <1>5, <1>6 DEF Places

\* A page is handed to a worker: its tasks were nowhere.
LEMMA SendOptPlaces ==
  ASSUME TypeOK, Places, NEW w \in Workers, SendOpt(w)
  PROVE  Places'
<1>1. /\ Paginates' = Paginates /\ next' = FetchRate + next
      /\ allTasks' = allTasks /\ taskChan' = taskChan /\ failed' = failed
  BY DEF SendOpt, Paginates, NextOffset, chans
<1>2. \A t \in Tasks : Failed(t)' <=> Failed(t)
  BY <1>1 DEF Failed, Page
<1>3. \A i \in 1..Len(taskChan), t \in Tasks : Queued(i, t)' <=> Queued(i, t)
  BY <1>1 DEF Queued, Page
<1>4. \A v \in Workers, t \in Tasks :
         v # w => (Held(v, t)' <=> Held(v, t))
  BY DEF SendOpt, Held, Page, TypeOK
<1>5. \A t \in Tasks : ~Held(w, t) /\ (Held(w, t)' <=> t \in Page(next))
  BY DEF SendOpt, Held, Page, TypeOK
<1>6. \A t \in Tasks : t \in Page(next) <=> next <= t /\ t < next'
  BY <1>1, KapaAssumption DEF Page, TypeOK, Tasks
<1>7. \A t \in Tasks : t < next \/ next <= t
  BY DEF TypeOK, Tasks
<1>8. next <= next' /\ next \in Nat
  BY <1>1, KapaAssumption DEF TypeOK
<1>9. HandedOut'
  BY <1>1, <1>2, <1>3, <1>4, <1>5, <1>6, <1>7 DEF Places, HandedOut
<1>10. NotYetHandedOut'
  <2>1. \A t \in Tasks : next' <= t => next <= t /\ t \notin Page(next)
    BY <1>1, <1>8, KapaAssumption DEF Page, Tasks
  <2>2. QED
    BY <1>1, <1>2, <1>3, <1>4, <1>5, <2>1 DEF Places, NotYetHandedOut
<1>11. OnePlace'
  <2>1. SUFFICES ASSUME Paginates', NEW t \in Tasks
                 PROVE  OnePlaceOf(t)'
    BY DEF OnePlace
  <2>2. CASE t \in Page(next)
    BY <1>1, <1>2, <1>3, <1>4, <1>5, <1>6, <2>1, <2>2
       DEF Places, OnePlace, OnePlaceOf, NotYetHandedOut
  <2>3. CASE t \notin Page(next)
    BY <1>1, <1>2, <1>3, <1>4, <1>5, <2>1, <2>3 DEF Places, OnePlace, OnePlaceOf
  <2>4. QED
    BY <2>2, <2>3
<1>12. QED
  BY <1>9, <1>10, <1>11 DEF Places

\* A fetch that fails moves the tasks of the worker's page.
LEMMA FetchFailsPlaces ==
  ASSUME TypeOK, Places, NEW w \in Workers, FetchFails(w)
  PROVE  Places'
<1>1. /\ Paginates' = Paginates /\ next' = next
      /\ allTasks' = allTasks /\ taskChan' = taskChan
  BY DEF FetchFails, Paginates, chans
<1>2. \A t \in Tasks : Failed(t)' <=> Failed(t) \/ Held(w, t)
  BY DEF FetchFails, Failed, Held, Page, TypeOK
<1>3. \A i \in 1..Len(taskChan), t \in Tasks : Queued(i, t)' <=> Queued(i, t)
  BY <1>1 DEF Queued, Page
<1>4. \A v \in Workers, t \in Tasks :
         Held(v, t)' <=> Held(v, t) /\ v # w
  BY DEF FetchFails, Held, Page, TypeOK
<1>5. HandedOut'
  BY <1>1, <1>2, <1>3, <1>4 DEF Places, HandedOut
<1>6. NotYetHandedOut'
  BY <1>1, <1>2, <1>3, <1>4 DEF Places, NotYetHandedOut
<1>7. OnePlace'
  BY <1>1, <1>2, <1>3, <1>4 DEF Places, OnePlace, OnePlaceOf
<1>8. QED
  BY <1>5, <1>6, <1>7 DEF Places

\* A page goes from its worker to the end of the queue.
LEMMA SendPlaces ==
  ASSUME TypeOK, Places, NEW w \in Workers, Send(w)
  PROVE  Places'
<1>1. /\ Paginates' = Paginates /\ next' = next
      /\ allTasks' = allTasks /\ failed' = failed
  BY DEF Send, Paginates
<1>2. \A t \in Tasks : Failed(t)' <=> Failed(t)
  BY <1>1 DEF Failed, Page
<1>3. PICK n \in Nat : n = Len(taskChan)
  BY DEF TypeOK
<1>4. /\ Len(taskChan') = n + 1
      /\ taskChan'[n + 1] = worker[w].offset
      /\ \A i \in 1..n : taskChan'[i] = taskChan[i]
  BY <1>3 DEF Send, TypeOK
<1>5. \A t \in Tasks, i \in 1..n : Queued(i, t)' <=> Queued(i, t)
  BY <1>4 DEF Queued, Page
<1>6. \A t \in Tasks : Queued(n + 1, t)' <=> Held(w, t)
  BY <1>4 DEF Send, Queued, Held, Page
<1>7. \A v \in Workers, t \in Tasks :
         Held(v, t)' <=> Held(v, t) /\ v # w
  BY DEF Send, Held, Page, TypeOK
<1>8. \A i : i \in 1..(n + 1) <=> i \in 1..n \/ i = n + 1
  OBVIOUS
<1>9. HandedOut'
  <2>1. SUFFICES ASSUME Paginates, NEW t \in Tasks, t < next
                 PROVE  \/ allTasks'[t] = 1
                        \/ \E v \in Workers : Held(v, t)'
                        \/ \E i \in 1..Len(taskChan') : Queued(i, t)'
                        \/ Failed(t)'
    BY <1>1 DEF HandedOut
  <2>2. CASE Held(w, t)
    BY <1>4, <1>6, <1>8, <2>2
  <2>3. CASE \E v \in Workers : v # w /\ Held(v, t)
    BY <1>7, <2>3
  <2>4. CASE \E i \in 1..n : Queued(i, t)
    BY <1>4, <1>5, <1>8, <2>4
  <2>5. CASE allTasks[t] = 1 \/ Failed(t)
    BY <1>1, <1>2, <2>5
  <2>6. QED
    BY <1>3, <2>1, <2>2, <2>3, <2>4, <2>5 DEF Places, HandedOut
<1>10. NotYetHandedOut'
  <2>1. SUFFICES ASSUME Paginates, NEW t \in Tasks, next <= t
                 PROVE  /\ allTasks'[t] = 0
                        /\ \A v \in Workers : ~Held(v, t)'
                        /\ \A i \in 1..Len(taskChan') : ~Queued(i, t)'
                        /\ ~Failed(t)'
    BY <1>1 DEF NotYetHandedOut
  <2>2. /\ allTasks[t] = 0 /\ ~Failed(t)
        /\ \A v \in Workers : ~Held(v, t)
        /\ \A i \in 1..n : ~Queued(i, t)
    BY <1>3, <2>1 DEF Places, NotYetHandedOut
  <2>3. \A i \in 1..(n + 1) : ~Queued(i, t)'
    BY <1>5, <1>6, <1>8, <2>2
  <2>4. QED
    BY <1>1, <1>2, <1>4, <1>7, <2>2, <2>3
<1>11. OnePlace'
  <2>1. SUFFICES ASSUME Paginates, NEW t \in Tasks PROVE OnePlaceOf(t)'
    BY <1>1 DEF OnePlace
  <2>2. OnePlaceOf(t)
    BY <2>1 DEF Places, OnePlace
  <2>3. CASE Held(w, t)
    <3>1. /\ allTasks'[t] = 0 /\ ~Failed(t)'
          /\ \A v \in Workers : ~Held(v, t)'
      BY <1>1, <1>2, <1>7, <2>2, <2>3 DEF OnePlaceOf
    <3>2. \A i \in 1..n : ~Queued(i, t)'
      BY <1>3, <1>5, <2>2, <2>3 DEF OnePlaceOf
    <3>3. \A i \in 1..(n + 1) : Queued(i, t)' => i = n + 1
      BY <1>8, <3>2
    <3>4. QED
      BY <1>4, <3>1, <3>3 DEF OnePlaceOf
  <2>4. CASE ~Held(w, t)
    <3>1. \A i \in 1..(n + 1) : Queued(i, t)' => i \in 1..n /\ Queued(i, t)
      BY <1>5, <1>6, <1>8, <2>4
    <3>2. \A v \in Workers : Held(v, t)' <=> Held(v, t)
      BY <1>7, <2>4
    <3>3. QED
      BY <1>1, <1>2, <1>3, <1>4, <2>2, <3>1, <3>2 DEF OnePlaceOf
  <2>5. QED
    BY <2>3, <2>4
<1>12. QED
  BY <1>9, <1>10, <1>11 DEF Places

\* The first page of the queue goes into the list.
LEMMA GatherPlaces ==
  ASSUME TypeOK, Places, Gather
  PROVE  Places'
<1>1. /\ Paginates' = Paginates /\ next' = next /\ failed' = failed
      /\ worker' = worker
  BY DEF Gather, Paginates
<1>2. \A t \in Tasks : Failed(t)' <=> Failed(t)
  BY <1>1 DEF Failed, Page
<1>3. \A w \in Workers, t \in Tasks : Held(w, t)' <=> Held(w, t)
  BY <1>1 DEF Held, Page
<1>4. /\ Len(taskChan) \in Nat \ {0}
      /\ Len(taskChan') = Len(taskChan) - 1
      /\ \A i \in 1..Len(taskChan') : taskChan'[i] = taskChan[i + 1]
      /\ Head(taskChan) = taskChan[1]
  BY DEF Gather, TypeOK
<1>5. \A t \in Tasks, i \in 1..Len(taskChan') :
         Queued(i, t)' <=> Queued(i + 1, t)
  BY <1>4 DEF Queued, Page
<1>6. \A i \in 1..Len(taskChan') : i + 1 \in 1..Len(taskChan) /\ i + 1 # 1
  BY <1>4
<1>7. \A i \in 1..Len(taskChan) : i # 1 =>
         \E j \in 1..Len(taskChan') : i = j + 1
  BY <1>4
<1>8. 1 \in 1..Len(taskChan)
  BY <1>4
<1>9. \A t \in Tasks :
         /\ allTasks[t] \in Nat
         /\ allTasks'[t] = IF Queued(1, t) THEN allTasks[t] + 1 ELSE allTasks[t]
  BY <1>4 DEF Gather, Gathered, Queued, TypeOK
<1>10. SUFFICES ASSUME Paginates' PROVE Places'
  BY DEF Places, HandedOut, NotYetHandedOut, OnePlace
<1>11. \A t \in Tasks : OnePlaceOf(t)
  BY <1>1, <1>10 DEF Places, OnePlace
<1>12. HandedOut'
  <2>1. SUFFICES ASSUME NEW t \in Tasks, t < next
                 PROVE  \/ allTasks'[t] = 1
                        \/ \E w \in Workers : Held(w, t)'
                        \/ \E i \in 1..Len(taskChan') : Queued(i, t)'
                        \/ Failed(t)'
    BY <1>1 DEF HandedOut
  <2>2. CASE Queued(1, t)
    BY <1>8, <1>9, <1>11, <2>2 DEF OnePlaceOf
  <2>3. CASE ~Queued(1, t) /\ \E i \in 1..Len(taskChan) : Queued(i, t)
    BY <1>5, <1>7, <2>3
  <2>4. CASE ~\E i \in 1..Len(taskChan) : Queued(i, t)
    BY <1>1, <1>2, <1>3, <1>8, <1>9, <1>10, <2>1, <2>4 DEF Places, HandedOut
  <2>5. QED
    BY <2>2, <2>3, <2>4
<1>13. NotYetHandedOut'
  BY <1>1, <1>2, <1>3, <1>5, <1>6, <1>8, <1>9 DEF Places, NotYetHandedOut
<1>14. OnePlace'
  <2>1. SUFFICES ASSUME NEW t \in Tasks PROVE OnePlaceOf(t)'
    BY DEF OnePlace
  <2>2. CASE Queued(1, t)
    <3>1. \A i \in 1..Len(taskChan') : ~Queued(i, t)'
      BY <1>5, <1>6, <1>8, <1>11, <2>2 DEF OnePlaceOf
    <3>2. allTasks'[t] = 1 /\ ~Failed(t)' /\ \A w \in Workers : ~Held(w, t)'
      BY <1>2, <1>3, <1>8, <1>9, <1>11, <2>2 DEF OnePlaceOf
    <3>3. QED
      BY <3>1, <3>2 DEF OnePlaceOf
  <2>3. CASE ~Queued(1, t)
    <3>1. allTasks'[t] = allTasks[t]
      BY <1>9, <2>3
    <3>2. \A i, j \in 1..Len(taskChan') :
             Queued(i, t)' /\ Queued(j, t)' => i = j
      <4>1. SUFFICES ASSUME NEW i \in 1..Len(taskChan'),
                            NEW j \in 1..Len(taskChan'),
                            Queued(i, t)', Queued(j, t)'
                     PROVE  i = j
        OBVIOUS
      <4>2. i + 1 = j + 1
        BY <1>5, <1>6, <1>11, <4>1 DEF OnePlaceOf
      <4>3. QED
        BY <4>2, <1>4
    <3>3. QED
      BY <1>2, <1>3, <1>5, <1>6, <1>11, <3>1, <3>2 DEF OnePlaceOf
  <2>4. QED
    BY <2>2, <2>3
<1>15. QED
  BY <1>12, <1>13, <1>14 DEF Places

\* Every step keeps each task handed out in one place.
LEMMA StepPlaces ==
  ASSUME TypeOK, Places, [Next]_vars
  PROVE  Places'
<1>1. CASE Delegate
  <2>1. ~Paginates /\ Paginates' = Paginates
    BY <1>1 DEF Delegate, Paginates
  <2>2. QED
    BY <2>1 DEF Places, HandedOut, NotYetHandedOut, OnePlace
<1>2. CASE Start \/ CloseOpt \/ GatherEnd \/ WorkersDone \/ Return
           \/ UNCHANGED vars
  <2>1. /\ limit' = limit /\ offset' = offset /\ next' = next
        /\ allTasks' = allTasks /\ taskChan' = taskChan /\ failed' = failed
        /\ worker' = worker
    BY <1>2 DEF Start, CloseOpt, GatherEnd, WorkersDone, Return, vars, chans
  <2>2. \A w \in Workers, t \in Tasks : Held(w, t)' <=> Held(w, t)
    BY <2>1 DEF Held, Page
  <2>3. QED
    BY <2>1, <2>2, StepSamePlaces
<1>3. CASE Gather
  BY <1>3, GatherPlaces
<1>4. ASSUME NEW w \in Workers, SendOpt(w) PROVE Places'
  BY <1>4, SendOptPlaces
<1>5. ASSUME NEW w \in Workers, OptsEnd(w) \/ Fetch(w) \/ CloseDone(w)
      PROVE  Places'
  <2>1. /\ limit' = limit /\ offset' = offset /\ next' = next
        /\ allTasks' = allTasks /\ taskChan' = taskChan /\ failed' = failed
    BY <1>5 DEF OptsEnd, Fetch, CloseDone, chans
  <2>2. \A v \in Workers, t \in Tasks : Held(v, t)' <=> Held(v, t)
    <3>1. CASE OptsEnd(w)
      BY <3>1 DEF OptsEnd, Held, Page, TypeOK
    <3>2. CASE Fetch(w)
      BY <3>2 DEF Fetch, Held, Page, TypeOK
    <3>3. CASE CloseDone(w)
      BY <3>3 DEF CloseDone, Held, Page, TypeOK
    <3>4. QED
      BY <1>5, <3>1, <3>2, <3>3
  <2>3. QED
    BY <2>1, <2>2, StepSamePlaces
<1>6. ASSUME NEW w \in Workers, FetchFails(w) PROVE Places'
  BY <1>6, FetchFailsPlaces
<1>7. ASSUME NEW w \in Workers, Send(w) PROVE Places'
  BY <1>7, SendPlaces
<1>8. QED
  BY <1>1, <1>2, <1>3, <1>4, <1>5, <1>6, <1>7 DEF Next, WorkerStep

\* The inductive invariant of the specification.
LEMMA InvHolds == Spec => []Inv
<1>1. Inv /\ [Next]_vars => Inv'
  BY StepTypeOK, StepPlaces, StepEndSeen, StepShutdown DEF Inv
<1>2. QED
  BY <1>1, InitInv, PTL DEF Spec

-----------------------------------------------------------------------------
\* Every variable stays well formed; the queue never holds more pages than
\* there are workers (kapacitor/kapa_client.go, ListTasks).
THEOREM TypeCorrect == Spec => []TypeOK
<1>1. Inv => TypeOK
  BY DEF Inv
<1>2. QED
  BY <1>1, InvHolds, PTL

\* No schedule of any number of workers closes a channel twice or sends on a
\* closed one (fetchFromKapacitor and ListTasks: sync.Once, wg.Wait, close).
THEOREM ChannelsAreSafe == Spec => []NeverPanics
<1>1. Inv => NeverPanics
  BY DEF Inv, Shutdown, NeverPanics
<1>2. QED
  BY <1>1, InvHolds, PTL

\* The list returned has every task once, but for the pages whose fetch failed:
\* it has returned when the queue is empty and no worker holds a page, so that
\* a task handed out is in the list or failed, and a worker that ended without
\* failing has seen that all were handed out (ListTasks).
THEOREM ListIsComplete == Spec => []OnlyFailedPagesMissing
<1>1. ASSUME Inv, caller = "returned", Paginates, closes > 0 \/ failed = {},
             NEW t \in Tasks
      PROVE  allTasks[t] = IF \E o \in failed : t \in Page(o) THEN 0 ELSE 1
  <2>1. /\ taskClosed /\ taskChan = <<>>
        /\ \A w \in Workers : worker[w].at = "ended"
    BY <1>1 DEF Inv, Shutdown
  <2>2. closes > 0
    BY <1>1, <2>1, KapaAssumption DEF Inv, Shutdown
  <2>3. t < next
    BY <1>1, <2>2, KapaAssumption DEF Inv, EndSeen, TypeOK, Tasks
  <2>4. allTasks[t] = 1 \/ Failed(t)
    BY <1>1, <2>1, <2>3 DEF Inv, Places, HandedOut, Held
  <2>5. Failed(t) => allTasks[t] = 0
    BY <1>1 DEF Inv, Places, OnePlace, OnePlaceOf
  <2>6. QED
    BY <2>4, <2>5 DEF Failed
<1>2. Inv => OnlyFailedPagesMissing
  BY <1>1 DEF OnlyFailedPagesMissing
<1>3. QED
  BY <1>2, InvHolds, PTL

=============================================================================
