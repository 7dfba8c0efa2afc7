---------------------------- MODULE KapaPagination ----------------------------
(***************************************************************************)
(* One call of PaginatingKapaClient.ListTasks (kapacitor/kapa_client.go):  *)
(* a generator hands page options to workers over an unbuffered channel,   *)
(* the workers fetch the pages from Kapacitor and queue them, a gatherer   *)
(* puts the queued pages together, and the caller waits for the workers    *)
(* and then for the gatherer.                                              *)
(*                                                                         *)
(* A page is named by its offset, and Kapacitor's tasks by their place in  *)
(* its list, which does not change during the call.  The list returned is  *)
(* kept as the number of times it holds each task: its order depends on    *)
(* the schedule.                                                           *)
(***************************************************************************)
EXTENDS Naturals, Sequences, FiniteSets

CONSTANTS
    Workers,     \* the ListTaskWorkers goroutines
    FetchRate,   \* tasks of a page
    NumTasks,    \* tasks of Kapacitor
    MaxFailed    \* fetches that may fail

ASSUME KapaAssumption ==
    /\ IsFiniteSet(Workers) /\ Workers # {}
    /\ FetchRate \in Nat \ {0} /\ NumTasks \in Nat /\ MaxFailed \in Nat

VARIABLES
    limit, offset,  \* the caller's options
    caller,         \* where ListTasks is
    generator,      \* where generateKapacitorOptions is
    next,           \* its opts.Offset
    worker,         \* where each fetchFromKapacitor is, with its opt.Offset
    closes,         \* times done was closed
    taskChan,       \* pages queued
    taskClosed,     \* is taskChan closed?
    gatherer,       \* where the gatherer is
    allTasks,       \* how often each task is in the list
    failed          \* pages whose fetch failed

chans == <<closes, taskChan, taskClosed>>
vars == <<limit, offset, caller, generator, next, worker, chans, gatherer,
          allTasks, failed>>

Tasks == 0..(NumTasks - 1)
At == {"receive", "fetch", "send", "empty", "ended"}

TypeOK ==
    /\ limit \in Nat /\ offset \in Nat /\ next \in Nat
    /\ caller \in {"call", "workers", "gatherer", "returned"}
    /\ generator \in {"none", "select", "ended"}
    /\ worker \in [Workers -> [at : At, offset : Nat]]
    /\ closes \in Nat /\ taskClosed \in BOOLEAN
    /\ taskChan \in Seq(Nat) /\ Len(taskChan) <= Cardinality(Workers)
    /\ gatherer \in {"none", "range", "ended"}
    /\ allTasks \in [Tasks -> Nat]
    /\ failed \subseteq Nat

\* What Kapacitor answers.
Page(from) == {t \in Tasks : from <= t /\ t < from + FetchRate}

Init ==
    /\ limit \in 0..FetchRate /\ offset \in 0..FetchRate
    /\ caller = "call" /\ generator = "none" /\ next = 0
    /\ worker = [w \in Workers |-> [at |-> "receive", offset |-> 0]]
    /\ closes = 0 /\ taskChan = <<>> /\ taskClosed = FALSE
    /\ gatherer = "none"
    /\ allTasks = [t \in Tasks |-> 0]
    /\ failed = {}

Gathered(pages) ==
    allTasks' = [t \in Tasks |-> allTasks[t] + IF t \in pages THEN 1 ELSE 0]

\* Options of the caller's own are Kapacitor's to interpret: one fetch, and its
\* answer or its error.
Delegate ==
    /\ caller = "call" /\ (limit # 0 \/ offset # 0)
    /\ caller' = "returned"
    /\ \E answer \in SUBSET Tasks : Gathered(answer)
    /\ UNCHANGED <<limit, offset, generator, next, worker, chans, gatherer,
                   failed>>

Start ==
    /\ caller = "call" /\ limit = 0 /\ offset = 0
    /\ caller' = "workers" /\ generator' = "select" /\ gatherer' = "range"
    /\ UNCHANGED <<limit, offset, next, worker, chans, allTasks, failed>>

\* Mutant: the next page starts with the last task of this one.
NextOffsetOverlap == IF FetchRate = 1 THEN next + 1 ELSE next + FetchRate - 1

NextOffset == FetchRate + next

\* The select sends: the generator and a worker meet at optChan.
SendOpt(w) ==
    /\ generator = "select" /\ worker[w].at = "receive"
    /\ worker' = [worker EXCEPT ![w] = [at |-> "fetch", offset |-> next]]
    /\ next' = NextOffset
    /\ UNCHANGED <<limit, offset, caller, generator, chans, gatherer, allTasks,
                   failed>>

\* Mutant: the channel is not closed.
CloseOptNever == FALSE /\ UNCHANGED vars

\* The select finds done closed, and the generator closes optChan.
CloseOpt ==
    /\ generator = "select" /\ closes > 0
    /\ generator' = "ended"
    /\ UNCHANGED <<limit, offset, caller, next, worker, chans, gatherer,
                   allTasks, failed>>

\* The range over optChan ends.
OptsEnd(w) ==
    /\ caller # "call" /\ generator = "ended" /\ worker[w].at = "receive"
    /\ worker' = [worker EXCEPT ![w].at = "ended"]
    /\ UNCHANGED <<limit, offset, caller, generator, next, chans, gatherer,
                   allTasks, failed>>

Fetch(w) ==
    /\ worker[w].at = "fetch"
    /\ worker' = [worker EXCEPT ![w].at =
                    IF Page(worker[w].offset) = {} THEN "empty" ELSE "send"]
    /\ UNCHANGED <<limit, offset, caller, generator, next, chans, gatherer,
                   allTasks, failed>>

\* The worker ends, and nobody learns of the error.
FetchFails(w) ==
    /\ worker[w].at = "fetch" /\ Cardinality(failed) < MaxFailed
    /\ worker' = [worker EXCEPT ![w].at = "ended"]
    /\ failed' = failed \cup {worker[w].offset}
    /\ UNCHANGED <<limit, offset, caller, generator, next, chans, gatherer,
                   allTasks>>

\* Mutant: every worker that sees an empty page closes done.
CloseDoneAgain(w) ==
    /\ worker[w].at = "empty"
    /\ closes' = closes + 1
    /\ worker' = [worker EXCEPT ![w].at = "ended"]
    /\ UNCHANGED <<limit, offset, caller, generator, next, taskChan, taskClosed,
                   gatherer, allTasks, failed>>

\* An empty page: the first worker that sees one closes done.
CloseDone(w) ==
    /\ worker[w].at = "empty"
    /\ closes' = IF closes = 0 THEN 1 ELSE closes
    /\ worker' = [worker EXCEPT ![w].at = "ended"]
    /\ UNCHANGED <<limit, offset, caller, generator, next, taskChan, taskClosed,
                   gatherer, allTasks, failed>>

\* The queue holds one page per worker.
Send(w) ==
    /\ worker[w].at = "send" /\ Len(taskChan) < Cardinality(Workers)
    /\ taskChan' = Append(taskChan, worker[w].offset)
    /\ worker' = [worker EXCEPT ![w].at = "receive"]
    /\ UNCHANGED <<limit, offset, caller, generator, next, closes, taskClosed,
                   gatherer, allTasks, failed>>

Gather ==
    /\ gatherer = "range" /\ taskChan # <<>>
    /\ Gathered(Page(Head(taskChan)))
    /\ taskChan' = Tail(taskChan)
    /\ UNCHANGED <<limit, offset, caller, generator, next, worker, closes,
                   taskClosed, gatherer, failed>>

GatherEnd ==
    /\ gatherer = "range" /\ taskChan = <<>> /\ taskClosed
    /\ gatherer' = "ended"
    /\ UNCHANGED <<limit, offset, caller, generator, next, worker, chans,
                   allTasks, failed>>

\* Mutant: taskChan stays open.
WorkersDoneOpen ==
    /\ caller = "workers" /\ \A w \in Workers : worker[w].at = "ended"
    /\ caller' = "gatherer"
    /\ UNCHANGED <<limit, offset, generator, next, worker, chans, gatherer,
                   allTasks, failed>>

\* wg.Wait, then close(taskChan).
WorkersDone ==
    /\ caller = "workers" /\ \A w \in Workers : worker[w].at = "ended"
    /\ taskClosed' = TRUE /\ caller' = "gatherer"
    /\ UNCHANGED <<limit, offset, generator, next, worker, closes, taskChan,
                   gatherer, allTasks, failed>>

\* gatherWg.Wait, then return.
Return ==
    /\ caller = "gatherer" /\ gatherer = "ended"
    /\ caller' = "returned"
    /\ UNCHANGED <<limit, offset, generator, next, worker, chans, gatherer,
                   allTasks, failed>>

WorkerStep(w) ==
    \/ OptsEnd(w) \/ Fetch(w) \/ FetchFails(w) \/ CloseDone(w) \/ Send(w)

Next ==
    \/ Delegate \/ Start \/ CloseOpt \/ Gather \/ GatherEnd
    \/ WorkersDone \/ Return
    \/ \E w \in Workers : SendOpt(w) \/ WorkerStep(w)

Spec == Init /\ [][Next]_vars

\* Goroutines that can go on do, and Kapacitor answers or fails.
FairSpec ==
    /\ Spec
    /\ WF_vars(Delegate \/ Start \/ WorkersDone \/ Return)
    /\ WF_vars(CloseOpt) /\ WF_vars(Gather \/ GatherEnd)
    /\ \A w \in Workers : WF_vars(SendOpt(w)) /\ WF_vars(WorkerStep(w))

-----------------------------------------------------------------------------
Paginates == limit = 0 /\ offset = 0

\* No channel is closed twice and no worker sends on a closed one, either of
\* which would panic (kapacitor/kapa_client.go, the sync.Once and wg.Wait).
NeverPanics ==
    /\ closes <= 1
    /\ taskClosed => \A w \in Workers : worker[w].at # "send"

\* The list returned has every task exactly once, but for the pages whose fetch
\* failed, if a worker has lived to see the end of Kapacitor's list; and one
\* has if no fetch failed (ListTasks, which navigates the pagination).
OnlyFailedPagesMissing ==
    caller = "returned" /\ Paginates /\ (closes > 0 \/ failed = {}) =>
        \A t \in Tasks :
            allTasks[t] = IF \E o \in failed : t \in Page(o) THEN 0 ELSE 1

\* The call returns, whatever fails.
Returns == <>(caller = "returned")

\* The generator does not outlive the call for ever, unless every worker has
\* died of an error.
GeneratorEnds ==
    <>(Paginates /\ Cardinality(failed) < Cardinality(Workers)
       => generator = "ended")

=============================================================================
