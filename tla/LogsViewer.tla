------------------------------ MODULE LogsViewer ------------------------------
(***************************************************************************)
(* The page of the logs viewer over its part of the Redux store            *)
(* (ui/src/logs): a histogram, and a table that grows at both ends while   *)
(* one scrolls. Every change of what is asked (source, namespace, search   *)
(* and filters, window, time) sends the three queries anew, a timer sends  *)
(* them while the page is live, and nobody cancels a query: answers come   *)
(* in any order, or fail, and each is put where its query belongs.         *)
(*                                                                         *)
(* The log has one line at each time from 1 to now, and an answer brings   *)
(* at most Chunk lines on the asked side of a time. Search and filters are *)
(* one value, and so are the window and its bounds. A handler that sends   *)
(* one query two or three times at once sends it once here.                *)
(***************************************************************************)
EXTENDS Integers, Sequences, SequencesExt, FiniteSets

CONSTANTS
    Sources,       \* the configured sources
    NamespacesOf,  \* databases of a source; {} when they cannot be listed
    Preferred,     \* the one of a source to show first, None when it is missing
    Terms,         \* what is searched for
    Windows,       \* widths of the histogram
    Customs,       \* times one may jump to
    Relatives,     \* how far back from the present one may jump
    None,          \* nothing yet
    Chunk,         \* lines in an answer
    MaxNow,        \* bound on the lines of the log
    MaxActs,       \* bound on what user and timer do
    MaxFails       \* bound on requests that fail

ASSUME LogsViewerAssumption ==
    /\ NamespacesOf \in [Sources -> SUBSET UNION {NamespacesOf[s] : s \in Sources}]
    /\ \A s \in Sources : Preferred[s] \in NamespacesOf[s] \cup {None}
    /\ Sources # {} /\ None \notin Sources \cup UNION {NamespacesOf[s] : s \in Sources}
    /\ Customs \subseteq 1..MaxNow /\ Relatives \subseteq Nat /\ 0 \in Relatives
    /\ Chunk \in Nat \ {0} /\ MaxNow \in Nat \ {0} /\ MaxActs \in Nat /\ MaxFails \in Nat

VARIABLES
    page,     \* mounted, live (LiveUpdating), timer, and how far the table has asked
    store,    \* state.logs: what is asked for
    shown,    \* state.logs: what is shown in the histogram and the halves of the table
    count,    \* state.logs.queryCount
    flight,   \* the requests without an answer
    now,      \* the last line of the log
    acts,     \* how much user and timer have done
    fails,    \* how many requests have failed
    seq,      \* history: counts the times something was asked
    applied,  \* history: of each slot, the request whose answer counts
    latest    \* history: of each slot, the latest request that came back

vars == <<page, store, shown, count, flight, now, acts, fails, seq, applied, latest>>

-----------------------------------------------------------------------------
Queries == {"histogram", "newer", "older"}   \* those that queryCount counts
Slots == Queries \cup {"source", "namespaces"}

Question(st) == [source |-> st.source, ns |-> st.ns, term |-> st.term, window |-> st.window,
                 custom |-> st.custom, relative |-> st.relative]

\* getTableSelectedTime: a chosen time, or one that moves with the present.
Selected(st) == IF st.custom # 0 THEN st.custom
                ELSE IF now < st.relative THEN 0 ELSE now + 1 - st.relative

Upper(a, b) == IF a < b THEN b ELSE a
Lower(a, b) == IF a < b THEN a ELSE b

\* The lines from one time down to another; those that an answer brings from a
\* time on, and those before it.
Down(high, low) == [i \in 1..high + 1 - low |-> high + 1 - i]
NewerLines(at) == Down(Lower(now, at + Chunk - 1), Upper(at, 1))
OlderLines(at) == Down(Lower(now, at - 1), Upper(at - Chunk, 1))

NoStore(t, w) == [source |-> None, namespaces |-> None, ns |-> None, term |-> t, window |-> w,
                  custom |-> 0, relative |-> 0]

NoPage == [mounted |-> FALSE, live |-> "pause", timer |-> FALSE, first |-> 0, last |-> 0]

\* The page has not been visited, or it is there, live and at rest.
Init ==
  /\ now \in 1..MaxNow
  /\ \E t \in Terms, w \in Windows :
       \/ /\ page = NoPage
          /\ store = NoStore(t, w)
          /\ shown = [s \in Queries |-> [qs |-> {}, lines |-> << >>, whole |-> TRUE]]
       \/ \E s \in Sources :
            /\ Preferred[s] # None
            /\ page = [NoPage EXCEPT !.mounted = TRUE, !.live = "play", !.timer = TRUE]
            /\ store = [NoStore(t, w) EXCEPT !.source = s, !.namespaces = s, !.ns = Preferred[s]]
            /\ shown = [x \in Queries |-> [qs |-> {Question(store)},
                                           lines |-> IF x = "older" THEN OlderLines(now + 1)
                                                     ELSE << >>,
                                           whole |-> TRUE]]
  /\ count = 0 /\ flight = {}
  /\ acts = 0 /\ fails = 0 /\ seq = 0
  /\ applied = [s \in Slots |-> 0] /\ latest = [s \in Slots |-> 0]

-----------------------------------------------------------------------------
\* A request: for which slot, in which turn, what is asked, from which time.
\* More lines for the table are for the data set of turn n.
Request(slot, q, at, n) == [slot |-> slot, q |-> q, at |-> at, n |-> n, turn |-> seq + 1]

\* The queries that follow a change, if there is a namespace to ask:
\* executeQueriesAsync and the other thunks that query.
Send(st) ==
  IF None \in {st.source, st.ns} THEN {}
  ELSE {Request(slot, Question(st), Selected(st), seq + 1) : slot \in Queries}

Counted(reqs) == Cardinality({r \in reqs : r.slot \in Queries})

\* componentDidUpdate: as long as there is no source, ask for the default one,
\* and stop the timer of a page that is not live.
AskSource(p, st) ==
  IF p.mounted /\ st.source = None
  THEN {Request("source", CHOOSE s \in Sources : TRUE, 0, seq + 1)}
  ELSE {}

Updated(p) == [p EXCEPT !.timer = @ /\ p.live = "play"]

\* What user and timer do: the page becomes p, the store st, and queries go out.
Act(p, st, sent) ==
  /\ acts < MaxActs /\ acts' = acts + 1
  /\ seq' = seq + 1
  /\ page' = Updated(p) /\ store' = st
  /\ count' = count + Counted(sent)
  /\ flight' = flight \cup sent \cup AskSource(p, st)
  /\ UNCHANGED <<shown, now, fails, applied, latest>>

\* componentDidMount; the store is that of the last visit.
Mount ==
  /\ ~page.mounted
  /\ LET live == store.custom = 0 /\ store.relative = 0
     IN  Act([mounted |-> TRUE, live |-> IF live THEN "play" ELSE "pause", timer |-> live,
              first |-> 0, last |-> 0], store, Send(store))

\* Mutant: the timer outlives the page.
UnmountOnly ==
  /\ page.mounted
  /\ page' = [page EXCEPT !.mounted = FALSE]
  /\ UNCHANGED <<store, shown, count, flight, now, acts, fails, seq, applied, latest>>

\* componentWillUnmount.
Unmount ==
  /\ page.mounted
  /\ page' = [page EXCEPT !.mounted = FALSE, !.timer = FALSE]
  /\ UNCHANGED <<store, shown, count, flight, now, acts, fails, seq, applied, latest>>

\* handleInterval.
Tick == page.timer /\ Act(page, store, Send(store))

\* handleSubmitSearch, handleTagSelection, handleFilterDelete, handleFilterChange.
ChangeTerm ==
  \E t \in Terms :
     LET st == [store EXCEPT !.term = t] IN page.mounted /\ Act(page, st, Send(st))

\* handleSetTimeWindow, handleSetTimeBounds.
SetTimeWindow ==
  \E w \in Windows :
     LET st == [store EXCEPT !.window = w] IN page.mounted /\ Act(page, st, Send(st))

\* handleChooseCustomTime, handleChooseRelativeTime, and playing with
\* handleChangeLiveUpdatingStatus. None of them starts the timer.
ChooseTime(custom, relative, live) ==
  LET st == [store EXCEPT !.custom = custom, !.relative = relative]
  IN  page.mounted /\ Act([page EXCEPT !.live = live], st, Send(st))

ChooseCustomTime == \E t \in Customs : ChooseTime(t, 0, "pause")
ChooseRelativeTime == \E r \in Relatives : ChooseTime(0, r, IF r = 0 THEN "play" ELSE "pause")

\* handleVerticalScroll, handleExpandMessage, and pausing with
\* handleChangeLiveUpdatingStatus. (handleScrollToTop does nothing: neither
\* value of liveUpdating is empty.)
Pause == page.mounted /\ Act([page EXCEPT !.live = "pause", !.timer = FALSE], store, {})

Play == page.mounted /\ page.live = "pause" /\ ChooseTime(0, 0, "play")

\* handleChooseNamespace.
ChooseNamespace ==
  /\ page.mounted /\ store.namespaces # None
  /\ \E x \in NamespacesOf[store.namespaces] :
       LET st == [store EXCEPT !.ns = x] IN Act(page, st, Send(st))

\* handleChooseSource.
ChooseSource ==
  /\ page.mounted
  /\ \E s \in Sources : Act(page, store, {Request("source", s, 0, seq + 1)})

\* loadMoreAboveRows and loadMoreBelowRows: from the first and the last line of
\* the table, and not while a counted query is under way.
Lines == shown["newer"].lines \o shown["older"].lines
FirstLine == IF Lines = << >> THEN now + 1 ELSE Head(Lines)
LastLine == IF Lines = << >> THEN now + 1 ELSE Last(Lines)

LoadMore(slot, half, at, p) ==
  /\ page.mounted /\ count = 0
  /\ Act(p, store, IF None \in {store.source, store.ns} THEN {}
                   ELSE {Request(slot, Question(store), at, applied[half])})

LoadMoreAbove ==
  /\ page.first <= FirstLine
  /\ LoadMore("moreAbove", "newer", FirstLine, [page EXCEPT !.first = FirstLine])

LoadMoreBelow ==
  /\ page.last = 0 \/ page.last > LastLine
  /\ LoadMore("moreBelow", "older", LastLine, [page EXCEPT !.last = LastLine])

-----------------------------------------------------------------------------
\* Mutant: a query that fails is counted for ever.
CountedBackAnswered(r, ok) == IF r.slot \in Queries /\ ok THEN Upper(count - 1, 0) ELSE count

\* decrementQueryCount, in the finally of the three queries.
CountedBack(r, ok) == IF r.slot \in Queries THEN Upper(count - 1, 0) ELSE count

\* The request r is over; others may follow.
Settle(r, ok, sent) ==
  /\ flight' = (flight \ {r}) \cup sent
  /\ count' = CountedBack(r, ok) + Counted(sent)
  /\ seq' = IF sent = {} THEN seq ELSE seq + 1
  /\ fails' = IF ok THEN fails ELSE fails + 1
  /\ UNCHANGED <<page, now, acts>>

\* History: what slot shows is the answer to r; n = 0 if it is put where
\* another data set is.
Counts(slot, n) ==
  /\ applied' = [applied EXCEPT ![slot] = n]
  /\ latest' = [latest EXCEPT ![slot] = Upper(@, n)]

\* History: a slot is whole if each answer met what was there (see below).
Show(slot, qs, lines, whole) ==
  shown' = [shown EXCEPT ![slot] = [qs |-> qs, lines |-> lines, whole |-> whole]]

\* setHistogramData, setTableForwardData, setTableBackwardData. Of the lines before a
\* time that is yet to come the answer has those written so far.
SetData(r) ==
  /\ r.slot \in Queries
  /\ Settle(r, TRUE, {})
  /\ Show(r.slot, {r.q}, CASE r.slot = "histogram" -> << >>
                           [] r.slot = "newer" -> NewerLines(r.at)
                           [] r.slot = "older" -> OlderLines(r.at),
          r.slot = "older" => r.at <= now + 1)
  /\ Counts(r.slot, r.n)
  /\ UNCHANGED store

Joins(half, r, lines, meets) ==
  /\ Settle(r, TRUE, {})
  /\ Show(half, shown[half].qs \cup {r.q}, lines, shown[half].whole /\ meets)
  /\ Counts(half, IF r.n = applied[half] THEN r.n ELSE 0)
  /\ UNCHANGED store

\* The table still begins with the line that was asked from, or the answer reaches the
\* line it begins with now; and it still ends with the line that was asked from.
MeetsFirst(r) ==
  \/ Lines = << >> \/ r.at = FirstLine
  \/ r.at \in ToSet(shown["newer"].lines) /\ FirstLine < r.at + Chunk
MeetsLast(r) == Lines = << >> \/ r.at = LastLine

\* Mutant: the line that was asked from is there twice.
PrependMoreLogsAll(r) ==
  /\ r.slot = "moreAbove"
  /\ Joins("newer", r, NewerLines(r.at) \o shown["newer"].lines, MeetsFirst(r))

\* The lines of a list that are not of a set, in their order: SelectSeq, position by
\* position.
Without(lines, set) ==
  LET kept == {i \in DOMAIN lines : lines[i] \notin set}
  IN  [k \in 1..Cardinality(kept) |->
         lines[CHOOSE i \in kept : Cardinality({j \in kept : j <= i}) = k]]

\* prependMoreLogs: of lines with one time, the first stays.
PrependMoreLogs(r) ==
  /\ r.slot = "moreAbove"
  /\ LET new == NewerLines(r.at)
     IN  Joins("newer", r, new \o Without(shown["newer"].lines, ToSet(new)), MeetsFirst(r))

ConcatMoreLogs(r) ==
  /\ r.slot = "moreBelow"
  /\ Joins("older", r, shown["older"].lines \o OlderLines(r.at), MeetsLast(r))

\* Mutant: a source is taken, its databases are not listed.
SetSourceOnly(r) ==
  /\ r.slot = "source"
  /\ store' = [store EXCEPT !.source = r.q]
  /\ Settle(r, TRUE, {})
  /\ Counts("source", r.n)
  /\ UNCHANGED shown

\* getSourceAndPopulateNamespacesAsync.
SetSource(r) ==
  /\ r.slot = "source"
  /\ store' = [store EXCEPT !.source = r.q]
  /\ Settle(r, TRUE, {Request("namespaces", r.q, 0, seq + 1)})
  /\ Counts("source", r.n)
  /\ UNCHANGED shown

\* Mutant: the namespace is set and nothing asked.
SetNamespacesOnly(r) ==
  /\ r.slot = "namespaces" /\ NamespacesOf[r.q] # {}
  /\ store' = [store EXCEPT !.namespaces = r.q, !.ns = Preferred[r.q]]
  /\ Settle(r, TRUE, {})
  /\ Counts("namespaces", r.n)
  /\ UNCHANGED shown

\* populateNamespacesAsync, setNamespaceAsync.
SetNamespaces(r) ==
  /\ r.slot = "namespaces" /\ NamespacesOf[r.q] # {}
  /\ LET st == [store EXCEPT !.namespaces = r.q, !.ns = Preferred[r.q]]
     IN  store' = st /\ Settle(r, TRUE, Send(st))
  /\ Counts("namespaces", r.n)
  /\ UNCHANGED shown

\* A request fails, or the listing of namespaces is empty, which is the same.
NothingListed(r) == r.slot = "namespaces" /\ NamespacesOf[r.q] = {}

Fail(r) ==
  /\ fails < MaxFails \/ NothingListed(r)
  /\ Settle(r, NothingListed(r), {})
  /\ latest' = IF r.slot \in Slots THEN [latest EXCEPT ![r.slot] = Upper(@, r.n)] ELSE latest
  /\ UNCHANGED <<store, shown, applied>>

Answer ==
  \E r \in flight :
     \/ SetData(r) \/ PrependMoreLogs(r) \/ ConcatMoreLogs(r)
     \/ SetSource(r) \/ SetNamespaces(r)
     \/ Fail(r)

\* Another line is written to the log.
Grow ==
  /\ now < MaxNow /\ now' = now + 1
  /\ UNCHANGED <<page, store, shown, count, flight, acts, fails, seq, applied, latest>>

Next ==
  \/ Mount \/ Unmount \/ Tick
  \/ ChangeTerm \/ SetTimeWindow \/ ChooseCustomTime \/ ChooseRelativeTime
  \/ Pause \/ Play \/ ChooseNamespace \/ ChooseSource \/ LoadMoreAbove \/ LoadMoreBelow
  \/ Answer \/ Grow

Spec == Init /\ [][Next]_vars

-----------------------------------------------------------------------------
TypeOK ==
  /\ count \in Nat
  /\ page \in [mounted : BOOLEAN, live : {"play", "pause"}, timer : BOOLEAN,
               first : 0..MaxNow + 1, last : 0..MaxNow + 1]
  /\ store.source \in Sources \cup {None} /\ store.namespaces \in Sources \cup {None}
  /\ store.ns \in {None} \cup UNION {NamespacesOf[s] : s \in Sources}
  /\ \A r \in flight : r.slot \in Slots \cup {"moreAbove", "moreBelow"}
  /\ \A s \in Queries : \A i \in DOMAIN shown[s].lines : shown[s].lines[i] \in 1..now
  /\ \A s \in Slots : applied[s] <= latest[s] /\ latest[s] <= seq

\* The page says that it waits for as many queries as are under way, also when
\* they fail and when the page was left and visited again.
CountsQueries == count = Counted(flight)

\* A timer runs only while the page is there and live (componentDidUpdate,
\* componentWillUnmount). The converse does not hold: see Play.
TimerOnlyWhileLive == page.timer => page.mounted /\ page.live = "play"

\* Nothing is under way for a slot, and what it shows answers the request that
\* came back last: neither has an older answer overtaken it, nor did it fail.
Waits(slot) == \E r \in flight : r.slot = slot
Settled(S) == \A s \in S : ~Waits(s) /\ applied[s] = latest[s]
Origin == {"source", "namespaces"}

\* The databases one may choose from are those of the source that is chosen.
NamespacesOfSource ==
  Settled(Origin) => store.namespaces = store.source

\* What is shown is what is asked for: whatever was changed, and in whatever
\* order, was asked for anew, and nothing but a late or a failed answer, for
\* this slot, can leave an answer to another question in its place.
ShownIsAsked ==
  \A s \in Queries :
     Settled(Origin \cup {s}) /\ store.ns # None => shown[s].qs = {Question(store)}

\* The table has each line once, the newest first and none left out, however it was
\* scrolled while lines were written, if no load was overtaken by another that took the
\* end of the table away from it; only where its halves meet may one line be in both.
Halves == {"newer", "older"}
Falls(lines) == \A i \in 2..Len(lines) : lines[i] = lines[i - 1] - 1

TableInOrder ==
  Settled(Origin \cup {"newer", "older"}) /\ (\A half \in Halves : shown[half].whole) =>
    LET above == shown["newer"].lines
        below == shown["older"].lines
    IN  /\ Falls(above) /\ Falls(below)
        /\ above # << >> /\ below # << >> => Last(above) - Head(below) \in {0, 1}

=============================================================================
