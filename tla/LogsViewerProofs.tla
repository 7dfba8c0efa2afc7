--------------------------- MODULE LogsViewerProofs ---------------------------
(***************************************************************************)
(* Theorems about the logs viewer, for any number of sources, databases,   *)
(* changes, failures and queries under way, answered in any order: the     *)
(* timer and the counter of the page are right; what is shown answers what *)
(* is asked for, once the latest request for it was the last to come back; *)
(* and then the table has its lines in order, if every load met the end of *)
(* the table that it was asked from.                                       *)
(***************************************************************************)
EXTENDS LogsViewer, FiniteSetTheorems, TLAPS

-----------------------------------------------------------------------------
(* The two kinds of steps that send requests.                              *)

More == {"moreAbove", "moreBelow"}

\* The half of the table that more lines are for.
Half(slot) == IF slot = "moreAbove" THEN "newer" ELSE "older"

PageOK(p) ==
  /\ DOMAIN p = {"mounted", "live", "timer", "first", "last"}
  /\ p.timer \in BOOLEAN
  /\ p.timer => p.mounted /\ p.live = "play"

StoreOK(st) ==
  /\ DOMAIN st = {"source", "namespaces", "ns", "term", "window", "custom", "relative"}
  /\ st.namespaces \in Sources \cup {None}
  /\ st.custom \in Nat /\ st.relative \in Nat

\* A request that asks nothing new of the histogram and the table.
Apart(r) ==
  \/ r.slot = "source" /\ r.q \in Sources /\ r.n = seq + 1 /\ r.at = 0
  \/ /\ r.slot \in More /\ r.n = applied[Half(r.slot)] /\ r.q = Question(store)
     /\ count = 0 /\ r.at \in {FirstLine, LastLine}

\* What user and timer do: they ask anew, or leave what is asked for alone.
UserAct(p, st, sent) ==
  /\ Act(p, st, sent)
  /\ DOMAIN p = {"mounted", "live", "timer", "first", "last"}
  /\ p.timer => p.mounted
  /\ p.timer \in BOOLEAN
  /\ StoreOK(st) /\ st.source = store.source /\ st.namespaces = store.namespaces
  /\ st.ns = store.ns \/ (store.namespaces # None /\ st.ns # None)
  /\ \/ sent = Send(st)
     \/ st = store /\ \A r \in sent : Apart(r) /\ r.turn = seq + 1
  /\ IsFiniteSet(sent)

LEMMA SendIsFinite == \A st : IsFiniteSet(Send(st))
<1> TAKE st
<1> DEFINE R(slot) == Request(slot, Question(st), Selected(st), seq + 1)
<1>1. {R(slot) : slot \in Queries} = ({R("histogram")} \cup {R("newer")}) \cup {R("older")}
  BY DEF Queries
<1>2. IsFiniteSet(({R("histogram")} \cup {R("newer")}) \cup {R("older")})
  <2>1. IsFiniteSet({R("histogram")})
    BY FS_Singleton
  <2> HIDE DEF R
  <2> QED BY <2>1, FS_AddElement
<1>3. IsFiniteSet({})
  BY FS_EmptySet
<1> QED BY <1>1, <1>2, <1>3 DEF Send

LEMMA UserActs ==
  ASSUME PageOK(page), StoreOK(store),
         \/ Mount \/ Tick \/ ChangeTerm \/ SetTimeWindow \/ ChooseCustomTime
         \/ ChooseRelativeTime \/ Pause \/ Play \/ ChooseNamespace \/ ChooseSource
         \/ LoadMoreAbove \/ LoadMoreBelow
  PROVE  \E p, st, sent : UserAct(p, st, sent)
<1> USE SendIsFinite, LogsViewerAssumption
<1>1. CASE Mount
  <2> DEFINE live == store.custom = 0 /\ store.relative = 0
             p == [mounted |-> TRUE, live |-> IF live THEN "play" ELSE "pause",
                   timer |-> live, first |-> 0, last |-> 0]
  <2>1. Act(p, store, Send(store))
    BY <1>1 DEF Mount
  <2>2. UserAct(p, store, Send(store))
    BY <2>1 DEF UserAct, StoreOK
  <2> QED BY <2>2
<1>2. CASE Tick
  <2>1. UserAct(page, store, Send(store))
    BY <1>2 DEF Tick, UserAct, PageOK
  <2> QED BY <2>1
<1>3. CASE ChangeTerm
  <2>1. PICK t \in Terms :
          page.mounted /\ Act(page, [store EXCEPT !.term = t], Send([store EXCEPT !.term = t]))
    BY <1>3 DEF ChangeTerm
  <2>2. UserAct(page, [store EXCEPT !.term = t], Send([store EXCEPT !.term = t]))
    BY <2>1 DEF UserAct, PageOK, StoreOK
  <2> QED BY <2>2
<1>4. CASE SetTimeWindow
  <2>1. PICK w \in Windows :
          page.mounted /\ Act(page, [store EXCEPT !.window = w], Send([store EXCEPT !.window = w]))
    BY <1>4 DEF SetTimeWindow
  <2>2. UserAct(page, [store EXCEPT !.window = w], Send([store EXCEPT !.window = w]))
    BY <2>1 DEF UserAct, PageOK, StoreOK
  <2> QED BY <2>2
<1>5. ASSUME NEW c \in Nat, NEW r \in Nat, NEW l, ChooseTime(c, r, l)
      PROVE  \E p, st, sent : UserAct(p, st, sent)
  <2> DEFINE st == [store EXCEPT !.custom = c, !.relative = r]
  <2>1. page.mounted /\ Act([page EXCEPT !.live = l], st, Send(st))
    BY <1>5 DEF ChooseTime
  <2>2. /\ StoreOK(st) /\ st.source = store.source /\ st.namespaces = store.namespaces
        /\ st.ns = store.ns
    BY DEF StoreOK
  <2>3. UserAct([page EXCEPT !.live = l], st, Send(st))
    <3> HIDE DEF st
    <3> QED BY <2>1, <2>2 DEF UserAct, PageOK
  <2> QED BY <2>3
<1>6. CASE ChooseCustomTime \/ ChooseRelativeTime \/ Play
  BY <1>5, <1>6 DEF ChooseCustomTime, ChooseRelativeTime, Play
<1>7. CASE Pause
  <2> DEFINE p == [page EXCEPT !.live = "pause", !.timer = FALSE]
  <2>1. Act(p, store, {})
    BY <1>7 DEF Pause
  <2>2. DOMAIN p = {"mounted", "live", "timer", "first", "last"} /\ p.timer = FALSE
    BY DEF PageOK
  <2>3. UserAct(p, store, {})
    <3> HIDE DEF p
    <3> QED BY <2>1, <2>2, FS_EmptySet DEF UserAct
  <2> QED BY <2>3
<1>8. CASE ChooseNamespace
  <2>1. PICK x \in NamespacesOf[store.namespaces] :
          /\ page.mounted /\ store.namespaces # None
          /\ Act(page, [store EXCEPT !.ns = x], Send([store EXCEPT !.ns = x]))
    BY <1>8 DEF ChooseNamespace
  <2>2. x # None
    <3>1. x \in UNION {NamespacesOf[s] : s \in Sources}
      BY <2>1 DEF StoreOK
    <3> QED BY <3>1
  <2>3. UserAct(page, [store EXCEPT !.ns = x], Send([store EXCEPT !.ns = x]))
    BY <2>1, <2>2 DEF UserAct, PageOK, StoreOK
  <2> QED BY <2>3
<1>9. CASE ChooseSource
  <2>1. PICK s \in Sources : Act(page, store, {Request("source", s, 0, seq + 1)})
    BY <1>9 DEF ChooseSource
  <2>2. /\ Apart(Request("source", s, 0, seq + 1))
        /\ Request("source", s, 0, seq + 1).turn = seq + 1
    BY DEF Apart, Request
  <2>3. UserAct(page, store, {Request("source", s, 0, seq + 1)})
    BY <2>1, <2>2, FS_Singleton DEF UserAct, PageOK
  <2> QED BY <2>3
<1>10. ASSUME NEW slot \in More, NEW at \in {FirstLine, LastLine}, NEW p,
              LoadMore(slot, Half(slot), at, p),
              DOMAIN p = DOMAIN page, p.mounted = page.mounted, p.timer = page.timer
       PROVE  \E q, st, sent : UserAct(q, st, sent)
  <2> DEFINE r == Request(slot, Question(store), at, applied[Half(slot)])
  <2>1. Apart(r) /\ r.turn = seq + 1
    BY <1>10 DEF Apart, Request, LoadMore
  <2>2. PICK sent \in {{}, {r}} : Act(p, store, sent)
    BY <1>10 DEF LoadMore
  <2>3. IsFiniteSet(sent)
    <3>1. IsFiniteSet({r})
      BY FS_Singleton
    <3> QED BY <2>2, <3>1, FS_EmptySet
  <2>4. UserAct(p, store, sent)
    <3> HIDE DEF r
    <3> QED BY <1>10, <2>1, <2>2, <2>3 DEF UserAct, PageOK
  <2> QED BY <2>4
<1>11. CASE LoadMoreAbove \/ LoadMoreBelow
  BY <1>10, <1>11 DEF LoadMoreAbove, LoadMoreBelow, More, Half, PageOK
<1> QED BY <1>1, <1>2, <1>3, <1>4, <1>6, <1>7, <1>8, <1>9, <1>11

\* The requests that follow what user and timer do.
LEMMA NewRequests ==
  ASSUME NEW p, NEW st, NEW sent, UserAct(p, st, sent)
  PROVE  \A r \in sent \cup AskSource(p, st) :
           /\ r.turn = seq + 1
           /\ \/ /\ r.slot \in Queries /\ r.q = Question(st) /\ r.n = seq + 1
                 /\ sent = Send(st) /\ None \notin {st.source, st.ns}
              \/ r.slot = "source" /\ r.q \in Sources /\ r.n = seq + 1
              \/ /\ r.slot \in More /\ r.q = Question(store) /\ r.n = applied[Half(r.slot)]
                 /\ st = store
<1>1. ASSUME NEW r \in AskSource(p, st)
      PROVE  r.slot = "source" /\ r.q \in Sources /\ r.n = seq + 1 /\ r.turn = seq + 1
  <2>1. (CHOOSE s \in Sources : TRUE) \in Sources
    BY LogsViewerAssumption
  <2> QED BY <1>1, <2>1 DEF AskSource, Request
<1>2. ASSUME NEW r \in Send(st)
      PROVE  /\ r.slot \in Queries /\ r.q = Question(st) /\ r.n = seq + 1 /\ r.turn = seq + 1
             /\ None \notin {st.source, st.ns}
  BY <1>2 DEF Send, Request
<1> QED BY <1>1, <1>2 DEF UserAct, Apart

\* The answer to r, and the requests that follow it.
Follows(r, sent) ==
  \/ sent = {}
  \/ /\ r.slot = "source"
     /\ sent = {Request("namespaces", r.q, 0, seq + 1)}
  \/ r.slot = "namespaces" /\ sent = Send(store')

LEMMA AnswersSettle ==
  ASSUME NEW r, \/ SetData(r) \/ PrependMoreLogs(r) \/ ConcatMoreLogs(r)
                \/ SetSource(r) \/ SetNamespaces(r) \/ Fail(r)
  PROVE  \E ok, sent : Settle(r, ok, sent) /\ Follows(r, sent)
<1>1. CASE SetData(r)
  BY <1>1 DEF SetData, Follows
<1>2. CASE PrependMoreLogs(r)
  BY <1>2 DEF PrependMoreLogs, Joins, Follows
<1>3. CASE ConcatMoreLogs(r)
  BY <1>3 DEF ConcatMoreLogs, Joins, Follows
<1>4. CASE SetSource(r)
  BY <1>4 DEF SetSource, Follows
<1>5. CASE SetNamespaces(r)
  BY <1>5 DEF SetNamespaces, Follows
<1>6. CASE Fail(r)
  BY <1>6 DEF Fail, Follows
<1> QED BY <1>1, <1>2, <1>3, <1>4, <1>5, <1>6

-----------------------------------------------------------------------------
(* The shape of the state. Every request has a turn of the past.           *)

BaseInv ==
  /\ PageOK(page) /\ StoreOK(store)
  /\ seq \in Nat
  /\ IsFiniteSet(flight)
  /\ \A r \in flight :
       r.turn \in 1..seq /\ (r.slot \in {"source", "namespaces"} => r.q \in Sources)

LEMMA BaseInit == Init => BaseInv
<1> SUFFICES ASSUME Init PROVE BaseInv
    OBVIOUS
<1>1. PageOK(page)
  <2>1. page \in {NoPage, [NoPage EXCEPT !.mounted = TRUE, !.live = "play", !.timer = TRUE]}
    BY DEF Init
  <2>2. PageOK(NoPage)
    BY DEF PageOK, NoPage
  <2>3. PageOK([NoPage EXCEPT !.mounted = TRUE, !.live = "play", !.timer = TRUE])
    BY <2>2 DEF PageOK
  <2> QED BY <2>1, <2>2, <2>3
<1>2. StoreOK(store)
  <2>1. ASSUME NEW t, NEW w PROVE StoreOK(NoStore(t, w))
    BY DEF StoreOK, NoStore
  <2>2. ASSUME NEW t, NEW w, NEW s \in Sources
        PROVE  StoreOK([NoStore(t, w) EXCEPT !.source = s, !.namespaces = s,
                                             !.ns = Preferred[s]])
    BY <2>1 DEF StoreOK
  <2>3. PICK t \in Terms, w \in Windows :
          \/ store = NoStore(t, w)
          \/ \E s \in Sources : store = [NoStore(t, w) EXCEPT !.source = s, !.namespaces = s,
                                                             !.ns = Preferred[s]]
    BY Zenon DEF Init
  <2>4. CASE store = NoStore(t, w)
    BY <2>1, <2>4
  <2>5. ASSUME NEW s \in Sources,
               store = [NoStore(t, w) EXCEPT !.source = s, !.namespaces = s,
                                             !.ns = Preferred[s]]
        PROVE  StoreOK(store)
    <3>1. StoreOK([NoStore(t, w) EXCEPT !.source = s, !.namespaces = s, !.ns = Preferred[s]])
      BY <2>2
    <3> QED BY ONLY <2>5, <3>1
  <2> QED BY <2>3, <2>4, <2>5
<1> QED BY <1>1, <1>2, FS_EmptySet DEF Init, BaseInv

\* What every answer keeps of it, when the store stays in shape.
LEMMA BaseSettle ==
  ASSUME BaseInv, NEW r \in flight, NEW ok, NEW sent, Settle(r, ok, sent), Follows(r, sent),
         StoreOK(store')
  PROVE  BaseInv'
<1>1. IsFiniteSet(sent)
  BY SendIsFinite, FS_EmptySet, FS_Singleton DEF Follows
<1>2. IsFiniteSet(flight')
  BY <1>1, FS_RemoveElement, FS_Union DEF Settle, BaseInv
<1>3. \A q \in sent :
        q.turn = seq + 1 /\ (q.slot \in {"source", "namespaces"} => q.q \in Sources)
  BY DEF Follows, Send, Request, Queries, BaseInv
<1>4. seq' \in Nat /\ seq' = IF sent = {} THEN seq ELSE seq + 1
  BY DEF Settle, BaseInv
<1>5. \A q \in flight' :
        q.turn \in 1..seq' /\ (q.slot \in {"source", "namespaces"} => q.q \in Sources)
  BY <1>3, <1>4 DEF Settle, BaseInv
<1> QED BY <1>2, <1>4, <1>5 DEF Settle, BaseInv

LEMMA AnswerKeepsShape ==
  ASSUME StoreOK(store), NEW r, r.slot \in {"source", "namespaces"} => r.q \in Sources,
         \/ SetData(r) \/ PrependMoreLogs(r) \/ ConcatMoreLogs(r)
         \/ SetSource(r) \/ SetNamespaces(r) \/ Fail(r)
  PROVE  StoreOK(store')
<1>1. CASE SetData(r) \/ PrependMoreLogs(r) \/ ConcatMoreLogs(r) \/ Fail(r)
  BY <1>1 DEF SetData, PrependMoreLogs, ConcatMoreLogs, Joins, Fail
<1>2. CASE SetSource(r)
  BY <1>2 DEF SetSource, StoreOK
<1>3. CASE SetNamespaces(r)
  BY <1>3 DEF SetNamespaces, StoreOK
<1> QED BY <1>1, <1>2, <1>3

LEMMA BaseStep == BaseInv /\ [Next]_vars => BaseInv'
<1> SUFFICES ASSUME BaseInv, [Next]_vars PROVE BaseInv'
    OBVIOUS
<1>1. ASSUME NEW p, NEW st, NEW sent, UserAct(p, st, sent) PROVE BaseInv'
  <2>1. IsFiniteSet(AskSource(p, st))
    BY FS_EmptySet, FS_Singleton DEF AskSource
  <2>2. IsFiniteSet(flight')
    <3>1. IsFiniteSet(flight \cup sent)
      BY <1>1, FS_Union DEF UserAct, BaseInv
    <3> QED BY <1>1, <2>1, <3>1, FS_Union DEF UserAct, Act
  <2>3. PageOK(page')
    <3>1. page' = Updated(p)
      BY <1>1 DEF UserAct, Act
    <3> QED BY <1>1, <3>1 DEF Updated, UserAct, PageOK
  <2>4. store' = st /\ seq' = seq + 1 /\ flight' = (flight \cup sent) \cup AskSource(p, st)
    BY <1>1 DEF UserAct, Act
  <2>5. \A r \in flight' :
          r.turn \in 1..seq' /\ (r.slot \in {"source", "namespaces"} => r.q \in Sources)
    BY <1>1, <2>4, NewRequests DEF BaseInv, Queries, More
  <2> QED BY <1>1, <2>2, <2>3, <2>4, <2>5 DEF UserAct, BaseInv
<1>2. CASE \/ Mount \/ Tick \/ ChangeTerm \/ SetTimeWindow \/ ChooseCustomTime
           \/ ChooseRelativeTime \/ Pause \/ Play \/ ChooseNamespace \/ ChooseSource
           \/ LoadMoreAbove \/ LoadMoreBelow
  BY <1>1, <1>2, UserActs DEF BaseInv
<1>3. CASE Unmount
  BY <1>3 DEF Unmount, BaseInv, PageOK
<1>4. CASE Answer
  <2>1. PICK r \in flight :
          \/ SetData(r) \/ PrependMoreLogs(r) \/ ConcatMoreLogs(r)
          \/ SetSource(r) \/ SetNamespaces(r) \/ Fail(r)
    BY <1>4 DEF Answer
  <2>2. StoreOK(store')
    BY <2>1, AnswerKeepsShape DEF BaseInv
  <2>3. PICK ok, sent : Settle(r, ok, sent) /\ Follows(r, sent)
    BY <2>1, AnswersSettle
  <2> QED BY <2>2, <2>3, BaseSettle
<1>5. CASE Grow \/ UNCHANGED vars
  BY <1>5 DEF Grow, vars, BaseInv
<1> QED BY <1>2, <1>3, <1>4, <1>5 DEF Next

LEMMA BaseInductive == Spec => []BaseInv
  BY BaseInit, BaseStep, PTL DEF Spec

\* The timer runs only while the page is there and live (LogsPage.tsx,
\* componentDidUpdate and componentWillUnmount).
THEOREM TimerStops == Spec => []TimerOnlyWhileLive
<1>1. BaseInv => TimerOnlyWhileLive
  BY DEF BaseInv, PageOK, TimerOnlyWhileLive
<1> QED BY <1>1, BaseInductive, PTL

-----------------------------------------------------------------------------
(* The counter.                                                            *)

LEMMA CountedUnion ==
  ASSUME NEW A, NEW B, IsFiniteSet(A), IsFiniteSet(B),
         \A r \in B : r.slot \in Queries => r \notin A
  PROVE  Counted(A \cup B) = Counted(A) + Counted(B)
<1> DEFINE Q(S) == {r \in S : r.slot \in Queries}
<1>1. /\ IsFiniteSet(Q(A)) /\ IsFiniteSet(Q(B))
      /\ Cardinality(Q(A)) \in Nat /\ Cardinality(Q(B)) \in Nat
  BY FS_Subset, FS_CardinalityType
<1>2. Q(A \cup B) = Q(A) \cup Q(B) /\ Q(A) \cap Q(B) = {}
  OBVIOUS
<1>3. Cardinality(Q(A) \cup Q(B)) = Cardinality(Q(A)) + Cardinality(Q(B)) - Cardinality({})
  BY <1>1, <1>2, FS_Union
<1>4. Cardinality({}) = 0
  BY FS_EmptySet
<1>5. /\ Counted(A) = Cardinality(Q(A)) /\ Counted(B) = Cardinality(Q(B))
      /\ Counted(A \cup B) = Cardinality(Q(A \cup B))
  BY DEF Counted
<1> HIDE DEF Q
<1>6. Cardinality(Q(A \cup B)) = Cardinality(Q(A) \cup Q(B))
  BY <1>2
<1>7. \A a, b, c, z : a \in Nat /\ b \in Nat /\ z = 0 /\ c = a + b - z => c = a + b
  OBVIOUS
<1> QED BY <1>1, <1>3, <1>4, <1>5, <1>6, <1>7

LEMMA CountedRemove ==
  ASSUME NEW A, IsFiniteSet(A), NEW r \in A
  PROVE  /\ Counted(A) \in Nat
         /\ r.slot \in Queries => Counted(A) >= 1 /\ Counted(A \ {r}) = Counted(A) - 1
         /\ r.slot \notin Queries => Counted(A \ {r}) = Counted(A)
<1> DEFINE Q(S) == {q \in S : q.slot \in Queries}
<1>1. IsFiniteSet(Q(A)) /\ Cardinality(Q(A)) \in Nat
  BY FS_Subset, FS_CardinalityType
<1>2. Counted(A) = Cardinality(Q(A)) /\ Counted(A \ {r}) = Cardinality(Q(A \ {r}))
  BY DEF Counted
<1>3. CASE r.slot \in Queries
  <2>1. Q(A \ {r}) = Q(A) \ {r} /\ r \in Q(A)
    BY <1>3
  <2>2. Cardinality(Q(A) \ {r}) = Cardinality(Q(A)) - 1
    BY <1>1, <2>1, FS_RemoveElement
  <2>3. Cardinality(Q(A) \ {r}) \in Nat
    BY <1>1, FS_RemoveElement, FS_CardinalityType
  <2> HIDE DEF Q
  <2> QED BY <1>1, <1>2, <1>3, <2>1, <2>2, <2>3
<1>4. CASE r.slot \notin Queries
  <2>1. Q(A \ {r}) = Q(A)
    BY <1>4
  <2> HIDE DEF Q
  <2> QED BY <1>1, <1>2, <1>4, <2>1
<1> QED BY <1>3, <1>4

CountInv == BaseInv /\ CountsQueries

LEMMA CountInit == Init => CountInv
<1> SUFFICES ASSUME Init PROVE CountsQueries
    BY BaseInit DEF CountInv
<1>1. Counted({}) = 0
  BY FS_EmptySet DEF Counted
<1> QED BY <1>1 DEF Init, CountsQueries

LEMMA CountStep == CountInv /\ [Next]_vars => CountInv'
<1> SUFFICES ASSUME CountInv, [Next]_vars PROVE CountsQueries'
    BY BaseStep DEF CountInv
<1> USE DEF CountInv
<1>1. ASSUME NEW p, NEW st, NEW sent, UserAct(p, st, sent) PROVE CountsQueries'
  <2>1. /\ flight' = (flight \cup sent) \cup AskSource(p, st)
        /\ count' = count + Counted(sent)
    BY <1>1 DEF UserAct, Act
  <2>2. \A r \in sent \cup AskSource(p, st) : r \notin flight
    BY <1>1, NewRequests DEF BaseInv
  <2>3. \A r \in AskSource(p, st) : r.slot \notin Queries
    BY DEF AskSource, Request, Queries
  <2>4. IsFiniteSet(flight) /\ IsFiniteSet(sent) /\ IsFiniteSet(AskSource(p, st))
    BY <1>1, FS_EmptySet, FS_Singleton DEF BaseInv, UserAct, AskSource
  <2>5. Counted(flight \cup sent) = Counted(flight) + Counted(sent)
    BY <2>2, <2>4, CountedUnion
  <2>6. {r \in flight' : r.slot \in Queries} = {r \in flight \cup sent : r.slot \in Queries}
    BY <2>1, <2>3
  <2> QED BY <2>1, <2>5, <2>6 DEF CountsQueries, Counted
<1>2. CASE \/ Mount \/ Tick \/ ChangeTerm \/ SetTimeWindow \/ ChooseCustomTime
           \/ ChooseRelativeTime \/ Pause \/ Play \/ ChooseNamespace \/ ChooseSource
           \/ LoadMoreAbove \/ LoadMoreBelow
  BY <1>1, <1>2, UserActs DEF BaseInv
<1>3. CASE Answer
  <2>0. PICK r \in flight :
          \/ SetData(r) \/ PrependMoreLogs(r) \/ ConcatMoreLogs(r)
          \/ SetSource(r) \/ SetNamespaces(r) \/ Fail(r)
    BY <1>3 DEF Answer
  <2>1. PICK ok, sent : Settle(r, ok, sent) /\ Follows(r, sent)
    BY <2>0, AnswersSettle
  <2>2. IsFiniteSet(flight) /\ IsFiniteSet(flight \ {r}) /\ IsFiniteSet(sent)
    <3>1. IsFiniteSet(sent)
      <4>1. Follows(r, sent)
        BY <2>1
      <4>2. IsFiniteSet({Request("namespaces", r.q, 0, seq + 1)})
        BY FS_Singleton
      <4> QED BY ONLY <4>1, <4>2, SendIsFinite, FS_EmptySet DEF Follows
    <3>2. IsFiniteSet(flight)
      BY DEF BaseInv
    <3> QED BY <3>1, <3>2, FS_RemoveElement
  <2>3. \A q \in sent : q \notin flight
    BY <2>1 DEF Follows, Send, Request, BaseInv
  <2>4. Counted(flight') = Counted(flight \ {r}) + Counted(sent)
    BY <2>1, <2>2, <2>3, CountedUnion DEF Settle
  <2>5. CountedBack(r, ok) = Counted(flight \ {r})
    BY <2>2, CountedRemove DEF CountsQueries, CountedBack, Upper
  <2> QED BY <2>1, <2>4, <2>5 DEF Settle, CountsQueries
<1>4. CASE Unmount \/ Grow \/ UNCHANGED vars
  BY <1>4 DEF Unmount, Grow, vars, CountsQueries
<1> QED BY <1>2, <1>3, <1>4 DEF Next

\* The page waits for as many queries as are under way, also when they fail and
\* when it was left and visited again (ui/src/logs/actions, queryCount).
THEOREM CounterIsRight == Spec => []CountsQueries
<1>1. CountInv => CountsQueries
  BY DEF CountInv
<1> QED BY <1>1, CountInit, CountStep, PTL DEF Spec

-----------------------------------------------------------------------------
(* Turns. A request has a turn of its own in its slot, and the latest one   *)
(* to come back is no earlier than the one whose answer counts. What is to  *)
(* be joined to a half of the table belongs to a data set that was there.   *)

TurnInv ==
  /\ DOMAIN applied = Slots /\ DOMAIN latest = Slots
  /\ \A s \in Slots : /\ applied[s] \in Nat /\ latest[s] \in Nat
                      /\ applied[s] <= latest[s] /\ latest[s] <= seq
  /\ \A r \in flight :
       /\ r.slot \in Slots \cup More
       /\ r.slot \in Slots => r.n = r.turn
       /\ r.slot \in More => r.n \in Nat /\ r.n <= latest[Half(r.slot)]
       /\ r.slot \in Slots \ {"source"} =>
            /\ applied[r.slot] # r.n
            /\ \A q \in flight : q.slot = r.slot /\ q.n = r.n => q = r
            /\ \A q \in flight : q.slot \in More /\ Half(q.slot) = r.slot => q.n # r.n

LEMMA SlotsApart ==
  /\ Slots = Queries \cup {"source", "namespaces"}
  /\ Queries \cap {"source", "namespaces"} = {} /\ "source" # "namespaces"
  /\ Slots \cap More = {}
  /\ \A slot : Half(slot) \in Queries
  BY DEF Slots, Queries, More, Half

\* Requests of one change have slots of their own.
LEMMA SendApart ==
  ASSUME NEW st, NEW r \in Send(st), NEW q \in Send(st), q.slot = r.slot
  PROVE  q = r
  BY DEF Send, Request

\* When r is over, it is enough that the counts stay in order and that no request
\* still under way is taken for one that came back.
LEMMA TurnSettle ==
  ASSUME BaseInv, TurnInv, NEW r \in flight, NEW ok, NEW sent,
         Settle(r, ok, sent), Follows(r, sent),
         DOMAIN applied' = Slots, DOMAIN latest' = Slots,
         \A s \in Slots : /\ applied'[s] \in Nat /\ latest'[s] \in Nat
                          /\ applied'[s] <= latest'[s]
                          /\ latest[s] <= latest'[s] /\ latest'[s] <= seq,
         \A q \in flight \ {r} : q.slot \in Slots \ {"source"} => applied'[q.slot] # q.n
  PROVE  TurnInv'
<1>1. /\ seq \in Nat /\ seq' = IF sent = {} THEN seq ELSE seq + 1
      /\ flight' = (flight \ {r}) \cup sent
  BY DEF BaseInv, Settle
<1>2. \A q \in sent : /\ q.slot \in Slots \ {"source"}
                      /\ q.n = seq + 1 /\ q.turn = seq + 1
                      /\ \A x \in sent : x.slot = q.slot => x = q
  <2>1. CASE sent = Send(store')
    BY <2>1, SendApart DEF Send, Request, Slots, Queries
  <2>2. CASE sent = {Request("namespaces", r.q, 0, seq + 1)}
    BY <2>2 DEF Request, Slots
  <2> QED BY <2>1, <2>2 DEF Follows
<1>3. \A s \in Slots : applied'[s] <= latest'[s] /\ latest'[s] <= seq'
  BY <1>1
<1>4. \A q \in flight' : /\ q.slot \in Slots \cup More
                         /\ q.slot \in Slots => q.n = q.turn
                         /\ q.slot \in More => q.n \in Nat /\ q.n <= latest'[Half(q.slot)]
  <2> SUFFICES ASSUME NEW q \in flight'
               PROVE  /\ q.slot \in Slots \cup More
                      /\ q.slot \in Slots => q.n = q.turn
                      /\ q.slot \in More => q.n \in Nat /\ q.n <= latest'[Half(q.slot)]
      OBVIOUS
  <2>1. CASE q \in flight
    <3>1. q.slot \in More => Half(q.slot) \in Slots
      BY SlotsApart
    <3>2. q.slot \in More => latest[Half(q.slot)] <= latest'[Half(q.slot)]
                             /\ latest[Half(q.slot)] \in Nat /\ latest'[Half(q.slot)] \in Nat
      BY <3>1 DEF TurnInv
    <3> QED BY <2>1, <3>2 DEF TurnInv
  <2>2. CASE q \in sent
    BY <1>2, <2>2, SlotsApart
  <2> QED BY <1>1, <2>1, <2>2
<1>5. \A q \in flight : q.slot \in Slots => q.n \in 1..seq
  BY DEF TurnInv, BaseInv
<1>6. \A q \in flight : q.slot \in More => q.n \in Nat /\ q.n <= seq
  <2>1. \A q \in flight : q.slot \in More =>
          /\ q.n \in Nat /\ q.n <= latest[Half(q.slot)]
          /\ latest[Half(q.slot)] \in Nat /\ latest[Half(q.slot)] <= seq
    BY SlotsApart DEF TurnInv
  <2> QED BY <1>1, <2>1
<1>7. ASSUME NEW q \in flight', q.slot \in Slots \ {"source"}
      PROVE  /\ applied'[q.slot] # q.n
             /\ \A x \in flight' : x.slot = q.slot /\ x.n = q.n => x = q
             /\ \A x \in flight' : x.slot \in More /\ Half(x.slot) = q.slot => x.n # q.n
  <2>1. CASE q \in flight \ {r}
    <3>1. q.n # seq + 1
      BY <1>1, <1>5, <1>7, <2>1
    <3> QED BY <1>1, <1>2, <1>7, <2>1, <3>1, SlotsApart DEF TurnInv
  <2>2. CASE q \in sent
    <3>1. applied'[q.slot] # seq + 1
      BY <1>1, <1>7
    <3>2. \A x \in flight : x.slot \in Slots \cup More => x.n # seq + 1
      BY <1>1, <1>5, <1>6
    <3> QED BY <1>1, <1>2, <1>7, <2>2, <3>1, <3>2, SlotsApart
  <2> QED BY <1>1, <2>1, <2>2
<1> QED BY <1>3, <1>4, <1>7 DEF TurnInv

\* What an answer makes count.
LEMMA UpperIs == \A a, b \in Nat : Upper(a, b) \in Nat /\ a <= Upper(a, b) /\ b <= Upper(a, b)
                                   /\ (Upper(a, b) = a \/ Upper(a, b) = b)
  BY DEF Upper

LEMMA TurnCounts ==
  ASSUME BaseInv, TurnInv, NEW r \in flight, NEW ok, NEW sent,
         Settle(r, ok, sent), Follows(r, sent),
         NEW slot \in Slots, NEW n \in Nat, Counts(slot, n),
         n = r.n \/ n = 0, n <= seq,
         r.slot = slot \/ (r.slot \in More /\ Half(r.slot) = slot)
  PROVE  TurnInv'
<1>1. \A s \in Slots : applied'[s] = (IF s = slot THEN n ELSE applied[s])
                       /\ latest'[s] = (IF s = slot THEN Upper(latest[s], n) ELSE latest[s])
  BY DEF Counts, TurnInv
<1>2. /\ DOMAIN applied' = Slots /\ DOMAIN latest' = Slots
      /\ \A s \in Slots : /\ applied'[s] \in Nat /\ latest'[s] \in Nat
                          /\ applied'[s] <= latest'[s]
                          /\ latest[s] <= latest'[s] /\ latest'[s] <= seq
  <2>1. DOMAIN applied' = Slots /\ DOMAIN latest' = Slots
    BY DEF Counts, TurnInv
  <2>2. ASSUME NEW s \in Slots
        PROVE  /\ applied'[s] \in Nat /\ latest'[s] \in Nat
               /\ applied'[s] <= latest'[s]
               /\ latest[s] <= latest'[s] /\ latest'[s] <= seq
    <3>1. /\ applied[s] \in Nat /\ latest[s] \in Nat /\ seq \in Nat
          /\ applied[s] <= latest[s] /\ latest[s] <= seq
      BY DEF TurnInv, BaseInv
    <3>2. CASE s = slot
      BY <1>1, <3>1, <3>2, UpperIs
    <3>3. CASE s # slot
      BY <1>1, <3>1, <3>3
    <3> QED BY <3>2, <3>3
  <2> QED BY <2>1, <2>2
<1>3. ASSUME NEW q \in flight \ {r}, q.slot \in Slots \ {"source"} PROVE applied'[q.slot] # q.n
  <2>1. q.n \in 1..seq
    BY <1>3 DEF TurnInv, BaseInv
  <2>2. CASE q.slot = slot
    BY <1>1, <1>3, <2>1, <2>2 DEF TurnInv, BaseInv
  <2>3. CASE q.slot # slot
    BY <1>1, <1>3, <2>3 DEF TurnInv
  <2> QED BY <2>2, <2>3
<1> QED BY <1>2, <1>3, TurnSettle


\* When r is over without an answer that counts.
LEMMA TurnFails ==
  ASSUME BaseInv, TurnInv, NEW r \in flight, Fail(r)
  PROVE  TurnInv'
<1>1. PICK ok, sent : Settle(r, ok, sent) /\ Follows(r, sent)
  BY AnswersSettle
<1>2. /\ applied' = applied /\ DOMAIN latest' = Slots
      /\ \A s \in Slots : latest'[s] = IF s = r.slot THEN Upper(latest[s], r.n) ELSE latest[s]
  BY DEF Fail, TurnInv
<1>3. r.slot \in Slots => r.n \in 1..seq
  BY DEF TurnInv, BaseInv
<1>4. ASSUME NEW s \in Slots
      PROVE  /\ applied'[s] \in Nat /\ latest'[s] \in Nat
             /\ applied'[s] <= latest'[s]
             /\ latest[s] <= latest'[s] /\ latest'[s] <= seq
  <2>1. /\ applied[s] \in Nat /\ latest[s] \in Nat /\ seq \in Nat
        /\ applied[s] <= latest[s] /\ latest[s] <= seq
    BY DEF TurnInv, BaseInv
  <2>2. CASE s = r.slot
    <3>1. r.n \in Nat /\ r.n <= seq
      BY <1>3, <2>1, <2>2
    <3>2. latest'[s] = Upper(latest[s], r.n) /\ applied'[s] = applied[s]
      BY <1>2, <2>2
    <3>3. /\ latest'[s] \in Nat /\ latest[s] <= latest'[s]
          /\ latest'[s] = latest[s] \/ latest'[s] = r.n
      BY <2>1, <3>1, <3>2, UpperIs
    <3> QED BY <2>1, <3>1, <3>2, <3>3
  <2>3. CASE s # r.slot
    BY <1>2, <2>1, <2>3
  <2> QED BY <2>2, <2>3
<1>5. DOMAIN applied' = Slots
  BY <1>2 DEF TurnInv
<1>6. \A q \in flight \ {r} : q.slot \in Slots \ {"source"} => applied'[q.slot] # q.n
  BY <1>2 DEF TurnInv
<1> QED BY <1>1, <1>2, <1>4, <1>5, <1>6, TurnSettle

LEMMA TurnAnswer ==
  ASSUME BaseInv, TurnInv, NEW r \in flight,
         \/ SetData(r) \/ PrependMoreLogs(r) \/ ConcatMoreLogs(r)
         \/ SetSource(r) \/ SetNamespaces(r) \/ Fail(r)
  PROVE  TurnInv'
<1>1. PICK ok, sent : Settle(r, ok, sent) /\ Follows(r, sent)
  BY AnswersSettle
<1>2. seq \in Nat /\ (r.slot \in Slots => r.n \in Nat /\ r.n <= seq)
  BY DEF TurnInv, BaseInv
<1>3. CASE SetData(r) \/ SetSource(r) \/ SetNamespaces(r)
  <2>1. r.slot \in Slots /\ Counts(r.slot, r.n)
    BY <1>3, SlotsApart DEF SetData, SetSource, SetNamespaces
  <2> QED BY <1>1, <1>2, <2>1, TurnCounts
<1>4. ASSUME r.slot \in More, Counts(Half(r.slot), IF r.n = applied[Half(r.slot)] THEN r.n ELSE 0)
      PROVE  TurnInv'
  <2>1. Half(r.slot) \in Slots
    BY SlotsApart
  <2>2. /\ r.n \in Nat /\ r.n <= latest[Half(r.slot)]
        /\ latest[Half(r.slot)] \in Nat /\ latest[Half(r.slot)] <= seq
    BY <1>4, <2>1 DEF TurnInv
  <2>3. r.n \in Nat /\ r.n <= seq
    BY <1>2, <2>2
  <2>4. PICK n \in {r.n, 0} : Counts(Half(r.slot), n)
    BY <1>4
  <2> QED BY <1>1, <1>2, <1>4, <2>1, <2>3, <2>4, TurnCounts
<1>5. CASE PrependMoreLogs(r) \/ ConcatMoreLogs(r)
  BY <1>4, <1>5 DEF PrependMoreLogs, ConcatMoreLogs, Joins, Half, More
<1>6. CASE Fail(r)
  BY <1>6, TurnFails
<1> QED BY <1>3, <1>5, <1>6

LEMMA TurnInit == Init => TurnInv
<1> SUFFICES ASSUME Init PROVE TurnInv
    OBVIOUS
<1>1. /\ applied = [s \in Slots |-> 0] /\ latest = [s \in Slots |-> 0]
      /\ flight = {} /\ seq = 0
  BY Zenon DEF Init
<1> QED BY <1>1 DEF TurnInv

LEMMA TurnAct ==
  ASSUME BaseInv, TurnInv, NEW p, NEW st, NEW sent, UserAct(p, st, sent)
  PROVE  TurnInv'
<1> DEFINE new == sent \cup AskSource(p, st)
<1>1. /\ seq \in Nat /\ seq' = seq + 1
      /\ flight' = flight \cup new
      /\ applied' = applied /\ latest' = latest
  BY DEF UserAct, Act, BaseInv
<1>2. \A q \in new : /\ q.turn = seq + 1
                     /\ \/ q.slot \in Slots /\ q.n = seq + 1
                        \/ q.slot \in More /\ q.n = applied[Half(q.slot)]
  BY NewRequests, SlotsApart
<1>3. \A q \in new, x \in new : q.slot \in Queries /\ x.slot = q.slot => x = q
  <2>1. \A q \in new : q.slot \in Queries => q \in Send(st)
    BY NewRequests, SlotsApart DEF AskSource, Request
  <2> QED BY <2>1, SendApart
<1>4. \A q \in new : q.slot # "namespaces"
  BY NewRequests, SlotsApart
<1> HIDE DEF new
<1>5. \A s \in Slots : /\ applied[s] \in Nat /\ latest[s] \in Nat
                       /\ applied[s] <= latest[s] /\ latest[s] <= seq'
                       /\ applied[s] # seq + 1
  BY <1>1 DEF TurnInv
<1>6. \A q \in flight : q.slot \in Slots => q.n \in 1..seq
  BY DEF TurnInv, BaseInv
<1>7. \A q \in flight : q.slot \in More => q.n \in Nat /\ q.n <= seq
  <2>1. \A q \in flight : q.slot \in More =>
          /\ q.n \in Nat /\ q.n <= latest[Half(q.slot)]
          /\ latest[Half(q.slot)] \in Nat /\ latest[Half(q.slot)] <= seq
    BY SlotsApart DEF TurnInv
  <2> QED BY <1>1, <2>1
<1>8. \A q \in flight' : /\ q.slot \in Slots \cup More
                         /\ q.slot \in Slots => q.n = q.turn
                         /\ q.slot \in More => q.n \in Nat /\ q.n <= latest[Half(q.slot)]
  <2>1. \A q \in new : q.slot \in More => q.n \in Nat /\ q.n <= latest[Half(q.slot)]
    BY <1>2, <1>5, SlotsApart
  <2> QED BY <1>1, <1>2, <2>1, SlotsApart DEF TurnInv
<1>9. ASSUME NEW q \in flight', q.slot \in Slots \ {"source"}
      PROVE  /\ applied[q.slot] # q.n
             /\ \A x \in flight' : x.slot = q.slot /\ x.n = q.n => x = q
             /\ \A x \in flight' : x.slot \in More /\ Half(x.slot) = q.slot => x.n # q.n
  <2>1. CASE q \in flight
    <3>1. q.n # seq + 1
      BY <1>1, <1>6, <1>9, <2>1
    <3>2. applied[q.slot] # q.n
      BY <1>9, <2>1 DEF TurnInv
    <3>3. \A x \in new : x.slot = q.slot => x.n # q.n
      BY <1>2, <1>9, <3>1, SlotsApart
    <3>4. \A x \in new : x.slot \in More /\ Half(x.slot) = q.slot => x.n # q.n
      BY <1>2, <3>2, SlotsApart
    <3> QED BY <1>1, <1>9, <2>1, <3>2, <3>3, <3>4 DEF TurnInv
  <2>2. CASE q \in new
    <3>1. q.n = seq + 1 /\ q.slot \in Queries
      BY <1>2, <1>4, <1>9, <2>2, SlotsApart
    <3>2. \A x \in flight : x.slot \in Slots \cup More => x.n # seq + 1
      BY <1>1, <1>6, <1>7
    <3>3. \A x \in new : x.slot \in More /\ Half(x.slot) = q.slot => x.n # seq + 1
      BY <1>2, <1>5, <1>9, SlotsApart
    <3> QED BY <1>1, <1>3, <1>5, <1>9, <2>2, <3>1, <3>2, <3>3 DEF TurnInv
  <2> QED BY <1>1, <2>1, <2>2
<1> QED BY <1>1, <1>5, <1>8, <1>9 DEF TurnInv

LEMMA TurnStep == BaseInv /\ TurnInv /\ [Next]_vars => TurnInv'
<1> SUFFICES ASSUME BaseInv, TurnInv, [Next]_vars PROVE TurnInv'
    OBVIOUS
<1>1. CASE \/ Mount \/ Tick \/ ChangeTerm \/ SetTimeWindow \/ ChooseCustomTime
           \/ ChooseRelativeTime \/ Pause \/ Play \/ ChooseNamespace \/ ChooseSource
           \/ LoadMoreAbove \/ LoadMoreBelow
  BY <1>1, TurnAct, UserActs DEF BaseInv
<1>2. CASE Answer
  BY <1>2, TurnAnswer DEF Answer
<1>3. CASE Unmount \/ Grow \/ UNCHANGED vars
  BY <1>3 DEF Unmount, Grow, vars, TurnInv
<1> QED BY <1>1, <1>2, <1>3 DEF Next

-----------------------------------------------------------------------------
(* What is pending. In the requests F, one for a slot that was last answered  *)
(* in turn L is pending if it is the latest; or all of them are over, if an   *)
(* answer to any would be late.                                              *)

Pending(F, L, slot, x) ==
  \E r \in F : /\ r.slot = slot /\ r.q = x /\ L < r.n
               /\ \A q \in F : q.slot = slot => q.n <= r.n

Over(F, L, slot) == \A q \in F : q.slot = slot => q.n < L

\* Requests for other slots do not matter.
LEMMA OtherSlots ==
  ASSUME NEW F, NEW G, NEW L, NEW slot, NEW x, \A q : q.slot = slot => (q \in F <=> q \in G)
  PROVE  /\ Pending(F, L, slot, x) <=> Pending(G, L, slot, x)
         /\ Over(F, L, slot) <=> Over(G, L, slot)
  BY DEF Pending, Over

\* One request for the slot is over: it was late, or it was the pending one, or
\* the pending one goes on.
LEMMA OneIsOver ==
  ASSUME NEW F, NEW G, NEW L \in Nat, NEW slot, NEW x, NEW r \in F, r.slot = slot,
         \A q \in F : q.slot = slot => q.n \in Nat,
         \A q \in F : q.slot = slot /\ q.n = r.n => q = r,
         \A q : q.slot = slot => (q \in G <=> q \in F \ {r})
  PROVE  /\ Over(F, L, slot) => r.n < L /\ Upper(L, r.n) = L /\ Over(G, L, slot)
         /\ Pending(F, L, slot, x) =>
              \/ Pending(G, Upper(L, r.n), slot, x)
              \/ r.q = x /\ L < r.n /\ Upper(L, r.n) = r.n /\ Over(G, r.n, slot)
<1>1. r.n \in Nat
  OBVIOUS
<1>2. ASSUME Over(F, L, slot) PROVE r.n < L /\ Upper(L, r.n) = L /\ Over(G, L, slot)
  <2>1. r.n < L
    BY <1>2 DEF Over
  <2> QED BY <1>1, <1>2, <2>1 DEF Over, Upper
<1>3. ASSUME Pending(F, L, slot, x)
      PROVE  \/ Pending(G, Upper(L, r.n), slot, x)
             \/ r.q = x /\ L < r.n /\ Upper(L, r.n) = r.n /\ Over(G, r.n, slot)
  <2>1. PICK p \in F : /\ p.slot = slot /\ p.q = x /\ L < p.n
                       /\ \A q \in F : q.slot = slot => q.n <= p.n
    BY <1>3 DEF Pending
  <2>2. p.n \in Nat
    BY <2>1
  <2>3. CASE p = r
    <3>1. \A q \in G : q.slot = slot => q.n \in Nat /\ q.n <= r.n /\ q.n # r.n
      BY <2>1, <2>3
    <3>2. \A a, b \in Nat : a <= b /\ a # b => a < b
      OBVIOUS
    <3>3. Over(G, r.n, slot)
      BY <1>1, <3>1, <3>2 DEF Over
    <3> QED BY <1>1, <2>1, <2>3, <3>3 DEF Upper
  <2>4. CASE p # r
    <3>1. r.n <= p.n /\ r.n # p.n
      BY <2>1, <2>4
    <3>2. Upper(L, r.n) < p.n
      BY <1>1, <2>1, <2>2, <3>1 DEF Upper
    <3> QED BY <2>1, <2>4, <3>2 DEF Pending
  <2> QED BY <2>3, <2>4
<1> QED BY <1>2, <1>3

\* A request of the latest turn is pending.
LEMMA NewIsPending ==
  ASSUME NEW F, NEW L \in Nat, NEW n \in Nat, NEW slot, NEW r \in F, r.slot = slot, r.n = n, L < n,
         \A q \in F : q.slot = slot => q.n <= n
  PROVE  Pending(F, L, slot, r.q) /\ ~Over(F, L, slot)
<1>1. Pending(F, L, slot, r.q)
  BY DEF Pending
<1> QED BY <1>1 DEF Over

-----------------------------------------------------------------------------
(* The source and its databases.                                           *)

SourceInv ==
  /\ store.ns # None \/ store.namespaces # None => store.source # None
  /\ \A r \in flight : r.slot = "namespaces" => store.source # None

NamespacesInv ==
  \/ Pending(flight, latest["namespaces"], "namespaces", store.source)
  \/ /\ Over(flight, latest["namespaces"], "namespaces")
     /\ applied["namespaces"] = latest["namespaces"] => store.namespaces = store.source

ChoiceInv == BaseInv /\ TurnInv /\ SourceInv /\ NamespacesInv

\* What is at a place is known of a slot when only other slots are answered.
LEMMA NamespacesKept ==
  ASSUME NamespacesInv,
         \A q : q.slot = "namespaces" => (q \in flight' <=> q \in flight),
         latest'["namespaces"] = latest["namespaces"],
         applied'["namespaces"] = applied["namespaces"],
         store'.source = store.source, store'.namespaces = store.namespaces
  PROVE  NamespacesInv'
<1>1. \A x : /\ Pending(flight', latest["namespaces"], "namespaces", x)
                  <=> Pending(flight, latest["namespaces"], "namespaces", x)
             /\ Over(flight', latest["namespaces"], "namespaces")
                  <=> Over(flight, latest["namespaces"], "namespaces")
  BY OtherSlots
<1>2. NamespacesInv' <=>
        \/ Pending(flight', latest'["namespaces"], "namespaces", store'.source)
        \/ /\ Over(flight', latest'["namespaces"], "namespaces")
           /\ applied'["namespaces"] = latest'["namespaces"] => store'.namespaces = store'.source
  BY DEF NamespacesInv, Pending, Over
<1> QED BY <1>1, <1>2 DEF NamespacesInv

LEMMA ChoiceInit == Init => SourceInv /\ NamespacesInv
<1> SUFFICES ASSUME Init PROVE SourceInv /\ NamespacesInv
    OBVIOUS
<1>1. flight = {} /\ store.namespaces = store.source /\ (store.ns # None => store.source # None)
  <2>1. ASSUME NEW t, NEW w
        PROVE  LET st == NoStore(t, w) IN st.namespaces = st.source /\ st.ns = None
    BY DEF NoStore
  <2>2. ASSUME NEW t, NEW w, NEW s \in Sources
        PROVE  LET st == [NoStore(t, w) EXCEPT !.source = s, !.namespaces = s,
                                             !.ns = Preferred[s]]
               IN  st.namespaces = s /\ st.source = s
    BY DEF NoStore
  <2>3. PICK t \in Terms, w \in Windows :
          \/ store = NoStore(t, w)
          \/ \E s \in Sources : store = [NoStore(t, w) EXCEPT !.source = s, !.namespaces = s,
                                                             !.ns = Preferred[s]]
    BY Zenon DEF Init
  <2>4. flight = {}
    BY Zenon DEF Init
  <2>5. CASE store = NoStore(t, w)
    <3>1. store.namespaces = store.source /\ store.ns = None
      BY ONLY <2>1, <2>5
    <3> QED BY <2>4, <3>1
  <2>6. ASSUME NEW s \in Sources,
               store = [NoStore(t, w) EXCEPT !.source = s, !.namespaces = s,
                                             !.ns = Preferred[s]]
        PROVE  store.namespaces = s /\ store.source = s
    BY ONLY <2>2, <2>6
  <2> QED BY <2>3, <2>4, <2>5, <2>6, LogsViewerAssumption
<1>2. store.namespaces # None => store.source # None
  BY <1>1
<1> QED BY <1>1, <1>2 DEF SourceInv, NamespacesInv, Over

LEMMA ChoiceAct ==
  ASSUME ChoiceInv, NEW p, NEW st, NEW sent, UserAct(p, st, sent)
  PROVE  SourceInv' /\ NamespacesInv'
<1>1. /\ flight' = flight \cup (sent \cup AskSource(p, st))
      /\ applied' = applied /\ latest' = latest /\ store' = st
      /\ st.source = store.source /\ st.namespaces = store.namespaces
      /\ st.ns = store.ns \/ (store.namespaces # None /\ st.ns # None)
  BY DEF UserAct, Act
<1>2. \A q \in sent \cup AskSource(p, st) : q.slot # "namespaces"
  BY NewRequests, SlotsApart
<1>3. SourceInv'
  BY <1>1, <1>2 DEF SourceInv, ChoiceInv
<1>4. NamespacesInv'
  BY <1>1, <1>2, NamespacesKept DEF ChoiceInv
<1> QED BY <1>3, <1>4

\* What an answer for the histogram or the table leaves alone.
LEMMA LogsAnswered ==
  ASSUME NEW r, \/ SetData(r) \/ PrependMoreLogs(r) \/ ConcatMoreLogs(r),
         TurnInv
  PROVE  /\ store' = store /\ flight' = flight \ {r} /\ r.slot \in Queries \cup More
         /\ latest'["namespaces"] = latest["namespaces"]
         /\ applied'["namespaces"] = applied["namespaces"]
<1>1. ASSUME NEW slot \in Queries, NEW n, Counts(slot, n)
      PROVE  /\ latest'["namespaces"] = latest["namespaces"]
             /\ applied'["namespaces"] = applied["namespaces"]
  BY <1>1, SlotsApart DEF Counts, TurnInv
<1>2. CASE SetData(r)
  BY <1>1, <1>2 DEF SetData, Settle
<1>3. CASE PrependMoreLogs(r) \/ ConcatMoreLogs(r)
  BY <1>1, <1>3 DEF PrependMoreLogs, ConcatMoreLogs, Joins, Settle, More, Queries
<1> QED BY <1>2, <1>3

\* Requests for the source are answered by a new one for its databases.
LEMMA SourceAnswered ==
  ASSUME BaseInv, TurnInv, NEW r \in flight, SetSource(r)
  PROVE  /\ store'.source = r.q /\ r.q \in Sources
         /\ store'.ns = store.ns /\ store'.namespaces = store.namespaces
         /\ Pending(flight', latest'["namespaces"], "namespaces", r.q)
         /\ ~Over(flight', latest'["namespaces"], "namespaces")
<1> DEFINE new == Request("namespaces", r.q, 0, seq + 1)
<1>1. /\ r.slot = "source" /\ flight' = (flight \ {r}) \cup {new}
      /\ store' = [store EXCEPT !.source = r.q]
      /\ latest' = [latest EXCEPT !["source"] = Upper(@, r.n)]
  BY DEF SetSource, Settle, Counts
<1>2. new.slot = "namespaces" /\ new.q = r.q /\ new.n = seq + 1
  BY DEF Request
<1> HIDE DEF new
<1>3. latest'["namespaces"] \in Nat /\ latest'["namespaces"] < seq + 1 /\ seq + 1 \in Nat
  <2>1. latest'["namespaces"] = latest["namespaces"]
    BY <1>1, SlotsApart DEF TurnInv
  <2>2. latest["namespaces"] \in Nat /\ latest["namespaces"] <= seq /\ seq \in Nat
    BY SlotsApart DEF TurnInv, BaseInv
  <2> QED BY <2>1, <2>2
<1>4. \A q \in flight' : q.slot = "namespaces" => q.n <= seq + 1
  <2>1. \A q \in flight : q.slot = "namespaces" => q.n \in 1..seq
    BY SlotsApart DEF TurnInv, BaseInv
  <2> QED BY <1>1, <1>2, <2>1 DEF BaseInv
<1>5. new \in flight'
  BY <1>1
<1>6. /\ Pending(flight', latest'["namespaces"], "namespaces", new.q)
      /\ ~Over(flight', latest'["namespaces"], "namespaces")
  BY <1>2, <1>3, <1>4, <1>5, NewIsPending
<1> QED BY <1>1, <1>2, <1>6 DEF BaseInv, StoreOK

\* An answer to a request for databases: with them, or without.
LEMMA NamespacesAnswered ==
  ASSUME BaseInv, TurnInv, NEW r \in flight, r.slot = "namespaces",
         SetNamespaces(r) \/ Fail(r)
  PROVE  /\ \A q : q.slot = "namespaces" => (q \in flight' <=> q \in flight \ {r})
         /\ latest'["namespaces"] = Upper(latest["namespaces"], r.n)
         /\ store'.source = store.source
         /\ \/ store'.namespaces = r.q /\ applied'["namespaces"] = r.n
            \/ store' = store /\ applied' = applied
<1>1. CASE SetNamespaces(r)
  <2>1. /\ flight' = (flight \ {r}) \cup Send(store')
        /\ store' = [store EXCEPT !.namespaces = r.q, !.ns = Preferred[r.q]]
        /\ Counts("namespaces", r.n)
    BY <1>1 DEF SetNamespaces, Settle
  <2>2. store'.source = store.source /\ store'.namespaces = r.q
    BY <2>1 DEF BaseInv, StoreOK
  <2>3. \A q \in Send(store') : q.slot # "namespaces"
    BY SlotsApart DEF Send, Request
  <2>4. /\ latest'["namespaces"] = Upper(latest["namespaces"], r.n)
        /\ applied'["namespaces"] = r.n
    BY <2>1, SlotsApart DEF Counts, TurnInv
  <2> QED BY <2>1, <2>2, <2>3, <2>4
<1>2. CASE Fail(r)
  BY <1>2, SlotsApart DEF Fail, Settle, TurnInv
<1> QED BY <1>1, <1>2

LEMMA ChoiceAnswer ==
  ASSUME ChoiceInv, NEW r \in flight,
         \/ SetData(r) \/ PrependMoreLogs(r) \/ ConcatMoreLogs(r)
         \/ SetSource(r) \/ SetNamespaces(r) \/ Fail(r)
  PROVE  SourceInv' /\ NamespacesInv'
<1> USE DEF ChoiceInv
<1> DEFINE L == latest["namespaces"]
           K == latest'["namespaces"]
<1>0. NamespacesInv' <=>
        \/ Pending(flight', K, "namespaces", store'.source)
        \/ /\ Over(flight', K, "namespaces")
           /\ applied'["namespaces"] = K => store'.namespaces = store'.source
  BY DEF NamespacesInv, Pending, Over
<1>1. CASE SetData(r) \/ PrependMoreLogs(r) \/ ConcatMoreLogs(r)
  <2>1. /\ store' = store /\ flight' = flight \ {r} /\ r.slot # "namespaces"
        /\ latest'["namespaces"] = latest["namespaces"]
        /\ applied'["namespaces"] = applied["namespaces"]
    BY <1>1, LogsAnswered, SlotsApart
  <2>2. SourceInv'
    BY <2>1 DEF SourceInv
  <2> QED BY <2>1, <2>2, NamespacesKept
<1>2. CASE SetSource(r)
  <2>1. /\ store'.source = r.q /\ r.q \in Sources
        /\ Pending(flight', K, "namespaces", r.q)
    BY <1>2, SourceAnswered
  <2> QED BY <1>0, <2>1, LogsViewerAssumption DEF SourceInv
<1>3. CASE r.slot = "namespaces" /\ (SetNamespaces(r) \/ Fail(r))
  <2>1. /\ \A q : q.slot = "namespaces" => (q \in flight' <=> q \in flight \ {r})
        /\ K = Upper(L, r.n)
        /\ store'.source = store.source
        /\ \/ store'.namespaces = r.q /\ applied'["namespaces"] = r.n
           \/ store' = store /\ applied' = applied
    BY <1>3, NamespacesAnswered
  <2>2. L \in Nat /\ applied["namespaces"] \in Nat /\ applied["namespaces"] <= L
    BY SlotsApart DEF TurnInv
  <2>3. \A q \in flight : q.slot = "namespaces" => q.n \in Nat
    BY SlotsApart DEF TurnInv, BaseInv
  <2>4. \A q \in flight : q.slot = "namespaces" /\ q.n = r.n => q = r
    BY <1>3, SlotsApart DEF TurnInv
  <2>5. /\ Over(flight, L, "namespaces") => /\ r.n < L /\ Upper(L, r.n) = L
                                            /\ Over(flight', L, "namespaces")
        /\ Pending(flight, L, "namespaces", store.source) =>
              \/ Pending(flight', Upper(L, r.n), "namespaces", store.source)
              \/ /\ r.q = store.source /\ L < r.n /\ Upper(L, r.n) = r.n
                 /\ Over(flight', r.n, "namespaces")
    BY <1>3, <2>1, <2>2, <2>3, <2>4, OneIsOver
  <2>6. store.source # None
    BY <1>3 DEF SourceInv
  <2>7. SourceInv'
    BY <2>1, <2>6 DEF SourceInv
  <2>8. r.n \in Nat
    BY <1>3, <2>3
  <2> HIDE DEF L, K
  <2>9. CASE Pending(flight, L, "namespaces", store.source)
    <3>1. CASE Pending(flight', Upper(L, r.n), "namespaces", store.source)
      BY <1>0, <2>1, <2>7, <3>1
    <3>2. CASE /\ r.q = store.source /\ L < r.n /\ Upper(L, r.n) = r.n
               /\ Over(flight', r.n, "namespaces")
      <4>1. applied["namespaces"] # r.n
        BY <2>2, <2>8, <3>2
      <4> QED BY <1>0, <2>1, <2>7, <3>2, <4>1
    <3> QED BY <2>5, <2>9, <3>1, <3>2
  <2>10. CASE /\ Over(flight, L, "namespaces")
              /\ applied["namespaces"] = L => store.namespaces = store.source
    <3>1. r.n < L /\ K = L /\ Over(flight', K, "namespaces")
      BY <2>1, <2>5, <2>10
    <3>2. r.n # L
      BY <2>2, <2>8, <3>1
    <3> QED BY <1>0, <2>1, <2>7, <2>10, <3>1, <3>2
  <2> QED BY <2>9, <2>10 DEF NamespacesInv, L
<1>4. CASE r.slot # "namespaces" /\ Fail(r)
  <2>1. /\ store' = store /\ flight' = flight \ {r} /\ applied' = applied
        /\ latest'["namespaces"] = latest["namespaces"]
    BY <1>4, SlotsApart DEF Fail, Settle, TurnInv
  <2>2. SourceInv'
    BY <2>1 DEF SourceInv
  <2> QED BY <1>4, <2>1, <2>2, NamespacesKept
<1> QED BY <1>1, <1>2, <1>3, <1>4 DEF SetNamespaces

LEMMA ChoiceStep == ChoiceInv /\ [Next]_vars => ChoiceInv'
<1> SUFFICES ASSUME ChoiceInv, [Next]_vars PROVE SourceInv' /\ NamespacesInv'
    BY BaseStep, TurnStep DEF ChoiceInv
<1>1. CASE \/ Mount \/ Tick \/ ChangeTerm \/ SetTimeWindow \/ ChooseCustomTime
           \/ ChooseRelativeTime \/ Pause \/ Play \/ ChooseNamespace \/ ChooseSource
           \/ LoadMoreAbove \/ LoadMoreBelow
  BY <1>1, ChoiceAct, UserActs DEF ChoiceInv, BaseInv
<1>2. CASE Answer
  BY <1>2, ChoiceAnswer DEF Answer
<1>3. CASE Unmount \/ Grow \/ UNCHANGED vars
  <2>1. /\ store' = store /\ flight' = flight /\ applied' = applied /\ latest' = latest
    BY <1>3 DEF Unmount, Grow, vars
  <2> QED BY <2>1, NamespacesKept DEF ChoiceInv, SourceInv
<1> QED BY <1>1, <1>2, <1>3 DEF Next

LEMMA ChoiceInductive == Spec => []ChoiceInv
<1>1. Init => ChoiceInv
  BY BaseInit, TurnInit, ChoiceInit DEF ChoiceInv
<1> QED BY <1>1, ChoiceStep, PTL DEF Spec

\* The databases one may choose from are those of the source that is chosen,
\* once the latest requests for either were the last to come back
\* (getSourceAndPopulateNamespacesAsync).
THEOREM ListedForSource == Spec => []NamespacesOfSource
<1>1. ChoiceInv => NamespacesOfSource
  BY DEF ChoiceInv, NamespacesInv, NamespacesOfSource, Settled, Origin, Waits, Pending
<1> QED BY <1>1, ChoiceInductive, PTL

-----------------------------------------------------------------------------
(* What is shown. As long as the databases of the source are known, every   *)
(* slot has a request pending for the question that the store asks now, or   *)
(* shows the answer to it, or an answer that came too late.                  *)

Known(F, st, a, L) == Over(F, L, "namespaces") /\ a = L /\ st.ns # None

KnownNow == Known(flight, store, applied["namespaces"], latest["namespaces"])

\* The slot s answers the question x; so will what is still to be joined to it.
AnswersTo(F, qs, a, s, x) ==
  qs = {x} /\ \A r \in F : r.slot \in More /\ Half(r.slot) = s /\ r.n = a => r.q = x

Right(F, L, a, qs, s, x) ==
  \/ Pending(F, L, s, x)
  \/ Over(F, L, s) /\ (a = L => AnswersTo(F, qs, a, s, x))

RightNow(s) == Right(flight, latest[s], applied[s], shown[s].qs, s, Question(store))

ShownInv == KnownNow => \A s \in Queries : RightNow(s)

AskedInv == ChoiceInv /\ DOMAIN shown = Queries /\ ShownInv

\* The primed forms, in primed variables.
LEMMA ShownNext ==
  ShownInv' <=>
    (Known(flight', store', applied'["namespaces"], latest'["namespaces"]) =>
       \A s \in Queries :
          Right(flight', latest'[s], applied'[s], shown'[s].qs, s, Question(store')))
  BY DEF ShownInv, KnownNow, RightNow, Known, Right, AnswersTo, Pending, Over, Question,
         More, Half

\* A slot stays right when only requests for other slots come and go, and none
\* that is to be joined to it unless it asks the same.
LEMMA RightKept ==
  ASSUME NEW F, NEW G, NEW L, NEW a, NEW qs, NEW s, NEW x, Right(F, L, a, qs, s, x),
         \A q : q.slot = s => (q \in F <=> q \in G),
         \A q \in G \ F : q.slot \in More /\ Half(q.slot) = s => q.q = x
  PROVE  Right(G, L, a, qs, s, x)
<1>1. /\ Pending(F, L, s, x) => Pending(G, L, s, x)
      /\ Over(F, L, s) => Over(G, L, s)
  BY OtherSlots
<1>2. AnswersTo(F, qs, a, s, x) => AnswersTo(G, qs, a, s, x)
  BY DEF AnswersTo
<1> QED BY <1>1, <1>2 DEF Right

\* Whenever a store that asks something has its queries sent, all are pending.
LEMMA SendIsRight ==
  ASSUME BaseInv, TurnInv, NEW st, NEW s \in Queries, NEW G, NEW F,
         st.source # None, st.ns # None, Send(st) \subseteq G,
         \A q \in G : q \in flight \/ q \in Send(st) \/ q.slot = "source"
                      \/ q.slot = "namespaces" \/ q.slot \in More,
         NEW L \in Nat, L <= seq, NEW a, NEW qs
  PROVE  Right(G, L, a, qs, s, Question(st))
<1> DEFINE r == Request(s, Question(st), Selected(st), seq + 1)
<1>1. r \in Send(st)
  BY DEF Send
<1>2. r.slot = s /\ r.q = Question(st) /\ r.n = seq + 1
  BY DEF Request
<1> HIDE DEF r
<1>3. \A q \in G : q.slot = s => q.n <= seq + 1
  <2>1. \A q \in flight : q.slot = s => q.n \in 1..seq
    BY SlotsApart DEF TurnInv, BaseInv
  <2>2. \A q \in Send(st) : q.n = seq + 1
    BY DEF Send, Request
  <2>3. seq \in Nat
    BY DEF BaseInv
  <2> QED BY <2>1, <2>2, <2>3, SlotsApart
<1>4. L < seq + 1 /\ seq + 1 \in Nat
  BY DEF BaseInv
<1>5. Pending(G, L, s, r.q)
  BY <1>1, <1>2, <1>3, <1>4, NewIsPending
<1> QED BY <1>2, <1>5 DEF Right

LEMMA ShownAct ==
  ASSUME AskedInv, NEW p, NEW st, NEW sent, UserAct(p, st, sent)
  PROVE  ShownInv'
<1> USE DEF AskedInv, ChoiceInv
<1>1. /\ flight' = flight \cup (sent \cup AskSource(p, st))
      /\ applied' = applied /\ latest' = latest /\ shown' = shown /\ store' = st
      /\ st.source = store.source /\ st.namespaces = store.namespaces
      /\ st.ns = store.ns \/ (store.namespaces # None /\ st.ns # None)
  BY DEF UserAct, Act
<1>2. SUFFICES ASSUME Known(flight', st, applied["namespaces"], latest["namespaces"]),
                      NEW s \in Queries
               PROVE  Right(flight', latest[s], applied[s], shown[s].qs, s, Question(st))
  BY <1>1, ShownNext
<1>3. st.ns # None /\ st.source # None
  BY <1>1, <1>2 DEF Known, SourceInv
<1>4. latest[s] \in Nat /\ latest[s] <= seq
  BY SlotsApart DEF TurnInv
<1>5. CASE sent = Send(st)
  <2>1. Send(st) \subseteq flight'
    BY <1>1, <1>5
  <2>2. \A q \in flight' : q \in flight \/ q \in Send(st) \/ q.slot = "source"
    BY <1>1, <1>5 DEF AskSource, Request
  <2> QED BY <1>3, <1>4, <2>1, <2>2, SendIsRight
<1>6. CASE st = store /\ \A r \in sent : Apart(r) /\ r.turn = seq + 1
  <2>1. \A q \in flight' \ flight :
          \/ q.slot = "source"
          \/ q.slot \in More /\ q.q = Question(store)
    BY <1>1, <1>6 DEF Apart, AskSource, Request
  <2>2. \A q : q.slot \in {"namespaces", s} => (q \in flight <=> q \in flight')
    BY <1>1, <2>1, SlotsApart
  <2>3. Over(flight, latest["namespaces"], "namespaces")
    BY <1>2, <2>2, OtherSlots DEF Known
  <2>4. RightNow(s)
    BY <1>2, <1>6, <2>3 DEF ShownInv, KnownNow, Known
  <2>5. \A q \in flight' \ flight : q.slot \in More /\ Half(q.slot) = s => q.q = Question(store)
    BY <2>1, SlotsApart
  <2> QED BY <1>6, <2>2, <2>4, <2>5, RightKept DEF RightNow
<1> QED BY <1>5, <1>6 DEF UserAct

\* When nothing is asked anew, and the slot of r and what it shows stay right,
\* all do.
LEMMA ShownLeft ==
  ASSUME AskedInv, NEW r \in flight, flight' = flight \ {r}, store' = store,
         r.slot # "namespaces", NEW slot \in Queries,
         r.slot \in Slots \ {"source"} => r.slot = slot,
         \A s \in Slots \ {"source", slot} : applied'[s] = applied[s] /\ latest'[s] = latest[s],
         \A s \in Queries \ {slot} : shown'[s] = shown[s],
         RightNow(slot) =>
           Right(flight', latest'[slot], applied'[slot], shown'[slot].qs, slot, Question(store))
  PROVE  ShownInv'
<1> USE DEF AskedInv, ChoiceInv
<1>1. SUFFICES ASSUME Known(flight', store, applied["namespaces"], latest["namespaces"]),
                      NEW s \in Queries
               PROVE  Right(flight', latest'[s], applied'[s], shown'[s].qs, s, Question(store))
  BY ShownNext, SlotsApart
<1>2. \A q : q.slot = "namespaces" => (q \in flight <=> q \in flight')
  OBVIOUS
<1>3. Over(flight, latest["namespaces"], "namespaces")
  BY <1>1, <1>2, OtherSlots DEF Known
<1>4. RightNow(s)
  BY <1>1, <1>3 DEF ShownInv, KnownNow, Known
<1>5. CASE s = slot
  BY <1>4, <1>5
<1>6. CASE s # slot
  <2>1. \A q : q.slot = s => (q \in flight <=> q \in flight')
    BY <1>6, SlotsApart
  <2>2. Right(flight', latest[s], applied[s], shown[s].qs, s, Question(store))
    BY <1>4, <2>1, RightKept DEF RightNow
  <2> QED BY <1>6, <2>2, SlotsApart
<1> QED BY <1>5, <1>6

\* A data set for a slot: it is the pending one, or late, or another is pending.
LEMMA ShownSet ==
  ASSUME AskedInv, NEW r \in flight, SetData(r)
  PROVE  ShownInv'
<1> USE DEF AskedInv, ChoiceInv
<1> DEFINE slot == r.slot
           x == Question(store)
<1>1. /\ slot \in Queries /\ flight' = flight \ {r} /\ store' = store
      /\ Counts(slot, r.n) /\ \E lines, whole : Show(slot, {r.q}, lines, whole)
  BY DEF SetData, Settle
<1>2. /\ applied'[slot] = r.n /\ latest'[slot] = Upper(latest[slot], r.n)
      /\ \A s \in Slots \ {"source", slot} : applied'[s] = applied[s] /\ latest'[s] = latest[s]
  BY <1>1, SlotsApart DEF Counts, TurnInv
<1>3. shown'[slot].qs = {r.q} /\ \A s \in Queries \ {slot} : shown'[s] = shown[s]
  BY <1>1 DEF Show
<1>4. latest[slot] \in Nat
  BY <1>1, SlotsApart DEF TurnInv
<1>5. /\ \A q \in flight : q.slot = slot => q.n \in Nat
      /\ \A q \in flight : q.slot = slot /\ q.n = r.n => q = r
  BY <1>1, SlotsApart DEF TurnInv, BaseInv
<1>6. \A q : q.slot = slot => (q \in flight' <=> q \in flight \ {r})
  BY <1>1
<1>7. /\ Over(flight, latest[slot], slot) => /\ r.n < latest[slot]
                                             /\ Upper(latest[slot], r.n) = latest[slot]
                                             /\ Over(flight', latest[slot], slot)
      /\ Pending(flight, latest[slot], slot, x) =>
            \/ Pending(flight', Upper(latest[slot], r.n), slot, x)
            \/ r.q = x /\ latest[slot] < r.n /\ Upper(latest[slot], r.n) = r.n
               /\ Over(flight', r.n, slot)
  <2>1. \A L \in Nat :
          /\ Over(flight, L, slot) => r.n < L /\ Upper(L, r.n) = L /\ Over(flight', L, slot)
          /\ Pending(flight, L, slot, x) =>
                \/ Pending(flight', Upper(L, r.n), slot, x)
                \/ r.q = x /\ L < r.n /\ Upper(L, r.n) = r.n /\ Over(flight', r.n, slot)
    BY <1>5, <1>6, OneIsOver
  <2> QED BY <1>4, <2>1
<1>8. r.n < latest[slot] => r.n # latest[slot]
  BY <1>4, <1>5
<1>9. AnswersTo(flight', {r.q}, r.n, slot, r.q)
  BY <1>1, SlotsApart DEF TurnInv, AnswersTo
<1>10. ASSUME RightNow(slot)
       PROVE  Right(flight', latest'[slot], applied'[slot], shown'[slot].qs, slot, x)
  <2> HIDE DEF slot, x
  <2>1. CASE Pending(flight, latest[slot], slot, x)
    BY <1>2, <1>3, <1>7, <1>9, <2>1 DEF Right
  <2>2. CASE Over(flight, latest[slot], slot)
    BY <1>2, <1>3, <1>7, <1>8, <2>2 DEF Right
  <2> QED BY <1>10, <2>1, <2>2 DEF RightNow, Right, x
<1>11. slot # "namespaces"
  BY <1>1, SlotsApart
<1> QED BY <1>1, <1>2, <1>3, <1>10, <1>11, ShownLeft

\* More rows join the data set that they were asked for, and the half goes on
\* answering the same question, or they join another, which then counts no more.
LEMMA ShownJoin ==
  ASSUME AskedInv, NEW r \in flight, r.slot \in More, NEW lines, NEW meets,
         Joins(Half(r.slot), r, lines, meets)
  PROVE  ShownInv'
<1> USE DEF AskedInv, ChoiceInv
<1> DEFINE slot == Half(r.slot)
           x == Question(store)
           n == IF r.n = applied[slot] THEN r.n ELSE 0
<1>1. /\ slot \in Queries /\ flight' = flight \ {r} /\ store' = store
      /\ Counts(slot, n)
      /\ Show(slot, shown[slot].qs \cup {r.q}, lines, shown[slot].whole /\ meets)
  BY SlotsApart DEF Joins, Settle
<1>2. /\ applied[slot] \in Nat /\ latest[slot] \in Nat /\ applied[slot] <= latest[slot]
      /\ r.n \in Nat /\ r.n <= latest[slot]
  BY <1>1, SlotsApart DEF TurnInv
<1>3. /\ shown'[slot].qs = shown[slot].qs \cup {r.q}
      /\ \A s \in Queries \ {slot} : shown'[s] = shown[s]
  BY <1>1 DEF Show
<1>4. /\ applied'[slot] = n /\ latest'[slot] = Upper(latest[slot], n)
      /\ \A s \in Slots \ {"source", slot} : applied'[s] = applied[s] /\ latest'[s] = latest[s]
  <2> HIDE DEF n
  <2> QED BY <1>1, SlotsApart DEF Counts, TurnInv
<1>5. latest'[slot] = latest[slot]
  BY <1>2, <1>4 DEF Upper
<1>6. \A q : q.slot = slot => (q \in flight <=> q \in flight')
  BY <1>1, SlotsApart
<1>7. /\ Pending(flight, latest[slot], slot, x) => Pending(flight', latest[slot], slot, x)
      /\ Over(flight, latest[slot], slot) => Over(flight', latest[slot], slot)
  BY <1>6, OtherSlots
<1>8. ASSUME applied[slot] = latest[slot] =>
                AnswersTo(flight, shown[slot].qs, applied[slot], slot, x),
             n = latest[slot]
      PROVE  AnswersTo(flight', shown'[slot].qs, n, slot, x)
  <2>1. applied[slot] = latest[slot] /\ r.n = applied[slot]
    BY <1>2, <1>8
  <2>2. r.q = x /\ shown[slot].qs = {x}
    BY <1>8, <2>1 DEF AnswersTo
  <2> QED BY <1>1, <1>3, <1>8, <2>1, <2>2 DEF AnswersTo
<1>9. ASSUME RightNow(slot)
      PROVE  Right(flight', latest'[slot], applied'[slot], shown'[slot].qs, slot, x)
  <2> HIDE DEF slot, x, n
  <2>1. \/ Pending(flight, latest[slot], slot, x)
        \/ /\ Over(flight, latest[slot], slot)
           /\ applied[slot] = latest[slot] =>
                AnswersTo(flight, shown[slot].qs, applied[slot], slot, x)
    BY <1>9 DEF RightNow, Right, x
  <2> QED BY <1>4, <1>5, <1>7, <1>8, <2>1 DEF Right
<1>10. r.slot # "namespaces" /\ r.slot \notin Slots
  BY SlotsApart
<1> QED BY <1>1, <1>3, <1>4, <1>9, <1>10, ShownLeft

\* A request fails: if it was the pending one, what is shown counts no more.
LEMMA ShownFail ==
  ASSUME AskedInv, NEW r \in flight, Fail(r), r.slot # "namespaces"
  PROVE  ShownInv'
<1> USE DEF AskedInv, ChoiceInv
<1> DEFINE x == Question(store)
<1>1. /\ flight' = flight \ {r} /\ store' = store /\ applied' = applied /\ shown' = shown
      /\ \A s \in Slots : latest'[s] = IF s = r.slot THEN Upper(latest[s], r.n) ELSE latest[s]
  BY DEF Fail, Settle, TurnInv
<1>2. CASE r.slot \in Queries
  <2> DEFINE slot == r.slot
             L == latest[slot]
  <2>1. L \in Nat /\ applied[slot] \in Nat /\ applied[slot] <= L
    BY <1>2, SlotsApart DEF TurnInv
  <2>2. /\ \A q \in flight : q.slot = slot => q.n \in Nat
        /\ \A q \in flight : q.slot = slot /\ q.n = r.n => q = r
    BY <1>2, SlotsApart DEF TurnInv, BaseInv
  <2>3. \A q : q.slot = slot => (q \in flight' <=> q \in flight \ {r})
    BY <1>1
  <2>4. /\ Over(flight, L, slot) => r.n < L /\ Upper(L, r.n) = L /\ Over(flight', L, slot)
        /\ Pending(flight, L, slot, x) =>
              \/ Pending(flight', Upper(L, r.n), slot, x)
              \/ r.q = x /\ L < r.n /\ Upper(L, r.n) = r.n /\ Over(flight', r.n, slot)
    BY <2>1, <2>2, <2>3, OneIsOver
  <2>5. latest'[slot] = Upper(L, r.n)
    BY <1>1, <1>2, SlotsApart
  <2>6. L < r.n => applied[slot] # r.n
    BY <2>1, <2>2
  <2>7. AnswersTo(flight, shown[slot].qs, applied[slot], slot, x) =>
          AnswersTo(flight', shown[slot].qs, applied[slot], slot, x)
    BY <1>1 DEF AnswersTo
  <2>8. ASSUME RightNow(slot)
        PROVE  Right(flight', latest'[slot], applied'[slot], shown'[slot].qs, slot, x)
    <3>1. \/ Pending(flight, L, slot, x)
          \/ Over(flight, L, slot) /\ (applied[slot] = L =>
                AnswersTo(flight, shown[slot].qs, applied[slot], slot, x))
      BY <2>8 DEF RightNow, Right
    <3> HIDE DEF slot, L, x
    <3> QED BY <1>1, <2>4, <2>5, <2>6, <2>7, <3>1 DEF Right
  <2>9. \A s \in Slots \ {"source", slot} : applied'[s] = applied[s] /\ latest'[s] = latest[s]
    BY <1>1
  <2> QED BY <1>1, <1>2, <2>8, <2>9, ShownLeft
<1>3. CASE r.slot \notin Queries
  <2>1. PICK slot \in Queries : r.slot \in More => slot = Half(r.slot)
    BY SlotsApart DEF Queries
  <2>2. r.slot \notin Slots \ {"source"} /\ r.slot # slot
    BY <1>3, SlotsApart
  <2>3. \A s \in Slots \ {"source"} : applied'[s] = applied[s] /\ latest'[s] = latest[s]
    BY <1>1, <2>2
  <2>4. \A q : q.slot = slot => (q \in flight <=> q \in flight')
    BY <1>1, <2>2
  <2>5. RightNow(slot) =>
          Right(flight', latest'[slot], applied'[slot], shown'[slot].qs, slot, x)
    <3>1. latest'[slot] = latest[slot]
      BY <2>3, SlotsApart
    <3>2. \A q \in flight' \ flight : q.slot \in More /\ Half(q.slot) = slot => q.q = x
      BY <1>1
    <3> QED BY <1>1, <2>4, <3>1, <3>2, RightKept DEF RightNow
  <2> QED BY <1>1, <2>1, <2>2, <2>3, <2>5, ShownLeft
<1> QED BY <1>2, <1>3

\* Databases are listed for a source, and the queries go out; or they are not,
\* and if that was the pending request they are not known.
LEMMA ShownListed ==
  ASSUME AskedInv, NEW r \in flight, r.slot = "namespaces", SetNamespaces(r) \/ Fail(r)
  PROVE  ShownInv'
<1> USE DEF AskedInv, ChoiceInv
<1>1. store.source # None
  BY DEF SourceInv
<1>2. CASE SetNamespaces(r)
  <2>1. /\ flight' = (flight \ {r}) \cup Send(store')
        /\ Counts("namespaces", r.n)
    BY <1>2 DEF SetNamespaces, Settle
  <2>2. store'.source = store.source
    BY <1>2, NamespacesAnswered
  <2>3. SUFFICES ASSUME store'.ns # None, NEW s \in Queries
                 PROVE  Right(flight', latest'[s], applied'[s], shown'[s].qs, s,
                              Question(store'))
    BY ShownNext DEF Known
  <2>4. latest'[s] = latest[s] /\ latest[s] \in Nat /\ latest[s] <= seq
    BY <2>1, SlotsApart DEF Counts, TurnInv
  <2>5. /\ Send(store') \subseteq flight'
        /\ \A q \in flight' : q \in flight \/ q \in Send(store')
    BY <2>1
  <2> QED BY <1>1, <2>2, <2>3, <2>4, <2>5, SendIsRight
<1>3. CASE Fail(r)
  <2> DEFINE L == latest["namespaces"]
             a == applied["namespaces"]
  <2>1. /\ flight' = flight \ {r} /\ store' = store /\ applied' = applied /\ shown' = shown
        /\ latest'["namespaces"] = Upper(L, r.n)
        /\ \A s \in Queries : latest'[s] = latest[s]
    BY <1>3, SlotsApart DEF Fail, Settle, TurnInv
  <2>2. L \in Nat /\ a \in Nat /\ a <= L /\ r.n \in Nat /\ a # r.n
    BY SlotsApart DEF TurnInv, BaseInv
  <2>3. SUFFICES ASSUME Known(flight', store, a, Upper(L, r.n)), NEW s \in Queries
                 PROVE  Right(flight', latest[s], applied[s], shown[s].qs, s, Question(store))
    BY <2>1, ShownNext
  <2>4. Upper(L, r.n) = L /\ r.n < L
    BY <2>2, <2>3 DEF Known, Upper
  <2>5. KnownNow
    BY <2>1, <2>3, <2>4 DEF Known, KnownNow, Over
  <2>6. RightNow(s)
    BY <2>5 DEF ShownInv
  <2>7. \A q : q.slot = s => (q \in flight <=> q \in flight')
    BY <2>1, SlotsApart
  <2> QED BY <2>1, <2>6, <2>7, RightKept DEF RightNow
<1> QED BY <1>2, <1>3

LEMMA ShownAnswer ==
  ASSUME AskedInv, NEW r \in flight,
         \/ SetData(r) \/ PrependMoreLogs(r) \/ ConcatMoreLogs(r)
         \/ SetSource(r) \/ SetNamespaces(r) \/ Fail(r)
  PROVE  ShownInv'
<1>1. CASE SetData(r)
  BY <1>1, ShownSet
<1>2. CASE PrependMoreLogs(r) \/ ConcatMoreLogs(r)
  BY <1>2, ShownJoin DEF PrependMoreLogs, ConcatMoreLogs, More, Half
<1>3. CASE SetSource(r)
  <2>1. ~Over(flight', latest'["namespaces"], "namespaces")
    BY <1>3, SourceAnswered DEF AskedInv, ChoiceInv
  <2> QED BY <2>1, ShownNext DEF Known
<1>4. CASE r.slot = "namespaces" /\ (SetNamespaces(r) \/ Fail(r))
  BY <1>4, ShownListed
<1>5. CASE r.slot # "namespaces" /\ Fail(r)
  BY <1>5, ShownFail
<1> QED BY <1>1, <1>2, <1>3, <1>4, <1>5 DEF SetNamespaces

LEMMA AskedInit == Init => AskedInv
<1> SUFFICES ASSUME Init PROVE DOMAIN shown = Queries /\ ShownInv
    BY BaseInit, TurnInit, ChoiceInit DEF AskedInv, ChoiceInv
<1>1. /\ flight = {} /\ applied = [s \in Slots |-> 0] /\ latest = [s \in Slots |-> 0]
  BY Zenon DEF Init
<1>2. /\ DOMAIN shown = Queries
      /\ store.ns = None \/ \A x \in Queries : shown[x].qs = {Question(store)}
  <2>1. ASSUME NEW t, NEW w PROVE NoStore(t, w).ns = None
    BY DEF NoStore
  <2>2. \/ \E t \in Terms, w \in Windows :
             /\ store = NoStore(t, w)
             /\ shown = [s \in Queries |-> [qs |-> {}, lines |-> << >>, whole |-> TRUE]]
        \/ shown = [x \in Queries |-> [qs |-> {Question(store)},
                                       lines |-> IF x = "older" THEN OlderLines(now + 1)
                                                 ELSE << >>,
                                       whole |-> TRUE]]
    BY Zenon DEF Init
  <2>3. CASE shown = [x \in Queries |-> [qs |-> {Question(store)},
                                         lines |-> IF x = "older" THEN OlderLines(now + 1)
                                                   ELSE << >>,
                                         whole |-> TRUE]]
    BY <2>3
  <2> QED BY <2>1, <2>2, <2>3
<1>3. \A s \in Queries : applied[s] = 0 /\ latest[s] = 0
  BY <1>1, SlotsApart
<1> QED BY <1>1, <1>2, <1>3
        DEF ShownInv, KnownNow, Known, RightNow, Right, AnswersTo, Over

LEMMA AskedStep == AskedInv /\ [Next]_vars => AskedInv'
<1> SUFFICES ASSUME AskedInv, [Next]_vars PROVE DOMAIN shown' = Queries /\ ShownInv'
    BY ChoiceStep DEF AskedInv
<1>1. CASE \/ Mount \/ Tick \/ ChangeTerm \/ SetTimeWindow \/ ChooseCustomTime
           \/ ChooseRelativeTime \/ Pause \/ Play \/ ChooseNamespace \/ ChooseSource
           \/ LoadMoreAbove \/ LoadMoreBelow
  <2>1. PICK p, st, sent : UserAct(p, st, sent)
    BY <1>1, UserActs DEF AskedInv, ChoiceInv, BaseInv
  <2>2. shown' = shown
    BY <2>1 DEF UserAct, Act
  <2> QED BY <2>1, <2>2, ShownAct DEF AskedInv
<1>2. CASE Answer
  <2>1. PICK r \in flight :
          \/ SetData(r) \/ PrependMoreLogs(r) \/ ConcatMoreLogs(r)
          \/ SetSource(r) \/ SetNamespaces(r) \/ Fail(r)
    BY <1>2 DEF Answer
  <2>2. DOMAIN shown' = DOMAIN shown
    BY <2>1 DEF SetData, PrependMoreLogs, ConcatMoreLogs, Joins, Show, SetSource,
                SetNamespaces, Fail
  <2> QED BY <2>1, <2>2, ShownAnswer DEF AskedInv
<1>3. CASE Unmount \/ Grow \/ UNCHANGED vars
  <2>1. /\ store' = store /\ flight' = flight /\ applied' = applied /\ latest' = latest
        /\ shown' = shown
    BY <1>3 DEF Unmount, Grow, vars
  <2> QED BY <2>1, ShownNext DEF AskedInv, ShownInv, KnownNow, RightNow
<1> QED BY <1>1, <1>2, <1>3 DEF Next

\* What is shown is what is asked for, once the latest requests for a slot, and
\* for the source and its databases, were the last to come back: whatever was
\* changed, and in whatever order (executeQueriesAsync and the thunks that
\* follow a change; prependMoreLogs and concatMoreLogs).
THEOREM ShownAnswersAsked == Spec => []ShownIsAsked
<1>1. AskedInv => ShownIsAsked
  <2> SUFFICES ASSUME AskedInv, NEW s \in Queries, Settled(Origin \cup {s}), store.ns # None
               PROVE  shown[s].qs = {Question(store)}
    BY DEF ShownIsAsked
  <2>1. /\ \A r \in flight : r.slot # "namespaces" /\ r.slot # s
        /\ applied["namespaces"] = latest["namespaces"] /\ applied[s] = latest[s]
    BY DEF Settled, Origin, Waits
  <2>2. RightNow(s)
    BY <2>1 DEF AskedInv, ShownInv, KnownNow, Known, Over
  <2> QED BY <2>1, <2>2 DEF RightNow, Right, Pending, AnswersTo
<1> QED BY <1>1, AskedInit, AskedStep, PTL DEF Spec

-----------------------------------------------------------------------------
(* Lists of lines. Where every line is one less than the one before it, the  *)
(* line at i is i - 1 less than the first: Falls without its induction.      *)

Falling(s) == \A i \in 1..Len(s) : s[i] = s[1] + 1 - i

LEMMA FallingFalls == ASSUME NEW s \in Seq(Int), Falling(s) PROVE Falls(s)
<1> SUFFICES ASSUME NEW i \in 2..Len(s) PROVE s[i] = s[i - 1] - 1
    BY DEF Falls
<1>1. s[1] \in Int /\ s[i] = s[1] + 1 - i /\ s[i - 1] = s[1] + 1 - (i - 1)
  BY DEF Falling
<1> QED BY <1>1

LEMMA DownIs ==
  ASSUME NEW high \in Int, NEW low \in Int
  PROVE  /\ Down(high, low) \in Seq(Int)
         /\ Len(Down(high, low)) = IF low <= high THEN high + 1 - low ELSE 0
         /\ \A i \in 1..Len(Down(high, low)) : /\ Down(high, low)[i] = high + 1 - i
                                               /\ Down(high, low)[i] \in low..high
         /\ Falling(Down(high, low))
         /\ low <= high => /\ Down(high, low) # << >>
                           /\ Head(Down(high, low)) = high /\ Last(Down(high, low)) = low
         /\ high < low => Down(high, low) = << >>
         /\ ToSet(Down(high, low)) = low..high
<1> DEFINE d == Down(high, low)
           n == IF low <= high THEN high + 1 - low ELSE 0
<1>1. n \in Nat /\ 1..high + 1 - low = 1..n
  OBVIOUS
<1>2. d = [i \in 1..n |-> high + 1 - i]
  BY <1>1 DEF Down
<1> HIDE DEF d, n
<1>3. d \in Seq(Int) /\ Len(d) = n /\ \A i \in 1..n : d[i] = high + 1 - i
  BY <1>1, <1>2
<1>4. \A i \in 1..n : high + 1 - i \in low..high
  BY DEF n
<1>5. Falling(d)
  BY <1>1, <1>3 DEF Falling
<1>6. ASSUME low <= high PROVE d # << >> /\ Head(d) = high /\ Last(d) = low
  <2>1. n = high + 1 - low /\ n >= 1
    BY <1>6 DEF n
  <2>2. d[1] = high /\ d[n] = low
    BY <1>3, <2>1
  <2> QED BY <1>3, <2>1, <2>2 DEF Last
<1>7. high < low => d = << >>
  BY <1>3 DEF n
<1>8. ToSet(d) = low..high
  <2>1. \A x \in low..high : high + 1 - x \in 1..n /\ d[high + 1 - x] = x
    BY <1>3 DEF n
  <2>2. DOMAIN d = 1..n
    BY <1>3
  <2>3. \A x \in ToSet(d) : x \in low..high
    BY <1>3, <1>4, <2>2 DEF ToSet
  <2>4. \A x \in low..high : x \in ToSet(d)
    BY <2>1, <2>2 DEF ToSet
  <2> QED BY <2>3, <2>4
<1> QED BY <1>3, <1>4, <1>5, <1>6, <1>7, <1>8 DEF d, n

LEMMA ConcatEnds ==
  ASSUME NEW S, NEW s \in Seq(S), NEW t \in Seq(S)
  PROVE  /\ s \o t = << >> <=> s = << >> /\ t = << >>
         /\ s # << >> => Head(s \o t) = Head(s)
         /\ t # << >> => Last(s \o t) = Last(t)
         /\ s = << >> => s \o t = t
         /\ t = << >> => s \o t = s
<1> DEFINE c == s \o t
           m == Len(s)
           n == Len(t)
<1>1. /\ m \in Nat /\ n \in Nat /\ Len(c) = m + n /\ c \in Seq(S)
      /\ \A i \in 1..(m + n) : c[i] = IF i <= m THEN s[i] ELSE t[i - m]
  OBVIOUS
<1>2. (s = << >> <=> m = 0) /\ (t = << >> <=> n = 0) /\ (c = << >> <=> m + n = 0)
  BY <1>1
<1>3. (s = << >> => c = t) /\ (t = << >> => c = s)
  OBVIOUS
<1>4. ASSUME t # << >> PROVE Last(c) = Last(t)
  <2> HIDE DEF c, m, n
  <2>1. m + n \in 1..(m + n) /\ ~(m + n <= m) /\ (m + n) - m = n
    BY <1>1, <1>2, <1>4
  <2>2. c[m + n] = t[(m + n) - m]
    BY <1>1, <2>1
  <2>3. c[m + n] = t[n]
    BY <2>1, <2>2
  <2> QED BY <1>1, <2>3 DEF Last, n
<1>5. ASSUME s # << >> PROVE Head(c) = Head(s)
  <2> HIDE DEF c, m, n
  <2>1. 1 \in 1..(m + n) /\ 1 <= m
    BY <1>1, <1>2, <1>5
  <2>2. c[1] = s[1]
    BY <1>1, <2>1
  <2>3. c # << >>
    BY <1>1, <1>2, <1>5
  <2> QED BY <1>1, <1>5, <2>2, <2>3
<1> HIDE DEF c
<1>6. c = << >> <=> s = << >> /\ t = << >>
  BY <1>1, <1>2
<1> QED BY <1>3, <1>4, <1>5, <1>6 DEF c

\* Two falling lists that meet make one.
LEMMA FallingConcat ==
  ASSUME NEW s \in Seq(Int), NEW t \in Seq(Int), Falling(s), Falling(t),
         s # << >>, t # << >>, Head(t) = Last(s) - 1
  PROVE  /\ s \o t \in Seq(Int) /\ Falling(s \o t) /\ s \o t # << >>
         /\ Head(s \o t) = Head(s) /\ Last(s \o t) = Last(t)
<1> DEFINE c == s \o t
<1>1. /\ Len(s) \in Nat \ {0} /\ Len(t) \in Nat \ {0} /\ c \in Seq(Int)
      /\ Len(c) = Len(s) + Len(t)
      /\ \A i \in 1..Len(c) : c[i] = IF i <= Len(s) THEN s[i] ELSE t[i - Len(s)]
  OBVIOUS
<1>2. s[1] \in Int /\ t[1] \in Int /\ s[Len(s)] = s[1] + 1 - Len(s) /\ t[1] = s[Len(s)] - 1
  BY <1>1 DEF Falling, Last
<1> HIDE DEF c
<1>3. c[1] = s[1] /\ c[Len(c)] = t[Len(t)]
  <2> DEFINE a == Len(s)
             b == Len(t)
  <2>1. /\ a \in Nat \ {0} /\ b \in Nat \ {0} /\ Len(c) = a + b
        /\ \A i \in 1..(a + b) : c[i] = IF i <= a THEN s[i] ELSE t[i - a]
    BY <1>1
  <2> HIDE DEF a, b
  <2>2. 1 \in 1..(a + b) /\ 1 <= a
    BY <2>1
  <2>3. a + b \in 1..(a + b) /\ ~(a + b <= a) /\ (a + b) - a = b
    BY <2>1
  <2>4. c[1] = s[1]
    BY <2>1, <2>2
  <2>5. c[a + b] = t[(a + b) - a]
    BY <2>1, <2>3
  <2>6. c[a + b] = t[b]
    BY <2>3, <2>5
  <2> QED BY <2>1, <2>4, <2>6 DEF b
<1>4. ASSUME NEW i \in 1..Len(c) PROVE c[i] = c[1] + 1 - i
  <2>1. CASE i <= Len(s)
    <3>1. i \in 1..Len(s) /\ c[i] = s[i]
      BY <1>1, <2>1
    <3>2. s[i] = s[1] + 1 - i
      BY <3>1 DEF Falling
    <3> QED BY <1>3, <3>1, <3>2
  <2>2. CASE ~(i <= Len(s))
    <3>1. i - Len(s) \in 1..Len(t) /\ c[i] = t[i - Len(s)]
      BY <1>1, <2>2
    <3>2. t[i - Len(s)] = t[1] + 1 - (i - Len(s))
      BY <3>1 DEF Falling
    <3>3. \A a, l, j : a \in Int /\ l \in Int /\ j \in Int =>
            ((a + 1 - l) - 1) + 1 - (j - l) = a + 1 - j
      OBVIOUS
    <3>4. c[i] = ((s[1] + 1 - Len(s)) - 1) + 1 - (i - Len(s))
      BY <1>2, <3>1, <3>2
    <3>5. s[1] \in Int /\ Len(s) \in Int /\ i \in Int
      BY <1>1, <1>2
    <3> QED BY <1>3, <3>3, <3>4, <3>5
  <2> QED BY <2>1, <2>2
<1>5. c # << >> /\ Head(c) = Head(s) /\ Last(c) = Last(t)
  BY <1>1, <1>3 DEF Last
<1> QED BY <1>1, <1>4, <1>5 DEF c, Falling

LEMMA IntervalSize == ASSUME NEW k \in Nat, NEW i \in Nat, k <= i
                      PROVE  IsFiniteSet((k + 1)..i) /\ Cardinality((k + 1)..i) = i - k
<1>1. Cardinality((k + 1)..i) = IF k + 1 > i THEN 0 ELSE i - (k + 1) + 1
  BY FS_Interval
<1>2. IsFiniteSet((k + 1)..i)
  BY FS_Interval
<1> QED BY <1>1, <1>2

\* What is left of a list when its first k lines are dropped.
LEMMA WithoutFirst ==
  ASSUME NEW s \in Seq(Int), NEW set, NEW k \in 0..Len(s),
         \A i \in 1..Len(s) : s[i] \in set <=> i <= k
  PROVE  Without(s, set) = [j \in 1..(Len(s) - k) |-> s[k + j]]
<1> DEFINE kept == {i \in DOMAIN s : s[i] \notin set}
           n == Len(s)
           At(j) == CHOOSE i \in kept : Cardinality({x \in kept : x <= i}) = j
<1>1. n \in Nat /\ k \in Nat /\ k <= n /\ DOMAIN s = 1..n
  OBVIOUS
<1>2. kept = (k + 1)..n
  BY <1>1
<1>3. Cardinality(kept) = n - k
  BY <1>1, <1>2, IntervalSize
<1>4. \A i \in kept : Cardinality({x \in kept : x <= i}) = i - k
  <2> SUFFICES ASSUME NEW i \in kept PROVE Cardinality({x \in kept : x <= i}) = i - k
      OBVIOUS
  <2>1. i \in Nat /\ k <= i /\ {x \in kept : x <= i} = (k + 1)..i
    BY <1>1, <1>2
  <2> QED BY <1>1, <2>1, IntervalSize
<1>5. ASSUME NEW j \in 1..(n - k) PROVE At(j) = k + j
  <2>1. k + j \in kept /\ (k + j) - k = j
    BY <1>1, <1>2
  <2>2. \A i \in kept : i - k = j => i = k + j
    BY <1>1, <1>2
  <2> HIDE DEF kept
  <2>3. k + j \in kept /\ Cardinality({x \in kept : x <= k + j}) = j
    BY <1>4, <2>1
  <2>4. \A i \in kept : Cardinality({x \in kept : x <= i}) = j => i = k + j
    BY <1>4, <2>2
  <2> QED BY <2>3, <2>4
<1>6. Without(s, set) = [j \in 1..Cardinality(kept) |-> s[At(j)]]
  BY DEF Without
<1> HIDE DEF kept, At, n
<1>7. Without(s, set) = [j \in 1..(n - k) |-> s[At(j)]]
  BY <1>3, <1>6
<1> QED BY <1>5, <1>7 DEF n

\* What answers bring, for any time that is asked from.
LEMMA WithinLog ==
  ASSUME NEW s \in Seq(Int), NEW n \in Nat, \A i \in 1..Len(s) : s[i] \in 1..n
  PROVE  s \in Seq(1..n)
  OBVIOUS

LEMMA NewerIs ==
  ASSUME now \in Nat, NEW at \in Int
  PROVE  /\ NewerLines(at) \in Seq(1..now) /\ Falling(NewerLines(at))
         /\ NewerLines(at) # << >> => Last(NewerLines(at)) = Upper(at, 1)
         /\ 1 <= at /\ at <= now =>
              /\ NewerLines(at) # << >>
              /\ ToSet(NewerLines(at)) = at..Lower(now, at + Chunk - 1)
<1> DEFINE high == Lower(now, at + Chunk - 1)
           low == Upper(at, 1)
<1>1. /\ high \in Int /\ low \in Int /\ high <= now /\ 1 <= low
      /\ 1 <= at /\ at <= now => low = at /\ low <= high
  BY LogsViewerAssumption DEF Lower, Upper
<1>2. NewerLines(at) = Down(high, low)
  BY DEF NewerLines
<1> HIDE DEF high, low
<1>3. Down(high, low) \in Seq(1..now)
  <2>1. \A x \in low..high : x \in 1..now
    BY <1>1
  <2> QED BY <1>1, <2>1, DownIs, WithinLog
<1>4. Down(high, low) # << >> => low <= high
  BY <1>1, DownIs
<1>5. /\ Falling(Down(high, low))
      /\ low <= high => Down(high, low) # << >> /\ Last(Down(high, low)) = low
      /\ ToSet(Down(high, low)) = low..high
  BY <1>1, DownIs
<1>6. NewerLines(at) # << >> => Last(NewerLines(at)) = low
  BY <1>2, <1>4, <1>5
<1>7. 1 <= at /\ at <= now => NewerLines(at) # << >> /\ ToSet(NewerLines(at)) = at..high
  BY <1>1, <1>2, <1>5
<1> QED BY <1>2, <1>3, <1>5, <1>6, <1>7 DEF high, low

LEMMA OlderIs ==
  ASSUME now \in Nat, NEW at \in Int
  PROVE  /\ OlderLines(at) \in Seq(1..now) /\ Falling(OlderLines(at))
         /\ OlderLines(at) # << >> =>
              2 <= at /\ (at <= now + 1 => Head(OlderLines(at)) = at - 1)
<1> DEFINE high == Lower(now, at - 1)
           low == Upper(at - Chunk, 1)
<1>1. /\ high \in Int /\ low \in Int /\ high <= now /\ 1 <= low
      /\ low <= high => 2 <= at
      /\ at <= now + 1 => high = at - 1
  BY LogsViewerAssumption DEF Lower, Upper
<1>2. OlderLines(at) = Down(high, low)
  BY DEF OlderLines
<1> HIDE DEF high, low
<1>3. Down(high, low) \in Seq(1..now)
  <2>1. \A x \in low..high : x \in 1..now
    BY <1>1
  <2> QED BY <1>1, <2>1, DownIs, WithinLog
<1>4. Down(high, low) # << >> => low <= high
  BY <1>1, DownIs
<1>5. Falling(Down(high, low)) /\ (low <= high => Head(Down(high, low)) = high)
  BY <1>1, DownIs
<1> QED BY <1>1, <1>2, <1>3, <1>4, <1>5

\* Lines that reach the first line of a falling list go before it, and the rest
\* of it stays.
LEMMA Prepended ==
  ASSUME now \in Nat, NEW a \in Seq(1..now), Falling(a), a # << >>,
         NEW at \in ToSet(a), Head(a) < at + Chunk
  PROVE  LET c == NewerLines(at) \o Without(a, ToSet(NewerLines(at)))
         IN  c \in Seq(1..now) /\ Falling(c) /\ c # << >> /\ Last(c) = Last(a)
<1> DEFINE new == NewerLines(at)
           m == Len(a)
           f == a[1]
           high == Lower(now, at + Chunk - 1)
           rest == Without(a, ToSet(new))
<1>1. m \in Nat \ {0} /\ DOMAIN a = 1..m /\ a \in Seq(Int) /\ \A i \in 1..m : a[i] \in 1..now
  OBVIOUS
<1>2. PICK p \in 1..m : at = a[p]
  BY <1>1 DEF ToSet
<1>3. /\ f \in 1..now /\ \A i \in 1..m : a[i] = f + 1 - i
      /\ at = f + 1 - p /\ at \in 1..now /\ f < at + Chunk
  BY <1>1, <1>2 DEF Falling
<1>4. /\ new \in Seq(1..now) /\ new # << >> /\ Falling(new) /\ Last(new) = at
      /\ ToSet(new) = at..high
  <2>1. at \in Int /\ 1 <= at /\ at <= now /\ Upper(at, 1) = at
    BY <1>3 DEF Upper
  <2> QED BY <2>1, NewerIs
<1>5. high \in Int /\ f <= high
  <2>1. now \in Int /\ at + Chunk - 1 \in Int /\ f <= now /\ f <= at + Chunk - 1
    <3>1. Chunk \in Int
      BY LogsViewerAssumption
    <3>2. \A x, y, c \in Int : x < y + c => x <= y + c - 1
      OBVIOUS
    <3>3. now \in Int /\ f \in Int /\ f <= now /\ at \in Int
      BY <1>3
    <3> HIDE DEF f
    <3> QED BY <1>3, <3>1, <3>2, <3>3
  <2> HIDE DEF f
  <2> QED BY <2>1 DEF Lower
<1>6. \A i \in 1..m : a[i] \in ToSet(new) <=> i <= p
  <2> HIDE DEF new, m, f, high
  <2>1. \A i \in 1..m : f + 1 - i \in at..high <=> i <= p
    BY <1>1, <1>3, <1>5
  <2> QED BY <1>3, <1>4, <2>1
<1>7. rest = [j \in 1..(m - p) |-> a[p + j]]
  <2> HIDE DEF new
  <2>1. p \in 0..m
    BY <1>1
  <2> QED BY <1>1, <1>6, <2>1, WithoutFirst
<1> HIDE DEF new, rest, high, f
<1>8. CASE p = m
  <2>1. rest = << >>
    BY <1>1, <1>7, <1>8
  <2>2. new \o rest = new
    BY <1>4, <2>1
  <2>3. Last(a) = at
    BY <1>2, <1>8 DEF Last
  <2> QED BY <1>4, <2>2, <2>3 DEF new, rest
<1>9. CASE p # m
  <2>1. m - p \in Nat \ {0} /\ \A j \in 1..(m - p) : p + j \in 1..m
    <3>1. \A x \in Nat \ {0} : \A y \in 1..x : y # x =>
            x - y \in Nat \ {0} /\ \A j \in 1..(x - y) : y + j \in 1..x
      OBVIOUS
    <3> QED BY <1>1, <1>9, <3>1
  <2> HIDE DEF m
  <2>2. /\ rest \in Seq(1..now) /\ Len(rest) = m - p
        /\ \A j \in 1..(m - p) : rest[j] = a[p + j]
    BY <1>1, <1>7, <2>1
  <2>3. \A j \in 1..(m - p) : rest[j] = f + 1 - (p + j)
    BY <1>3, <2>1, <2>2
  <2>4. rest # << >> /\ Head(rest) = at - 1
    <3>1. 1 \in 1..(m - p)
      BY <2>1
    <3>2. rest[1] = f + 1 - (p + 1)
      BY <2>3, <3>1
    <3>3. f + 1 - (p + 1) = at - 1
      BY <1>1, <1>3
    <3> QED BY <2>1, <2>2, <3>2, <3>3
  <2>5. Falling(rest)
    <3>1. \A j \in 1..(m - p) : rest[j] = rest[1] + 1 - j
      <4>1. 1 \in 1..(m - p) /\ rest[1] = f + 1 - (p + 1)
        BY <2>1, <2>3
      <4>2. f \in Int /\ p \in Int
        BY <1>1, <1>3
      <4> QED BY <2>3, <4>1, <4>2
    <3> QED BY <2>2, <3>1 DEF Falling
  <2>6. Last(rest) = Last(a)
    <3>1. m - p \in 1..(m - p) /\ p + (m - p) = m
      BY <1>1, <2>1
    <3>2. rest[m - p] = a[m]
      BY <2>2, <3>1
    <3> QED BY <2>2, <3>2 DEF Last, m
  <2>7. /\ new \o rest \in Seq(1..now)
        /\ new \in Seq(Int) /\ rest \in Seq(Int)
    BY <1>4, <2>2
  <2>8. Falling(new \o rest) /\ new \o rest # << >> /\ Last(new \o rest) = Last(rest)
    BY <1>4, <2>4, <2>5, <2>7, FallingConcat
  <2> QED BY <2>6, <2>7, <2>8 DEF new, rest
<1> QED BY <1>8, <1>9

\* Lines that are asked from the last line of a falling list go after it.
LEMMA Appended ==
  ASSUME now \in Nat, NEW b \in Seq(1..now), Falling(b), b # << >>
  PROVE  LET c == b \o OlderLines(Last(b))
         IN  c \in Seq(1..now) /\ Falling(c) /\ c # << >> /\ Head(c) = Head(b)
<1> DEFINE at == Last(b)
           new == OlderLines(at)
<1>1. b \in Seq(Int) /\ Len(b) \in Nat \ {0} /\ at \in 1..now
  <2>1. Len(b) \in Nat \ {0} /\ b[Len(b)] \in 1..now
    OBVIOUS
  <2> QED BY <2>1 DEF Last
<1>2. /\ new \in Seq(1..now) /\ Falling(new)
      /\ new # << >> => Head(new) = at - 1
  <2> HIDE DEF at
  <2>1. at \in Int /\ at <= now + 1
    BY <1>1
  <2> QED BY <2>1, OlderIs
<1> HIDE DEF new
<1>3. CASE new = << >>
  <2>1. b \o new = b
    BY <1>3
  <2> QED BY <2>1 DEF new
<1>4. CASE new # << >>
  <2>1. new \in Seq(Int) /\ b \o new \in Seq(1..now)
    BY <1>2
  <2> QED BY <1>1, <1>2, <1>4, <2>1, FallingConcat DEF new
<1> QED BY <1>3, <1>4

-----------------------------------------------------------------------------
(* The table. Both halves are sent for in one turn from one time, and until  *)
(* both have come none of what is loaded counts: so the halves meet, when    *)
(* the latest of each is there, and go on meeting.                           *)

Kept(h) == shown[h].lines

LinesOK ==
  /\ now \in Nat
  /\ \A h \in Halves : Kept(h) \in Seq(1..now) /\ shown[h].whole \in BOOLEAN
  /\ \A r \in flight : r.at \in Int

HalvesFall == \A h \in Halves : shown[h].whole => Falling(Kept(h))

\* Requests of one turn ask from one time.
OneTime ==
  \A r, q \in flight : r.slot \in Halves /\ q.slot \in Halves /\ r.n = q.n => r.at = q.at

\* Nothing is loaded for a data set half of which is still under way.
LoadsApart == \A r, q \in flight : r.slot \in Halves /\ q.slot \in More => r.n # q.n

\* Both halves have been asked for in the same latest turn.
AskedLast(h, L) ==
  /\ latest[h] <= L
  /\ \A q \in flight : q.slot = h => q.n <= L
  /\ latest[h] = L \/ \E q \in flight : q.slot = h /\ q.n = L

OneTurn == \E L \in Nat : \A h \in Halves : AskedLast(h, L)

\* The half that came first ends where the other one is asked from.
BelowWaits ==
  \A r \in flight :
     r.slot = "newer" /\ applied["older"] = r.n /\ shown["older"].whole =>
       Kept("older") = << >> \/ Head(Kept("older")) = r.at - 1

AboveWaits ==
  \A r \in flight :
     r.slot = "older" /\ applied["newer"] = r.n /\ shown["newer"].whole =>
       Kept("newer") = << >> \/ Last(Kept("newer")) = Upper(r.at, 1)

Meeting == Kept("newer") # << >> /\ Kept("older") # << >> =>
             Last(Kept("newer")) - Head(Kept("older")) \in {0, 1}

Both(h, n) == shown[h].whole /\ applied[h] = n /\ latest[h] = n

HalvesMeet == \A n \in Nat : Both("newer", n) /\ Both("older", n) => Meeting

TableInv ==
  LinesOK /\ HalvesFall /\ OneTime /\ LoadsApart /\ OneTurn /\ BelowWaits /\ AboveWaits
  /\ HalvesMeet

OrderInv == AskedInv /\ CountsQueries /\ TableInv

LEMMA HalvesAre == Halves = {"newer", "older"} /\ Halves \subseteq Queries /\ Halves \subseteq Slots
                   /\ Halves \cap More = {} /\ "newer" # "older"
                   /\ \A slot : Half(slot) \in Halves
  BY DEF Halves, Queries, Slots, More, Half

\* What is known of the turns of both halves.
LEMMA HalfTurns ==
  ASSUME BaseInv, TurnInv
  PROVE  /\ seq \in Nat
         /\ \A h \in Halves : /\ applied[h] \in Nat /\ latest[h] \in Nat
                              /\ applied[h] <= latest[h] /\ latest[h] <= seq
         /\ \A r \in flight : r.slot \in Halves => r.n \in 1..seq
         /\ \A q \in flight : q.slot \in More =>
              /\ q.n \in Nat /\ q.n <= latest[Half(q.slot)] /\ q.n <= seq
<1>1. seq \in Nat
  BY DEF BaseInv
<1>2. \A h \in Halves : /\ applied[h] \in Nat /\ latest[h] \in Nat
                        /\ applied[h] <= latest[h] /\ latest[h] <= seq
  BY HalvesAre DEF TurnInv
<1>3. \A r \in flight : r.slot \in Halves => r.n \in 1..seq
  BY HalvesAre DEF TurnInv, BaseInv
<1>4. \A q \in flight : q.slot \in More => q.n \in Nat /\ q.n <= latest[Half(q.slot)]
  BY DEF TurnInv
<1>5. \A q \in flight : q.slot \in More => q.n <= seq
  BY <1>1, <1>2, <1>4, HalvesAre
<1> QED BY <1>1, <1>2, <1>3, <1>4, <1>5

\* What may be asked without a half of the table going its own way: nothing for a
\* half, and no more lines while a half is under way; or both halves anew, from one
\* time.
AsksTable(new) ==
  \/ \A q \in new : /\ q.slot \notin Halves
                    /\ q.slot \in More =>
                         q.n <= latest[Half(q.slot)] /\ \A r \in flight : r.slot \notin Halves
  \/ /\ \A q \in new : q.slot \notin More
     /\ \A q \in new : q.slot \in Halves => q.n = seq + 1
     /\ \A q, r \in new : q.slot \in Halves /\ r.slot \in Halves => q.at = r.at
     /\ \A h \in Halves : \E q \in new : q.slot = h

\* Whatever else is answered, the table waits and is kept as it was.
LEMMA TableAsks ==
  ASSUME BaseInv, TurnInv, TableInv, NEW new, AsksTable(new), \A q \in new : q.at \in Int,
         \A q \in flight' : q \in flight \/ q \in new,
         \A q \in flight : q.slot \in Halves => q \in flight',
         new \subseteq flight', now' = now,
         \A h \in Halves : /\ latest'[h] = latest[h] /\ applied'[h] = applied[h]
                           /\ shown'[h] = shown[h]
  PROVE  TableInv'
<1> USE DEF TableInv
<1>1. /\ seq \in Nat
      /\ \A h \in Halves : /\ applied[h] \in Nat /\ latest[h] \in Nat
                           /\ applied[h] <= latest[h] /\ latest[h] <= seq
      /\ \A r \in flight : r.slot \in Halves => r.n \in 1..seq
      /\ \A q \in flight : q.slot \in More =>
           q.n \in Nat /\ q.n <= latest[Half(q.slot)] /\ q.n <= seq
  BY HalfTurns
<1>2. \A q \in new : q.slot \in Halves => q.n = seq + 1
  BY HalvesAre DEF AsksTable
<1>3. LinesOK'
  BY DEF LinesOK, Kept
<1>4. HalvesFall'
  BY DEF HalvesFall, Kept
<1>5. OneTime'
  <2> SUFFICES ASSUME NEW r \in flight', NEW q \in flight', r.slot \in Halves, q.slot \in Halves,
                      r.n = q.n
               PROVE  r.at = q.at
      BY DEF OneTime
  <2>1. CASE r \in flight /\ q \in flight
    BY <2>1 DEF OneTime
  <2>2. CASE r \in new /\ q \in new
    BY <2>2 DEF AsksTable
  <2>3. \A x \in flight : x.slot \in Halves => x.n # seq + 1
    BY <1>1
  <2> QED BY <1>2, <2>1, <2>2, <2>3
<1>6. LoadsApart'
  <2> SUFFICES ASSUME NEW r \in flight', NEW q \in flight', r.slot \in Halves, q.slot \in More
               PROVE  r.n # q.n
      BY DEF LoadsApart
  <2>1. CASE r \in flight /\ q \in flight
    BY <2>1 DEF LoadsApart
  <2>2. CASE r \in new /\ q \in flight
    <3>1. r.n = seq + 1 /\ q.n \in Nat /\ q.n <= seq
      BY <1>1, <1>2, <2>2
    <3> QED BY <1>1, <3>1
  <2>3. CASE q \in new
    BY <2>3, HalvesAre DEF AsksTable
  <2> QED BY <2>1, <2>2, <2>3
<1>7. OneTurn'
  <2>1. PICK L \in Nat : \A h \in Halves : AskedLast(h, L)
    BY DEF OneTurn
  <2>2. CASE \A q \in new : q.slot \notin Halves
    <3>1. \A h \in Halves : AskedLast(h, L)'
      BY <2>1, <2>2 DEF AskedLast
    <3> QED BY <3>1 DEF OneTurn
  <2>3. CASE \A h \in Halves : \E q \in new : q.slot = h
    <3>1. PICK M \in Nat : M = seq + 1
      BY <1>1
    <3>2. ASSUME NEW h \in Halves
          PROVE  /\ latest'[h] <= M
                 /\ \A q \in flight' : q.slot = h => q.n <= M
                 /\ \E q \in flight' : q.slot = h /\ q.n = M
      <4>1. latest'[h] <= M
        BY <1>1, <3>1
      <4>2. \A q \in flight' : q.slot = h => q.n <= M
        BY <1>1, <1>2, <3>1
      <4>3. \E q \in flight' : q.slot = h /\ q.n = M
        BY <1>2, <2>3, <3>1
      <4> QED BY <4>1, <4>2, <4>3
    <3>3. \A h \in Halves : AskedLast(h, M)'
      BY <3>2 DEF AskedLast
    <3> QED BY <3>3 DEF OneTurn
  <2> QED BY <2>2, <2>3 DEF AsksTable
<1>8. ASSUME NEW r \in flight', r.slot \in Halves, NEW h \in Halves, applied[h] = r.n
      PROVE  r \in flight
  BY <1>1, <1>2, <1>8
<1>9. BelowWaits'
  <2> SUFFICES ASSUME NEW r \in flight', r.slot = "newer", applied["older"] = r.n,
                      shown["older"].whole
               PROVE  Kept("older") = << >> \/ Head(Kept("older")) = r.at - 1
      BY HalvesAre DEF BelowWaits, Kept
  <2> QED BY <1>8, HalvesAre DEF BelowWaits
<1>10. AboveWaits'
  <2> SUFFICES ASSUME NEW r \in flight', r.slot = "older", applied["newer"] = r.n,
                      shown["newer"].whole
               PROVE  Kept("newer") = << >> \/ Last(Kept("newer")) = Upper(r.at, 1)
      BY HalvesAre DEF AboveWaits, Kept
  <2> QED BY <1>8, HalvesAre DEF AboveWaits
<1>11. HalvesMeet'
  BY HalvesAre DEF HalvesMeet, Both, Meeting, Kept
<1> QED BY <1>3, <1>4, <1>5, <1>6, <1>7, <1>9, <1>10, <1>11

LEMMA SendAsks ==
  ASSUME StoreOK(store), NEW st, StoreOK(st), now \in Nat
  PROVE  /\ \A q \in Send(st) : q.at \in Int
         /\ \A new : /\ Send(st) \subseteq new
                     /\ \A q \in new : q \in Send(st) \/ q.slot \in Origin
                     => AsksTable(new)
<1>1. Selected(st) \in Int
  BY DEF Selected, StoreOK
<1>2. \A q \in Send(st) : /\ q.at = Selected(st) /\ q.n = seq + 1
                          /\ q.slot \in Queries
  BY DEF Send, Request
<1>3. Send(st) = {} \/ \A h \in Halves : \E q \in Send(st) : q.slot = h
  <2>1. ASSUME None \notin {st.source, st.ns}, NEW h \in Halves
        PROVE  \E q \in Send(st) : q.slot = h
    <3> DEFINE r == Request(h, Question(st), Selected(st), seq + 1)
    <3>1. r \in Send(st)
      BY <2>1, HalvesAre DEF Send
    <3>2. r.slot = h
      BY DEF Request
    <3> QED BY <3>1, <3>2
  <2>2. CASE None \notin {st.source, st.ns}
    BY <2>1, <2>2
  <2>3. CASE ~(None \notin {st.source, st.ns})
    BY <2>3 DEF Send
  <2> QED BY <2>2, <2>3
<1>4. ASSUME NEW new, Send(st) \subseteq new,
             \A q \in new : q \in Send(st) \/ q.slot \in Origin
      PROVE  AsksTable(new)
  <2>1. \A q \in new : q \in Send(st) \/ (q.slot \notin Halves /\ q.slot \notin More)
    BY <1>4 DEF Origin, Halves, More
  <2>2. CASE Send(st) = {}
    BY <2>1, <2>2 DEF AsksTable
  <2>3. CASE \A h \in Halves : \E q \in Send(st) : q.slot = h
    <3>1. \A q \in new : q.slot \notin More
      BY <1>2, <2>1, SlotsApart
    <3>2. \A q \in new : q.slot \in Halves => q.n = seq + 1 /\ q.at = Selected(st)
      BY <1>2, <2>1
    <3>3. \A h \in Halves : \E q \in new : q.slot = h
      BY <1>4, <2>3
    <3> QED BY <3>1, <3>2, <3>3 DEF AsksTable
  <2> QED BY <1>3, <2>2, <2>3
<1> QED BY <1>1, <1>2, <1>4

\* No query is under way when none is counted.
LEMMA NoneCounted ==
  ASSUME BaseInv, CountsQueries, count = 0
  PROVE  \A r \in flight : r.slot \notin Queries
<1>1. IsFiniteSet({r \in flight : r.slot \in Queries})
  BY FS_Subset DEF BaseInv
<1>2. Cardinality({r \in flight : r.slot \in Queries}) = 0
  BY DEF CountsQueries, Counted
<1>3. {r \in flight : r.slot \in Queries} = {}
  BY <1>1, <1>2, FS_EmptySet
<1> QED BY <1>3

LEMMA EndsOf ==
  ASSUME NEW S, NEW s \in Seq(S), s # << >>
  PROVE  Head(s) \in S /\ Last(s) \in S
<1>1. Len(s) \in Nat \ {0} /\ \A i \in 1..Len(s) : s[i] \in S
  OBVIOUS
<1>2. 1 \in 1..Len(s) /\ Len(s) \in 1..Len(s)
  BY <1>1
<1> QED BY <1>1, <1>2 DEF Last

LEMMA EndsAreTimes == ASSUME LinesOK PROVE FirstLine \in Int /\ LastLine \in Int
<1>1. Lines \in Seq(1..now) /\ now \in Nat
  BY HalvesAre DEF LinesOK, Kept, Lines
<1>2. ASSUME Lines # << >> PROVE Head(Lines) \in 1..now /\ Last(Lines) \in 1..now
  BY <1>1, <1>2, EndsOf
<1> QED BY <1>1, <1>2 DEF FirstLine, LastLine

LEMMA ActAsks ==
  ASSUME OrderInv, NEW p, NEW st, NEW sent, UserAct(p, st, sent)
  PROVE  /\ AsksTable(sent \cup AskSource(p, st))
         /\ \A q \in sent \cup AskSource(p, st) : q.at \in Int
<1> USE DEF OrderInv, AskedInv, ChoiceInv, TableInv
<1>1. \A q \in AskSource(p, st) : q.slot = "source" /\ q.at = 0
  BY DEF AskSource, Request
<1>2. StoreOK(st) /\ StoreOK(store) /\ now \in Nat
  BY DEF UserAct, BaseInv, LinesOK
<1>3. CASE sent = Send(st)
  <2>1. \A q \in sent : q.at \in Int
    BY <1>2, <1>3, SendAsks
  <2>2. /\ Send(st) \subseteq sent \cup AskSource(p, st)
        /\ \A q \in sent \cup AskSource(p, st) : q \in Send(st) \/ q.slot \in Origin
    BY <1>1, <1>3 DEF Origin
  <2>3. AsksTable(sent \cup AskSource(p, st))
    BY <1>2, <2>2, SendAsks
  <2> QED BY <1>1, <2>1, <2>3
<1>4. CASE st = store /\ \A r \in sent : Apart(r) /\ r.turn = seq + 1
  <2>1. \A r \in sent : \/ r.slot = "source" /\ r.at = 0
                        \/ /\ r.slot \in More /\ r.n = applied[Half(r.slot)]
                           /\ count = 0 /\ r.at \in {FirstLine, LastLine}
    BY <1>4 DEF Apart
  <2>2. \A q \in sent \cup AskSource(p, st) : q.at \in Int
    BY <1>1, <2>1, EndsAreTimes
  <2>3. ASSUME NEW q \in sent \cup AskSource(p, st)
        PROVE  /\ q.slot \notin Halves
               /\ q.slot \in More =>
                    q.n <= latest[Half(q.slot)] /\ \A r \in flight : r.slot \notin Halves
    <3>1. q.slot \notin Halves
      BY <1>1, <2>1, HalvesAre DEF More
    <3>2. ASSUME q.slot \in More
          PROVE  q.n <= latest[Half(q.slot)] /\ \A r \in flight : r.slot \notin Halves
      <4>1. q.n = applied[Half(q.slot)] /\ count = 0
        BY <1>1, <2>1, <3>2 DEF More
      <4>2. applied[Half(q.slot)] <= latest[Half(q.slot)]
        BY HalfTurns, HalvesAre
      <4> QED BY <4>1, <4>2, NoneCounted, HalvesAre
    <3> QED BY <3>1, <3>2
  <2>4. AsksTable(sent \cup AskSource(p, st))
    BY <2>3 DEF AsksTable
  <2> QED BY <2>2, <2>4
<1> QED BY <1>3, <1>4 DEF UserAct

LEMMA TableAct ==
  ASSUME OrderInv, NEW p, NEW st, NEW sent, UserAct(p, st, sent)
  PROVE  TableInv'
<1>1. /\ flight' = flight \cup (sent \cup AskSource(p, st)) /\ now' = now
      /\ latest' = latest /\ applied' = applied /\ shown' = shown
  BY DEF UserAct, Act
<1> DEFINE new == sent \cup AskSource(p, st)
<1>2. AsksTable(new) /\ \A q \in new : q.at \in Int
  BY ActAsks
<1> HIDE DEF new
<1> QED BY <1>1, <1>2, TableAsks DEF new, OrderInv, AskedInv, ChoiceInv

\* A half has been answered, or its request has failed: the latest turn is still the
\* latest.
LEMMA TurnEnds ==
  ASSUME BaseInv, TurnInv, OneTurn, NEW r \in flight, r.slot \in Halves,
         flight' = flight \ {r},
         latest' = [latest EXCEPT ![r.slot] = Upper(@, r.n)]
  PROVE  OneTurn'
<1>1. PICK L \in Nat : \A h \in Halves : AskedLast(h, L)
  BY DEF OneTurn
<1>2. r.n \in Nat /\ r.n <= L
  BY <1>1, HalfTurns DEF AskedLast
<1>3. ASSUME NEW h \in Halves PROVE AskedLast(h, L)'
  <2>1. latest'[h] = IF h = r.slot THEN Upper(latest[h], r.n) ELSE latest[h]
    BY HalvesAre DEF TurnInv
  <2>2. /\ latest[h] \in Nat /\ latest[h] <= L
        /\ \A q \in flight : q.slot = h => q.n <= L
        /\ latest[h] = L \/ \E q \in flight : q.slot = h /\ q.n = L
    BY <1>1, HalfTurns DEF AskedLast
  <2>3. latest'[h] <= L
    BY <1>2, <2>1, <2>2 DEF Upper
  <2>4. latest'[h] = L \/ \E q \in flight' : q.slot = h /\ q.n = L
    <3>1. CASE latest[h] = L
      BY <1>2, <2>1, <3>1 DEF Upper
    <3>2. ASSUME NEW q \in flight, q.slot = h, q.n = L
          PROVE  latest'[h] = L \/ \E x \in flight' : x.slot = h /\ x.n = L
      <4>1. CASE q = r
        BY <1>2, <2>1, <2>2, <3>2, <4>1 DEF Upper
      <4>2. CASE q # r
        BY <3>2, <4>2
      <4> QED BY <4>1, <4>2
    <3> QED BY <2>2, <3>1, <3>2
  <2> QED BY <2>2, <2>3, <2>4 DEF AskedLast
<1> QED BY <1>3 DEF OneTurn

\* What holds of all requests goes on when there are less of them.
LEMMA FewerRequests ==
  ASSUME TableInv, flight' \subseteq flight
  PROVE  OneTime' /\ LoadsApart' /\ \A r \in flight' : r.at \in Int
  BY DEF TableInv, OneTime, LoadsApart, LinesOK

\* A request for a half fails, and then the half counts no more, or failed before.
LEMMA TableFails ==
  ASSUME OrderInv, NEW r \in flight, r.slot \in Halves, Fail(r)
  PROVE  TableInv'
<1> USE DEF OrderInv, AskedInv, ChoiceInv, TableInv
<1>1. /\ flight' = flight \ {r} /\ now' = now /\ shown' = shown /\ applied' = applied
      /\ latest' = [latest EXCEPT ![r.slot] = Upper(@, r.n)]
  BY HalvesAre DEF Fail, Settle
<1>2. OneTime' /\ LoadsApart' /\ \A q \in flight' : q.at \in Int
  BY <1>1, FewerRequests
<1>3. LinesOK' /\ HalvesFall'
  BY <1>1, <1>2 DEF LinesOK, HalvesFall, Kept
<1>4. OneTurn'
  BY <1>1, TurnEnds
<1>5. BelowWaits' /\ AboveWaits'
  BY <1>1 DEF BelowWaits, AboveWaits, Kept
<1>6. HalvesMeet'
  <2>1. SUFFICES ASSUME NEW n \in Nat, Both("newer", n)', Both("older", n)'
                 PROVE  Meeting'
    BY DEF HalvesMeet
  <2>2. \A h \in Halves : latest'[h] = IF h = r.slot THEN Upper(latest[h], r.n) ELSE latest[h]
    BY <1>1, HalvesAre DEF TurnInv
  <2>3. r.n \in Nat /\ applied[r.slot] # r.n
    BY HalfTurns, HalvesAre DEF TurnInv
  <2>4. ASSUME NEW h \in Halves, Both(h, n)' PROVE Both(h, n)
    <3>1. shown[h].whole /\ applied[h] = n /\ latest'[h] = n
      BY <1>1, <2>4 DEF Both
    <3>2. latest[h] \in Nat
      BY HalfTurns
    <3> QED BY <2>2, <2>3, <3>1, <3>2 DEF Both, Upper
  <2>5. Both("newer", n) /\ Both("older", n)
    BY <2>1, <2>4, HalvesAre
  <2>6. Meeting
    BY <2>5 DEF HalvesMeet
  <2> QED BY <1>1, <2>6 DEF Meeting, Kept
<1> QED BY <1>2, <1>3, <1>4, <1>5, <1>6

LEMMA ShowIs ==
  ASSUME DOMAIN shown = Queries, NEW h \in Halves, NEW qs, NEW lines, NEW whole,
         Show(h, qs, lines, whole)
  PROVE  /\ Kept(h)' = lines /\ shown'[h].whole = whole
         /\ \A x \in Halves \ {h} : shown'[x] = shown[x]
<1>1. shown'[h] = [qs |-> qs, lines |-> lines, whole |-> whole]
  BY HalvesAre DEF Show
<1>2. \A x \in Halves \ {h} : shown'[x] = shown[x]
  BY HalvesAre DEF Show
<1> QED BY <1>1, <1>2 DEF Kept

\* The newer half comes.
LEMMA TableNewer ==
  ASSUME OrderInv, NEW r \in flight, r.slot = "newer", SetData(r)
  PROVE  TableInv'
<1> USE DEF OrderInv, AskedInv, ChoiceInv, TableInv
<1> DEFINE new == NewerLines(r.at)
           known == TRUE
<1>1. /\ flight' = flight \ {r} /\ now' = now
      /\ Show("newer", {r.q}, new, known)
      /\ applied' = [applied EXCEPT !["newer"] = r.n]
      /\ latest' = [latest EXCEPT !["newer"] = Upper(@, r.n)]
  <2>1. /\ flight' = (flight \ {r}) \cup {} /\ now' = now
        /\ applied' = [applied EXCEPT !["newer"] = r.n]
        /\ latest' = [latest EXCEPT !["newer"] = Upper(@, r.n)]
    BY DEF SetData, Settle, Counts
  <2>2. Show("newer", {r.q}, new, known)
    BY DEF SetData, Show
  <2> QED BY <2>1, <2>2
<1>2. now \in Nat /\ r.at \in Int
  BY DEF LinesOK
<1>3. /\ new \in Seq(1..now) /\ Falling(new)
      /\ new # << >> => Last(new) = Upper(r.at, 1)
  BY <1>2, NewerIs
<1> HIDE DEF new, known
<1>4. /\ Kept("newer")' = new /\ shown'["newer"].whole = known
      /\ shown'["older"] = shown["older"]
  BY <1>1, ShowIs, HalvesAre
<1>5. applied'["newer"] = r.n /\ applied'["older"] = applied["older"]
      /\ latest'["older"] = latest["older"]
  BY <1>1, HalvesAre DEF TurnInv
<1>6. OneTime' /\ LoadsApart' /\ \A q \in flight' : q.at \in Int
  BY <1>1, FewerRequests
<1>7. LinesOK' /\ HalvesFall'
  <2>1. ASSUME NEW h \in Halves
        PROVE  /\ Kept(h)' \in Seq(1..now) /\ shown'[h].whole \in BOOLEAN
               /\ shown'[h].whole => Falling(Kept(h)')
    <3>1. CASE h = "newer"
      BY <1>3, <1>4, <3>1 DEF known
    <3>2. CASE h = "older"
      BY <1>4, <3>2 DEF LinesOK, HalvesFall, Kept
    <3> QED BY <3>1, <3>2, HalvesAre
  <2>2. LinesOK'
    BY <1>1, <1>2, <1>6, <2>1 DEF LinesOK, Kept
  <2>3. HalvesFall'
    BY <2>1 DEF HalvesFall, Kept, Falling
  <2> QED BY <2>2, <2>3
<1>8. OneTurn'
  BY <1>1, TurnEnds, HalvesAre
<1>9. BelowWaits'
  <2> SUFFICES ASSUME NEW q \in flight', q.slot = "newer", applied["older"] = q.n,
                      shown["older"].whole
               PROVE  Kept("older") = << >> \/ Head(Kept("older")) = q.at - 1
      BY <1>4, <1>5 DEF BelowWaits, Kept
  <2> QED BY <1>1 DEF BelowWaits
<1>10. AboveWaits'
  <2> SUFFICES ASSUME NEW q \in flight', q.slot = "older", r.n = q.n
               PROVE  new = << >> \/ Last(new) = Upper(q.at, 1)
      BY <1>4, <1>5 DEF AboveWaits, Kept
  <2>1. q.at = r.at
    BY <1>1, HalvesAre DEF OneTime
  <2> QED BY <1>3, <2>1
<1>11. HalvesMeet'
  <2>1. SUFFICES ASSUME NEW n \in Nat, Both("newer", n)', Both("older", n)',
                        new # << >>, Kept("older") # << >>
                 PROVE  Last(new) - Head(Kept("older")) \in {0, 1}
    BY <1>4 DEF HalvesMeet, Meeting, Kept
  <2>2. r.n = n /\ applied["older"] = n /\ shown["older"].whole
    BY <1>4, <1>5, <2>1 DEF Both
  <2>3. Head(Kept("older")) = r.at - 1
    BY <2>1, <2>2 DEF BelowWaits
  <2>4. Head(Kept("older")) \in 1..now
    BY <2>1, EndsOf, HalvesAre DEF LinesOK
  <2>5. Last(new) = r.at
    BY <1>2, <1>3, <2>1, <2>3, <2>4 DEF Upper
  <2>6. r.at - (r.at - 1) = 1
    BY <1>2
  <2> QED BY <2>3, <2>5, <2>6
<1> QED BY <1>6, <1>7, <1>8, <1>9, <1>10, <1>11

\* The older half comes.
LEMMA TableOlder ==
  ASSUME OrderInv, NEW r \in flight, r.slot = "older", SetData(r)
  PROVE  TableInv'
<1> USE DEF OrderInv, AskedInv, ChoiceInv, TableInv
<1> DEFINE new == OlderLines(r.at)
           known == r.at <= now + 1
<1>1. /\ flight' = flight \ {r} /\ now' = now
      /\ Show("older", {r.q}, new, known)
      /\ applied' = [applied EXCEPT !["older"] = r.n]
      /\ latest' = [latest EXCEPT !["older"] = Upper(@, r.n)]
  <2>1. /\ flight' = (flight \ {r}) \cup {} /\ now' = now
        /\ applied' = [applied EXCEPT !["older"] = r.n]
        /\ latest' = [latest EXCEPT !["older"] = Upper(@, r.n)]
    BY DEF SetData, Settle, Counts
  <2>2. Show("older", {r.q}, new, known)
    BY DEF SetData, Show
  <2> QED BY <2>1, <2>2
<1>2. now \in Nat /\ r.at \in Int
  BY DEF LinesOK
<1>3. /\ new \in Seq(1..now) /\ Falling(new)
      /\ new # << >> => 2 <= r.at /\ (known => Head(new) = r.at - 1)
      /\ known \in BOOLEAN
  <2>1. /\ new \in Seq(1..now) /\ Falling(new)
        /\ new # << >> => 2 <= r.at /\ (r.at <= now + 1 => Head(new) = r.at - 1)
    BY <1>2, OlderIs
  <2> HIDE DEF new
  <2> QED BY <2>1
<1> HIDE DEF new, known
<1>4. /\ Kept("older")' = new /\ shown'["older"].whole = known
      /\ shown'["newer"] = shown["newer"]
  BY <1>1, ShowIs, HalvesAre
<1>5. applied'["older"] = r.n /\ applied'["newer"] = applied["newer"]
      /\ latest'["newer"] = latest["newer"]
  BY <1>1, HalvesAre DEF TurnInv
<1>6. OneTime' /\ LoadsApart' /\ \A q \in flight' : q.at \in Int
  BY <1>1, FewerRequests
<1>7. LinesOK' /\ HalvesFall'
  <2>1. ASSUME NEW h \in Halves
        PROVE  /\ Kept(h)' \in Seq(1..now) /\ shown'[h].whole \in BOOLEAN
               /\ shown'[h].whole => Falling(Kept(h)')
    <3>1. CASE h = "older"
      BY <1>3, <1>4, <3>1
    <3>2. CASE h = "newer"
      BY <1>4, <3>2 DEF LinesOK, HalvesFall, Kept
    <3> QED BY <3>1, <3>2, HalvesAre
  <2>2. LinesOK'
    BY <1>1, <1>2, <1>6, <2>1 DEF LinesOK, Kept
  <2>3. HalvesFall'
    BY <2>1 DEF HalvesFall, Kept, Falling
  <2> QED BY <2>2, <2>3
<1>8. OneTurn'
  BY <1>1, TurnEnds, HalvesAre
<1>9. BelowWaits'
  <2> SUFFICES ASSUME NEW q \in flight', q.slot = "newer", r.n = q.n, known
               PROVE  new = << >> \/ Head(new) = q.at - 1
      BY <1>4, <1>5 DEF BelowWaits, Kept
  <2>1. q.at = r.at
    BY <1>1, HalvesAre DEF OneTime
  <2> QED BY <1>3, <2>1
<1>10. AboveWaits'
  <2> SUFFICES ASSUME NEW q \in flight', q.slot = "older", applied["newer"] = q.n,
                      shown["newer"].whole
               PROVE  Kept("newer") = << >> \/ Last(Kept("newer")) = Upper(q.at, 1)
      BY <1>4, <1>5 DEF AboveWaits, Kept
  <2> QED BY <1>1 DEF AboveWaits
<1>11. HalvesMeet'
  <2>1. SUFFICES ASSUME NEW n \in Nat, Both("newer", n)', Both("older", n)',
                        new # << >>, Kept("newer") # << >>
                 PROVE  Last(Kept("newer")) - Head(new) \in {0, 1}
    BY <1>4 DEF HalvesMeet, Meeting, Kept
  <2>2. r.n = n /\ applied["newer"] = n /\ shown["newer"].whole /\ known
    BY <1>4, <1>5, <2>1 DEF Both
  <2>3. Last(Kept("newer")) = Upper(r.at, 1)
    BY <2>1, <2>2 DEF AboveWaits
  <2>4. 2 <= r.at /\ Head(new) = r.at - 1
    BY <1>3, <2>1, <2>2
  <2>5. Upper(r.at, 1) = r.at
    BY <1>2, <2>4 DEF Upper
  <2>6. r.at - (r.at - 1) = 1
    BY <1>2
  <2> QED BY <2>3, <2>4, <2>5, <2>6
<1> QED BY <1>6, <1>7, <1>8, <1>9, <1>10, <1>11

LEMMA WithoutNone == ASSUME NEW set PROVE Without(<< >>, set) = << >>
<1> DEFINE kept == {i \in DOMAIN << >> : << >>[i] \notin set}
           at(k) == << >>[CHOOSE i \in kept : Cardinality({j \in kept : j <= i}) = k]
<1>1. kept = {}
  OBVIOUS
<1>2. Without(<< >>, set) = [k \in 1..Cardinality(kept) |-> at(k)]
  BY DEF Without
<1> HIDE DEF kept, at
<1>3. Cardinality(kept) = 0
  BY <1>1, FS_EmptySet
<1> QED BY <1>2, <1>3

\* Dropping lines leaves a list of lines: each position is that of one line that is
\* kept, since as many lines are kept as there are positions.
LEMMA WithoutIsList ==
  ASSUME NEW S, NEW s \in Seq(S), NEW set
  PROVE  Without(s, set) \in Seq(S)
<1> DEFINE kept == {i \in DOMAIN s : s[i] \notin set}
           upto(i) == {j \in kept : j <= i}
           N == Cardinality(kept)
           f == [i \in kept |-> Cardinality(upto(i))]
<1>1. kept \in SUBSET (1..Len(s)) /\ Len(s) \in Nat
  OBVIOUS
<1>2. IsFiniteSet(kept) /\ N \in Nat
  <2>1. IsFiniteSet(1..Len(s))
    BY <1>1, FS_Interval
  <2> HIDE DEF kept
  <2> QED BY <1>1, <2>1, FS_Subset, FS_CardinalityType
<1>3. \A i \in kept : s[i] \in S
  BY <1>1
<1>4. Without(s, set) = [k \in 1..N |-> s[CHOOSE i \in kept : Cardinality(upto(i)) = k]]
  BY DEF Without
<1> HIDE DEF kept
<1>5. ASSUME NEW i \in kept
      PROVE  /\ upto(i) \in SUBSET kept /\ i \in upto(i) /\ IsFiniteSet(upto(i))
             /\ Cardinality(upto(i)) \in 1..N
  <2>1. upto(i) \in SUBSET kept /\ i \in upto(i)
    BY <1>1
  <2> HIDE DEF upto
  <2>2. IsFiniteSet(upto(i)) /\ Cardinality(upto(i)) <= N
    BY <1>2, <2>1, FS_Subset
  <2>3. Cardinality(upto(i)) \in Nat /\ Cardinality(upto(i)) # 0
    BY <2>1, <2>2, FS_CardinalityType, FS_EmptySet
  <2> HIDE DEF N
  <2> QED BY <1>2, <2>1, <2>2, <2>3
<1>6. ASSUME NEW i \in kept, NEW j \in kept, i < j
      PROVE  Cardinality(upto(i)) # Cardinality(upto(j))
  <2>1. upto(i) \in SUBSET upto(j) /\ j \notin upto(i)
    <3>1. \A x \in kept : x \in Int
      BY <1>1
    <3>2. \A x \in kept : (x <= i => x <= j) /\ ~(j <= i)
      BY <1>6, <3>1
    <3> QED BY <3>2
  <2> HIDE DEF upto
  <2>2. upto(i) # upto(j) /\ IsFiniteSet(upto(j))
    BY <1>5, <2>1
  <2> QED BY <2>1, <2>2, FS_Subset
<1> HIDE DEF upto
<1>7. f \in Injection(kept, 1..N)
  <2>1. f \in [kept -> 1..N]
    BY <1>5
  <2>2. ASSUME NEW i \in kept, NEW j \in kept, f[i] = f[j] PROVE i = j
    <3>1. i \in Int /\ j \in Int
      BY <1>1
    <3>2. ~(i < j) /\ ~(j < i)
      BY <1>6, <2>2
    <3> QED BY <3>1, <3>2
  <2> HIDE DEF f
  <2> QED BY <2>1, <2>2 DEF Injection, IsInjective
<1>8. IsFiniteSet(1..N) /\ Cardinality(1..N) = N
  <2>1. N \in Int /\ 1 \in Int
    BY <1>2
  <2>2. IsFiniteSet(1..N) /\ Cardinality(1..N) = IF 1 > N THEN 0 ELSE N - 1 + 1
    BY <2>1, FS_Interval
  <2> HIDE DEF N
  <2> QED BY <1>2, <2>2
<1>9. f \in Surjection(kept, 1..N)
  <2> HIDE DEF f
  <2> QED BY <1>7, <1>8, FS_Injection DEF N
<1>10. ASSUME NEW k \in 1..N
       PROVE  s[CHOOSE i \in kept : Cardinality(upto(i)) = k] \in S
  <2>1. \E i \in kept : f[i] = k
    BY <1>9 DEF Surjection
  <2>2. \E i \in kept : Cardinality(upto(i)) = k
    BY <2>1
  <2>3. (CHOOSE i \in kept : Cardinality(upto(i)) = k) \in kept
    BY <2>2
  <2> QED BY <1>3, <2>3
<1> HIDE DEF N, f
<1> QED BY <1>2, <1>4, <1>10

\* What becomes of the table when r loads lines for its half h.
Loaded(r, h, lines, meets) ==
  /\ flight' = flight \ {r} /\ now' = now
  /\ Kept(h)' = lines /\ shown'[h].whole = (shown[h].whole /\ meets)
  /\ OneTime' /\ LoadsApart' /\ (\A q \in flight' : q.at \in Int)
  /\ OneTurn'
  /\ \A x \in Halves \ {h} : /\ shown'[x] = shown[x]
                             /\ applied'[x] = applied[x] /\ latest'[x] = latest[x]
  /\ \A q \in flight' : q.slot \in Halves => applied'[h] # q.n
  /\ \A n \in Nat : Both(h, n)' => Both(h, n) /\ meets

\* More lines count for a half only if they were asked for the data set it shows.
LEMMA LoadCounts ==
  ASSUME BaseInv, TurnInv, DOMAIN shown = Queries, LinesOK, OneTime, LoadsApart, OneTurn,
         NEW r \in flight, NEW h \in Halves, r.slot \in More, Half(r.slot) = h,
         NEW lines, NEW meets \in BOOLEAN, Joins(h, r, lines, meets)
  PROVE  Loaded(r, h, lines, meets)
<1> DEFINE k == IF r.n = applied[h] THEN r.n ELSE 0
           whole == shown[h].whole /\ meets
<1>1. /\ flight' = flight \ {r} /\ now' = now
      /\ Counts(h, k) /\ Show(h, shown[h].qs \cup {r.q}, lines, whole)
  BY DEF Joins, Settle
<1>2. /\ applied[h] \in Nat /\ latest[h] \in Nat /\ applied[h] <= latest[h]
      /\ r.n \in Nat /\ r.n <= latest[h]
  BY HalfTurns, HalvesAre
<1> HIDE DEF whole
<1>3. /\ Kept(h)' = lines /\ shown'[h].whole = whole
      /\ \A x \in Halves \ {h} : shown'[x] = shown[x]
  BY <1>1, ShowIs
<1> HIDE DEF k
<1>4. /\ applied'[h] = k /\ latest'[h] = Upper(latest[h], k)
      /\ \A x \in Halves \ {h} : applied'[x] = applied[x] /\ latest'[x] = latest[x]
  BY <1>1, HalvesAre DEF Counts, TurnInv
<1>5. latest'[h] = latest[h] /\ k \in Nat
  BY <1>2, <1>4 DEF Upper, k
<1>6. OneTime' /\ LoadsApart' /\ \A q \in flight' : q.at \in Int
  BY <1>1 DEF OneTime, LoadsApart, LinesOK
<1>7. OneTurn'
  <2>1. PICK L \in Nat : \A x \in Halves : AskedLast(x, L)
    BY DEF OneTurn
  <2>2. \A x \in Halves : latest'[x] = latest[x] /\ r.slot # x
    BY <1>4, <1>5, HalvesAre
  <2>3. \A x \in Halves : AskedLast(x, L)'
    BY <1>1, <2>1, <2>2 DEF AskedLast
  <2> QED BY <2>3 DEF OneTurn
<1>8. ASSUME NEW q \in flight', q.slot \in Halves PROVE applied'[h] # q.n
  <2>1. q \in flight /\ q.n # r.n
    BY <1>1, <1>8 DEF LoadsApart
  <2>2. q.n # 0
    BY <1>8, <2>1, HalfTurns
  <2> QED BY <1>4, <2>1, <2>2 DEF k
<1>9. ASSUME NEW n \in Nat, Both(h, n)' PROVE Both(h, n) /\ meets
  <2>1. whole /\ k = n /\ latest[h] = n
    BY <1>3, <1>4, <1>5, <1>9 DEF Both
  <2>2. applied[h] = n
    BY <1>2, <2>1 DEF k
  <2> QED BY <2>1, <2>2 DEF Both, whole
<1> QED BY <1>1, <1>3, <1>4, <1>5, <1>6, <1>7, <1>8, <1>9 DEF whole, Loaded

\* The line at either end, of the half that has one.
LEMMA EndsOfTable ==
  ASSUME LinesOK
  PROVE  /\ Kept("newer") # << >> => Lines # << >> /\ FirstLine = Head(Kept("newer"))
         /\ Kept("older") # << >> => Lines # << >> /\ LastLine = Last(Kept("older"))
         /\ Kept("newer") = << >> /\ Kept("older") # << >> => FirstLine = Head(Kept("older"))
         /\ Kept("older") = << >> /\ Kept("newer") # << >> => LastLine = Last(Kept("newer"))
         /\ Lines = << >> => Kept("newer") = << >> /\ Kept("older") = << >>
<1> DEFINE a == Kept("newer")
           b == Kept("older")
<1>1. /\ a \in Seq(1..now) /\ b \in Seq(1..now)
      /\ Lines = a \o b
      /\ FirstLine = IF Lines = << >> THEN now + 1 ELSE Head(Lines)
      /\ LastLine = IF Lines = << >> THEN now + 1 ELSE Last(Lines)
  BY HalvesAre DEF LinesOK, Kept, Lines, FirstLine, LastLine
<1> HIDE DEF a, b
<1>2. /\ Lines = << >> <=> a = << >> /\ b = << >>
      /\ a # << >> => Head(a \o b) = Head(a)
      /\ b # << >> => Last(a \o b) = Last(b)
      /\ a = << >> => a \o b = b
      /\ b = << >> => a \o b = a
  BY <1>1, ConcatEnds
<1> QED BY <1>1, <1>2 DEF a, b

\* Newer lines are loaded.
LEMMA TableAbove ==
  ASSUME OrderInv, NEW r \in flight, PrependMoreLogs(r)
  PROVE  TableInv'
<1> USE DEF OrderInv, AskedInv, ChoiceInv, TableInv
<1> DEFINE a == Kept("newer")
           new == NewerLines(r.at)
           c == new \o Without(a, ToSet(new))
           meets == MeetsFirst(r)
<1>1. r.slot \in More /\ Half(r.slot) = "newer" /\ Joins("newer", r, c, meets)
  BY DEF PrependMoreLogs, More, Half, Kept
<1>2. meets \in BOOLEAN
  BY DEF MeetsFirst
<1> HIDE DEF c, meets
<1>3. /\ flight' = flight \ {r} /\ now' = now
      /\ Kept("newer")' = c /\ shown'["newer"].whole = (shown["newer"].whole /\ meets)
      /\ OneTime' /\ LoadsApart' /\ (\A q \in flight' : q.at \in Int)
      /\ OneTurn'
      /\ shown'["older"] = shown["older"]
      /\ applied'["older"] = applied["older"] /\ latest'["older"] = latest["older"]
      /\ \A q \in flight' : q.slot \in Halves => applied'["newer"] # q.n
      /\ \A n \in Nat : Both("newer", n)' => Both("newer", n) /\ meets
  <2> HIDE DEF a, new
  <2>1. "newer" \in Halves /\ "older" \in Halves \ {"newer"}
    BY HalvesAre
  <2>2. Loaded(r, "newer", c, meets)
    BY <1>1, <1>2, <2>1, LoadCounts
  <2> QED BY <2>1, <2>2 DEF Loaded
<1>4. now \in Nat /\ r.at \in Int /\ a \in Seq(1..now)
  BY HalvesAre DEF LinesOK
<1>5. /\ new \in Seq(1..now) /\ Falling(new)
      /\ new # << >> => Last(new) = Upper(r.at, 1)
  BY <1>4, NewerIs
<1>6. c \in Seq(1..now)
  <2> HIDE DEF new, a
  <2>1. Without(a, ToSet(new)) \in Seq(1..now)
    BY <1>4, WithoutIsList
  <2> QED BY <1>5, <2>1 DEF c
<1>7. ASSUME a = << >> PROVE c = new
  <2> HIDE DEF new, a
  <2>1. Without(a, ToSet(new)) = << >>
    BY <1>7, WithoutNone
  <2> QED BY <1>5, <2>1 DEF c
<1>8. ASSUME shown["newer"].whole, meets, a # << >>
      PROVE  Falling(c) /\ c # << >> /\ Last(c) = Last(a)
  <2>1. FirstLine = Head(a) /\ Lines # << >>
    BY <1>8, EndsOfTable
  <2>2. r.at \in ToSet(a) /\ Head(a) < r.at + Chunk
    <3>1. CASE r.at = FirstLine
      <4>1. Head(a) \in ToSet(a) /\ Head(a) \in Int
        <5> HIDE DEF a
        <5>1. Len(a) \in Nat \ {0} /\ DOMAIN a = 1..Len(a)
          BY <1>4, <1>8
        <5> QED BY <1>4, <1>8, <5>1, EndsOf DEF ToSet
      <4>2. Chunk \in Nat \ {0}
        BY LogsViewerAssumption
      <4> QED BY <2>1, <3>1, <4>1, <4>2
    <3>2. CASE r.at \in ToSet(a) /\ FirstLine < r.at + Chunk
      BY <2>1, <3>2
    <3> QED BY <1>8, <2>1, <3>1, <3>2 DEF meets, MeetsFirst, Kept
  <2>3. Falling(a)
    BY <1>8, HalvesAre DEF HalvesFall
  <2> HIDE DEF a
  <2> QED BY <1>4, <1>8, <2>2, <2>3, Prepended DEF c
<1> HIDE DEF new
<1>9. ASSUME NEW h \in Halves
      PROVE  /\ Kept(h)' \in Seq(1..now) /\ shown'[h].whole \in BOOLEAN
             /\ shown'[h].whole => Falling(Kept(h)')
  <2>1. CASE h = "newer"
    <3>1. shown["newer"].whole \in BOOLEAN
      BY HalvesAre DEF LinesOK
    <3>2. shown'["newer"].whole => Falling(c)
      BY <1>3, <1>5, <1>7, <1>8
    <3> QED BY <1>2, <1>3, <1>6, <2>1, <3>1, <3>2
  <2>2. CASE h = "older"
    BY <1>3, <2>2 DEF LinesOK, HalvesFall, Kept
  <2> QED BY <2>1, <2>2, HalvesAre
<1>10. LinesOK' /\ HalvesFall'
  <2>1. LinesOK'
    BY <1>3, <1>4, <1>9 DEF LinesOK, Kept
  <2>2. HalvesFall'
    BY <1>9 DEF HalvesFall, Kept, Falling
  <2> QED BY <2>1, <2>2
<1>11. BelowWaits'
  <2> SUFFICES ASSUME NEW q \in flight', q.slot = "newer", applied["older"] = q.n,
                      shown["older"].whole
               PROVE  Kept("older") = << >> \/ Head(Kept("older")) = q.at - 1
      BY <1>3 DEF BelowWaits, Kept
  <2> QED BY <1>3 DEF BelowWaits
<1>12. AboveWaits'
  BY <1>3, HalvesAre DEF AboveWaits
<1>13. HalvesMeet'
  <2> DEFINE b == Kept("older")
  <2>1. SUFFICES ASSUME NEW n \in Nat, Both("newer", n)', Both("older", n)', c # << >>, b # << >>
                 PROVE  Last(c) - Head(b) \in {0, 1}
    BY <1>3 DEF HalvesMeet, Meeting, Kept
  <2>2. Both("newer", n) /\ meets /\ Both("older", n)
    <3>1. Both("older", n)
      BY <1>3, <2>1 DEF Both
    <3> QED BY <1>3, <2>1, <3>1
  <2>3. a # << >> => Last(a) - Head(b) \in {0, 1}
    BY <2>1, <2>2 DEF HalvesMeet, Meeting
  <2>4. CASE a # << >>
    BY <1>8, <2>2, <2>3, <2>4 DEF Both
  <2>5. CASE a = << >>
    <3>1. c = new /\ FirstLine = Head(b) /\ Lines # << >>
      BY <1>7, <2>1, <2>5, EndsOfTable
    <3>2. shown["newer"].lines = << >>
      BY <2>5 DEF Kept
    <3>3. r.at \notin ToSet(<< >>)
      BY DEF ToSet
    <3>4. r.at = FirstLine
      BY <2>2, <3>1, <3>2, <3>3 DEF meets, MeetsFirst
    <3>5. Head(b) \in 1..now
      BY <2>1, EndsOf, HalvesAre DEF LinesOK
    <3>6. Last(new) = Head(b)
      BY <1>5, <2>1, <3>1, <3>4, <3>5 DEF Upper
    <3> QED BY <3>1, <3>5, <3>6
  <2> QED BY <2>4, <2>5
<1> QED BY <1>3, <1>10, <1>11, <1>12, <1>13

\* Older lines are loaded.
LEMMA TableBelow ==
  ASSUME OrderInv, NEW r \in flight, ConcatMoreLogs(r)
  PROVE  TableInv'
<1> USE DEF OrderInv, AskedInv, ChoiceInv, TableInv
<1> DEFINE b == Kept("older")
           new == OlderLines(r.at)
           c == b \o new
           meets == MeetsLast(r)
<1>1. r.slot \in More /\ Half(r.slot) = "older" /\ Joins("older", r, c, meets)
  BY DEF ConcatMoreLogs, More, Half, Kept
<1>2. meets \in BOOLEAN
  BY DEF MeetsLast
<1> HIDE DEF c, meets
<1>3. /\ flight' = flight \ {r} /\ now' = now
      /\ Kept("older")' = c /\ shown'["older"].whole = (shown["older"].whole /\ meets)
      /\ OneTime' /\ LoadsApart' /\ (\A q \in flight' : q.at \in Int)
      /\ OneTurn'
      /\ shown'["newer"] = shown["newer"]
      /\ applied'["newer"] = applied["newer"] /\ latest'["newer"] = latest["newer"]
      /\ \A q \in flight' : q.slot \in Halves => applied'["older"] # q.n
      /\ \A n \in Nat : Both("older", n)' => Both("older", n) /\ meets
  <2> HIDE DEF b, new
  <2>1. "older" \in Halves /\ "newer" \in Halves \ {"older"}
    BY HalvesAre
  <2>2. Loaded(r, "older", c, meets)
    BY <1>1, <1>2, <2>1, LoadCounts
  <2> QED BY <2>1, <2>2 DEF Loaded
<1>4. now \in Nat /\ r.at \in Int /\ b \in Seq(1..now)
  BY HalvesAre DEF LinesOK
<1>5. /\ new \in Seq(1..now) /\ Falling(new)
      /\ new # << >> => 2 <= r.at /\ (r.at <= now + 1 => Head(new) = r.at - 1)
  BY <1>4, OlderIs
<1>6. c \in Seq(1..now) /\ (b = << >> => c = new)
  <2> HIDE DEF new, b
  <2> QED BY <1>4, <1>5 DEF c
<1>7. ASSUME shown["older"].whole, meets, b # << >>
      PROVE  Falling(c) /\ c # << >> /\ Head(c) = Head(b)
  <2>1. r.at = Last(b)
    BY <1>7, EndsOfTable DEF meets, MeetsLast
  <2>2. Falling(b)
    BY <1>7, HalvesAre DEF HalvesFall
  <2> HIDE DEF b
  <2> QED BY <1>4, <1>7, <2>1, <2>2, Appended DEF c
<1> HIDE DEF new
<1>8. ASSUME NEW h \in Halves
      PROVE  /\ Kept(h)' \in Seq(1..now) /\ shown'[h].whole \in BOOLEAN
             /\ shown'[h].whole => Falling(Kept(h)')
  <2>1. CASE h = "older"
    <3>1. shown["older"].whole \in BOOLEAN
      BY HalvesAre DEF LinesOK
    <3>2. shown'["older"].whole => Falling(c)
      BY <1>3, <1>5, <1>6, <1>7
    <3> QED BY <1>2, <1>3, <1>6, <2>1, <3>1, <3>2
  <2>2. CASE h = "newer"
    BY <1>3, <2>2 DEF LinesOK, HalvesFall, Kept
  <2> QED BY <2>1, <2>2, HalvesAre
<1>9. LinesOK' /\ HalvesFall'
  <2>1. LinesOK'
    BY <1>3, <1>4, <1>8 DEF LinesOK, Kept
  <2>2. HalvesFall'
    BY <1>8 DEF HalvesFall, Kept, Falling
  <2> QED BY <2>1, <2>2
<1>10. BelowWaits'
  BY <1>3, HalvesAre DEF BelowWaits
<1>11. AboveWaits'
  <2> SUFFICES ASSUME NEW q \in flight', q.slot = "older", applied["newer"] = q.n,
                      shown["newer"].whole
               PROVE  Kept("newer") = << >> \/ Last(Kept("newer")) = Upper(q.at, 1)
      BY <1>3 DEF AboveWaits, Kept
  <2> QED BY <1>3 DEF AboveWaits
<1>12. HalvesMeet'
  <2> DEFINE a == Kept("newer")
  <2>1. SUFFICES ASSUME NEW n \in Nat, Both("newer", n)', Both("older", n)', a # << >>, c # << >>
                 PROVE  Last(a) - Head(c) \in {0, 1}
    BY <1>3 DEF HalvesMeet, Meeting, Kept
  <2>2. Both("newer", n) /\ meets /\ Both("older", n)
    <3>1. Both("newer", n)
      BY <1>3, <2>1 DEF Both
    <3> QED BY <1>3, <2>1, <3>1
  <2>3. b # << >> => Last(a) - Head(b) \in {0, 1}
    BY <2>1, <2>2 DEF HalvesMeet, Meeting
  <2>4. CASE b # << >>
    BY <1>7, <2>2, <2>3, <2>4 DEF Both
  <2>5. CASE b = << >>
    <3>1. c = new /\ LastLine = Last(a) /\ Lines # << >>
      BY <1>6, <2>1, <2>5, EndsOfTable
    <3>2. r.at = LastLine
      BY <2>2, <3>1 DEF meets, MeetsLast
    <3>3. Last(a) \in 1..now
      BY <2>1, EndsOf, HalvesAre DEF LinesOK
    <3>4. r.at <= now + 1 /\ Last(a) \in Int
      BY <1>4, <3>1, <3>2, <3>3
    <3>5. Head(new) = Last(a) - 1
      BY <1>5, <2>1, <3>1, <3>2, <3>4
    <3>6. Last(a) - (Last(a) - 1) = 1
      BY <3>4
    <3> QED BY <3>1, <3>5, <3>6
  <2> QED BY <2>4, <2>5
<1> QED BY <1>3, <1>9, <1>10, <1>11, <1>12

LEMMA TableAnswer ==
  ASSUME OrderInv, NEW r \in flight,
         \/ SetData(r) \/ PrependMoreLogs(r) \/ ConcatMoreLogs(r)
         \/ SetSource(r) \/ SetNamespaces(r) \/ Fail(r)
  PROVE  TableInv'
<1> USE DEF OrderInv, AskedInv, ChoiceInv
<1>1. ASSUME r.slot \notin Halves, NEW new, AsksTable(new), \A q \in new : q.at \in Int,
             flight' = (flight \ {r}) \cup new, now' = now,
             \A h \in Halves : /\ latest'[h] = latest[h] /\ applied'[h] = applied[h]
                               /\ shown'[h] = shown[h]
      PROVE  TableInv'
  BY <1>1, TableAsks
<1>2. AsksTable({})
  BY DEF AsksTable
<1>3. CASE SetData(r)
  <2>1. CASE r.slot \in Halves
    BY <1>3, <2>1, TableNewer, TableOlder DEF Halves
  <2>2. CASE r.slot \notin Halves
    <3>1. /\ flight' = (flight \ {r}) \cup {} /\ now' = now
          /\ Counts(r.slot, r.n) /\ \E qs, lines, whole : Show(r.slot, qs, lines, whole)
      BY <1>3 DEF SetData, Settle
    <3>2. \A h \in Halves : /\ latest'[h] = latest[h] /\ applied'[h] = applied[h]
                            /\ shown'[h] = shown[h]
      BY <2>2, <3>1, HalvesAre DEF Counts, Show, TurnInv
    <3> QED BY <1>1, <1>2, <2>2, <3>1, <3>2
  <2> QED BY <2>1, <2>2
<1>4. CASE PrependMoreLogs(r) \/ ConcatMoreLogs(r)
  BY <1>4, TableAbove, TableBelow
<1>5. CASE SetSource(r)
  <2> DEFINE q == Request("namespaces", r.q, 0, seq + 1)
  <2>1. r.slot = "source" /\ flight' = (flight \ {r}) \cup {q} /\ now' = now
        /\ Counts("source", r.n) /\ shown' = shown
    BY <1>5 DEF SetSource, Settle
  <2>2. q.slot = "namespaces" /\ q.at = 0
    BY DEF Request
  <2> HIDE DEF q
  <2>3. AsksTable({q}) /\ \A x \in {q} : x.at \in Int
    BY <2>2 DEF AsksTable, Halves, More
  <2>4. \A h \in Halves : latest'[h] = latest[h] /\ applied'[h] = applied[h]
    BY <2>1, HalvesAre DEF Counts, TurnInv, Halves
  <2>5. r.slot \notin Halves
    BY <2>1 DEF Halves
  <2> QED BY <1>1, <2>1, <2>3, <2>4, <2>5
<1>6. CASE SetNamespaces(r)
  <2>1. r.slot = "namespaces" /\ flight' = (flight \ {r}) \cup Send(store') /\ now' = now
        /\ Counts("namespaces", r.n) /\ shown' = shown
    BY <1>6 DEF SetNamespaces, Settle
  <2>2. StoreOK(store) /\ now \in Nat
    BY DEF BaseInv, TableInv, LinesOK
  <2>3. StoreOK(store')
    BY <1>6, <2>2, AnswerKeepsShape DEF BaseInv
  <2>4. \A x \in Send(store') : x.at \in Int
    BY <2>2, <2>3, SendAsks
  <2>5. AsksTable(Send(store'))
    BY <2>2, <2>3, SendAsks
  <2>6. \A h \in Halves : latest'[h] = latest[h] /\ applied'[h] = applied[h]
    BY <2>1, HalvesAre DEF Counts, TurnInv, Halves
  <2>7. r.slot \notin Halves
    BY <2>1 DEF Halves
  <2> QED BY <1>1, <2>1, <2>4, <2>5, <2>6, <2>7
<1>7. CASE Fail(r)
  <2>1. CASE r.slot \in Halves
    BY <1>7, <2>1, TableFails
  <2>2. CASE r.slot \notin Halves
    <3>1. /\ flight' = (flight \ {r}) \cup {} /\ now' = now
          /\ shown' = shown /\ applied' = applied
          /\ latest' = latest \/ latest' = [latest EXCEPT ![r.slot] = Upper(@, r.n)]
      BY <1>7 DEF Fail, Settle
    <3>2. \A h \in Halves : latest'[h] = latest[h]
      BY <2>2, <3>1, HalvesAre DEF TurnInv
    <3> QED BY <1>1, <1>2, <2>2, <3>1, <3>2
  <2> QED BY <2>1, <2>2
<1> QED BY <1>3, <1>4, <1>5, <1>6, <1>7

\* The log grows: what is shown stays.
LEMMA TableGrows == ASSUME OrderInv, Grow PROVE TableInv'
<1> USE DEF OrderInv, TableInv
<1>1. /\ now' = now + 1 /\ shown' = shown /\ flight' = flight
      /\ applied' = applied /\ latest' = latest
  BY DEF Grow
<1>2. LinesOK'
  <2>1. now \in Nat /\ now' \in Nat
    BY <1>1 DEF LinesOK
  <2>2. ASSUME NEW h \in Halves PROVE Kept(h)' \in Seq(1..now')
    <3>1. Kept(h) \in Seq(1..now) /\ Kept(h)' = Kept(h)
      BY <1>1 DEF LinesOK, Kept
    <3>2. Kept(h) \in Seq(Int) /\ \A i \in 1..Len(Kept(h)) : Kept(h)[i] \in 1..now'
      BY <1>1, <2>1, <3>1
    <3> QED BY <2>1, <3>1, <3>2, WithinLog
  <2> QED BY <1>1, <2>1, <2>2 DEF LinesOK
<1> QED BY <1>1, <1>2 DEF HalvesFall, OneTime, LoadsApart, OneTurn, AskedLast, BelowWaits,
                          AboveWaits, HalvesMeet, Both, Meeting, Kept

LEMMA TableStays ==
  ASSUME TableInv, now' = now, shown' = shown, flight' = flight, applied' = applied,
         latest' = latest
  PROVE  TableInv'
  BY DEF TableInv, LinesOK, HalvesFall, OneTime, LoadsApart, OneTurn, AskedLast, BelowWaits,
         AboveWaits, HalvesMeet, Both, Meeting, Kept

LEMMA OrderStep == OrderInv /\ [Next]_vars => OrderInv'
<1> SUFFICES ASSUME OrderInv, [Next]_vars PROVE TableInv'
  BY AskedStep, CountStep DEF OrderInv, AskedInv, ChoiceInv, CountInv
<1>1. CASE \/ Mount \/ Tick \/ ChangeTerm \/ SetTimeWindow \/ ChooseCustomTime
           \/ ChooseRelativeTime \/ Pause \/ Play \/ ChooseNamespace \/ ChooseSource
           \/ LoadMoreAbove \/ LoadMoreBelow
  <2>1. PICK p, st, sent : UserAct(p, st, sent)
    BY <1>1, UserActs DEF OrderInv, AskedInv, ChoiceInv, BaseInv
  <2> QED BY <2>1, TableAct
<1>2. CASE Answer
  BY <1>2, TableAnswer DEF Answer
<1>3. CASE Grow
  BY <1>3, TableGrows
<1>4. CASE Unmount \/ UNCHANGED vars
  BY <1>4, TableStays DEF Unmount, vars, OrderInv
<1> QED BY <1>1, <1>2, <1>3, <1>4 DEF Next

LEMMA OrderInit == Init => OrderInv
<1> SUFFICES ASSUME Init PROVE TableInv
  BY AskedInit, CountInit DEF OrderInv, CountInv
<1>1. /\ flight = {} /\ now \in 1..MaxNow
      /\ applied = [s \in Slots |-> 0] /\ latest = [s \in Slots |-> 0]
  BY Zenon DEF Init
<1>2. now \in Nat
  BY <1>1, LogsViewerAssumption
<1>3. Kept("newer") = << >> /\ Kept("older") \in {<< >>, OlderLines(now + 1)}
      /\ \A h \in Halves : shown[h].whole = TRUE
  <2>1. \/ shown = [s \in Queries |-> [qs |-> {}, lines |-> << >>, whole |-> TRUE]]
        \/ shown = [x \in Queries |-> [qs |-> {Question(store)},
                                       lines |-> IF x = "older" THEN OlderLines(now + 1)
                                                 ELSE << >>,
                                       whole |-> TRUE]]
    BY Zenon DEF Init
  <2> QED BY <2>1, HalvesAre DEF Kept
<1>4. /\ << >> \in Seq(1..now) /\ Falling(<< >>)
      /\ OlderLines(now + 1) \in Seq(1..now) /\ Falling(OlderLines(now + 1))
  <2>1. << >> \in Seq(1..now) /\ Falling(<< >>)
    BY DEF Falling
  <2> QED BY <1>2, <2>1, OlderIs
<1>5. ASSUME NEW h \in Halves PROVE Kept(h) \in Seq(1..now) /\ Falling(Kept(h))
  BY <1>3, <1>4, HalvesAre
<1>6. LinesOK /\ HalvesFall /\ OneTime /\ LoadsApart /\ BelowWaits /\ AboveWaits
  BY <1>1, <1>2, <1>3, <1>5 DEF LinesOK, HalvesFall, OneTime, LoadsApart, BelowWaits, AboveWaits
<1>7. OneTurn
  <2>1. \A h \in Halves : AskedLast(h, 0)
    BY <1>1, HalvesAre DEF AskedLast
  <2> QED BY <2>1 DEF OneTurn
<1>8. HalvesMeet
  BY <1>3 DEF HalvesMeet, Meeting
<1> QED BY <1>6, <1>7, <1>8 DEF TableInv

\* The table has each line once, the newest first and none left out, however it was
\* scrolled while lines were written, once the latest answers were the last to come
\* back and every load met the end it was asked from; only where the halves meet may one
\* line be in both (prependMoreLogs, concatMoreLogs; executeTableQueryAsync).
THEOREM TableIsInOrder == Spec => []TableInOrder
<1>1. OrderInv => TableInOrder
  <2> SUFFICES ASSUME OrderInv, Settled(Origin \cup {"newer", "older"}),
                      \A half \in Halves : shown[half].whole
               PROVE  LET above == shown["newer"].lines
                          below == shown["older"].lines
                      IN  /\ Falls(above) /\ Falls(below)
                          /\ above # << >> /\ below # << >> =>
                               Last(above) - Head(below) \in {0, 1}
    BY DEF TableInOrder
  <2> USE DEF OrderInv, AskedInv, ChoiceInv, TableInv
  <2>1. ASSUME NEW h \in Halves PROVE Falls(Kept(h))
    <3>1. now \in Nat /\ Kept(h) \in Seq(1..now) /\ Falling(Kept(h))
      BY DEF LinesOK, HalvesFall
    <3>2. Kept(h) \in Seq(Int)
      <4>1. \A i \in 1..Len(Kept(h)) : Kept(h)[i] \in Int
        BY <3>1
      <4> QED BY <3>1, <4>1
    <3> QED BY <3>1, <3>2, FallingFalls
  <2>2. PICK L \in Nat : \A h \in Halves : AskedLast(h, L)
    BY DEF OneTurn
  <2>3. \A h \in Halves : Both(h, L)
    BY <2>2 DEF AskedLast, Settled, Waits, Halves, Both
  <2>4. Meeting
    BY <2>3, HalvesAre DEF HalvesMeet
  <2> QED BY <2>1, <2>4, HalvesAre DEF Meeting, Kept
<1> QED BY <1>1, OrderInit, OrderStep, PTL DEF Spec
=============================================================================
