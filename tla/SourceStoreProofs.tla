-------------------------- MODULE SourceStoreProofs --------------------------
(***************************************************************************)
(* Proofs about SourceStore, for any number of requests, organizations,    *)
(* sources and servers, with or without crashes.                           *)
(***************************************************************************)
EXTENDS SourceStore, WellFoundedInduction, TLAPS

-----------------------------------------------------------------------------
(* What the bucket operators return. *)

\* The lowest id of a set of ids is one of them.
LEMMA MinIsMember ==
    ASSUME NEW S \in SUBSET Nat, S # {}
    PROVE  Min(S) \in S
<1> DEFINE R == OpToRel(<, Nat)
<1>1. IsWellFoundedOn(R, Nat)
  BY NatLessThanWellFounded
<1>2. \A x, y \in Nat : <<y, x>> \notin R => x =< y
  BY DEF OpToRel
<1>3. \E x \in S : \A y \in S : <<y, x>> \notin R
  <2> HIDE DEF R
  <2> QED BY <1>1, WFMin
<1>4. \E x \in S : \A y \in S : x =< y
  <2> HIDE DEF R
  <2> QED BY <1>2, <1>3
<1>5. QED
  BY <1>4 DEF Min

\* Resetting keeps the keys and the types, and no source is the default.
LEMMA ResetDefaultSourceType ==
    ASSUME NEW f, f \in [DOMAIN f -> Source]
    PROVE  /\ DOMAIN ResetDefaultSource(f) = DOMAIN f
           /\ ResetDefaultSource(f) \in [DOMAIN f -> Source]
           /\ \A i \in DOMAIN f : ResetDefaultSource(f)[i].default = FALSE
  BY DEF ResetDefaultSource, Source

\* Resetting keeps the keys and the types, and no server is active.
LEMMA ResetActiveServerType ==
    ASSUME NEW f, f \in [DOMAIN f -> Server]
    PROVE  /\ DOMAIN ResetActiveServer(f) = DOMAIN f
           /\ ResetActiveServer(f) \in [DOMAIN f -> Server]
           /\ \A i \in DOMAIN f : ResetActiveServer(f)[i].active = FALSE
  BY DEF ResetActiveServer, Server

\* Storing a source adds or replaces its key and keeps the default unique.
LEMMA StoreSourceKeepsUnique ==
    ASSUME TypeOK, AtMostOneDefault, NEW id \in Nat, NEW source \in Source
    PROVE  LET new == StoreSource(id, source) IN
           /\ DOMAIN new = DOMAIN sources \cup {id}
           /\ new \in [DOMAIN new -> Source]
           /\ \A i, j \in DOMAIN new :
                 new[i].default /\ new[j].default => i = j
<1> DEFINE base == IF source.default THEN ResetDefaultSource(sources) ELSE sources
           new == StoreSource(id, source)
<1>1. /\ DOMAIN base = DOMAIN sources
      /\ base \in [DOMAIN sources -> Source]
      /\ source.default => \A i \in DOMAIN sources : base[i].default = FALSE
      /\ ~source.default => base = sources
  BY ResetDefaultSourceType DEF TypeOK
<1>2. new = [i \in DOMAIN base \cup {id} |-> IF i = id THEN source ELSE base[i]]
  BY DEF StoreSource, PutKey
<1>3. DOMAIN new = DOMAIN sources \cup {id} /\ new \in [DOMAIN new -> Source]
  <2> HIDE DEF base, new
  <2> QED BY <1>1, <1>2
<1>4. ASSUME NEW i \in DOMAIN new, NEW j \in DOMAIN new,
             new[i].default, new[j].default
      PROVE  i = j
  <2> HIDE DEF base, new
  <2>1. CASE source.default
    BY <1>1, <1>2, <1>3, <1>4, <2>1
  <2>2. CASE ~source.default
    BY <1>1, <1>2, <1>3, <1>4, <2>2 DEF AtMostOneDefault
  <2> QED BY <2>1, <2>2
<1> QED BY <1>3, <1>4

\* Storing a server adds or replaces its key and keeps the active one unique.
LEMMA StoreServerKeepsUnique ==
    ASSUME TypeOK, AtMostOneActive, NEW id \in Nat, NEW server \in Server
    PROVE  LET new == StoreServer(id, server) IN
           /\ DOMAIN new = DOMAIN servers \cup {id}
           /\ new \in [DOMAIN new -> Server]
           /\ \A i, j \in DOMAIN new :
                 new[i].active /\ new[j].active => i = j
<1> DEFINE base == IF server.active THEN ResetActiveServer(servers) ELSE servers
           new == StoreServer(id, server)
<1>1. /\ DOMAIN base = DOMAIN servers
      /\ base \in [DOMAIN servers -> Server]
      /\ server.active => \A i \in DOMAIN servers : base[i].active = FALSE
      /\ ~server.active => base = servers
  BY ResetActiveServerType DEF TypeOK
<1>2. new = [i \in DOMAIN base \cup {id} |-> IF i = id THEN server ELSE base[i]]
  BY DEF StoreServer, PutKey
<1>3. DOMAIN new = DOMAIN servers \cup {id} /\ new \in [DOMAIN new -> Server]
  <2> HIDE DEF base, new
  <2> QED BY <1>1, <1>2
<1>4. ASSUME NEW i \in DOMAIN new, NEW j \in DOMAIN new,
             new[i].active, new[j].active
      PROVE  i = j
  <2> HIDE DEF base, new
  <2>1. CASE server.active
    BY <1>1, <1>2, <1>3, <1>4, <2>1
  <2>2. CASE ~server.active
    BY <1>1, <1>2, <1>3, <1>4, <2>2 DEF AtMostOneActive
  <2> QED BY <2>1, <2>2
<1> QED BY <1>3, <1>4

\* Deleting a source removes exactly its key and keeps the default unique.
LEMMA DeleteSourceKeepsUnique ==
    ASSUME TypeOK, AtMostOneDefault, NEW id \in DOMAIN sources
    PROVE  LET new == DeleteSource(id) IN
           /\ DOMAIN new = DOMAIN sources \ {id}
           /\ new \in [DOMAIN new -> Source]
           /\ \A i, j \in DOMAIN new :
                 new[i].default /\ new[j].default => i = j
<1> DEFINE others == DOMAIN sources \ {id}
           heir == IF others = {} THEN id ELSE Min(others)
           next == SetRandomDefault(id)
<1>1. heir \in DOMAIN sources
  <2>1. others \in SUBSET Nat
    BY DEF TypeOK
  <2>2. QED
    BY <2>1, MinIsMember
<1>2. heir \in Nat /\ [sources[heir] EXCEPT !.default = TRUE] \in Source
  <2> HIDE DEF heir
  <2>1. sources[heir] \in Source /\ heir \in Nat
    BY <1>1 DEF TypeOK
  <2>2. QED
    BY <2>1 DEF Source
<1>3. /\ DOMAIN next = DOMAIN sources
      /\ next \in [DOMAIN sources -> Source]
      /\ \A i, j \in DOMAIN next : next[i].default /\ next[j].default => i = j
  <2>1. CASE sources[id].default
    <3>1. next = StoreSource(heir, [sources[heir] EXCEPT !.default = TRUE])
      BY <2>1 DEF SetRandomDefault
    <3> HIDE DEF heir, next
    <3>2. /\ DOMAIN next = DOMAIN sources \cup {heir}
          /\ next \in [DOMAIN next -> Source]
          /\ \A i, j \in DOMAIN next : next[i].default /\ next[j].default => i = j
      BY <1>2, <3>1, StoreSourceKeepsUnique
    <3>3. DOMAIN next = DOMAIN sources
      BY <1>1, <3>2
    <3>4. QED
      BY <3>2, <3>3
  <2>2. CASE ~sources[id].default
    BY <2>2 DEF SetRandomDefault, TypeOK, AtMostOneDefault
  <2>3. QED
    BY <2>1, <2>2
<1>4. DeleteSource(id) = [i \in DOMAIN next \ {id} |-> next[i]]
  BY DEF DeleteSource, DropKey
<1> HIDE DEF next
<1>5. QED
  BY <1>3, <1>4

-----------------------------------------------------------------------------
(* The requests. *)

\* What a request remembers is determined by where it is.
LEMMA RequestShape ==
    ASSUME TypeOK, NEW s \in Slots
    PROVE  /\ reqs[s] \in Request
           /\ reqs[s].at \in {"accepted", "listSources", "listServers",
                              "findKapas", "dropSources"}
              => reqs[s].org \in Orgs
           /\ reqs[s].at \in {"findKapas", "putSource", "putServer"}
              => reqs[s].id \in Nat
           /\ reqs[s].at \in {"addSource", "putSource"}
              => reqs[s].source \in Source
           /\ reqs[s].at \in {"addServer", "putServer"}
              => reqs[s].server \in Server
           /\ reqs[s].at \in {"dropSources", "dropServers"}
              => reqs[s].todo \in SUBSET Nat
           /\ reqs[s].at = "dropSources" =>
              reqs[s] = [at |-> "dropSources", org |-> reqs[s].org,
                         todo |-> reqs[s].todo]
           /\ reqs[s].at = "dropServers" =>
              reqs[s] = [at |-> "dropServers", todo |-> reqs[s].todo]
<1>1. reqs[s] \in Request
  BY DEF TypeOK
<1>2. QED
  BY <1>1 DEF Request, Idle

\* A step to a well-formed record keeps the requests well formed.
LEMMA GotoType ==
    ASSUME TypeOK, NEW s \in Slots, NEW r \in Request, Goto(s, r)
    PROVE  reqs' \in [Slots -> Request]
  BY DEF TypeOK, Goto

\* So does the end of a request.
LEMMA DoneType ==
    ASSUME TypeOK, NEW s \in Slots, Done(s)
    PROVE  reqs' \in [Slots -> Request]
  BY GotoType DEF Done, Request

-----------------------------------------------------------------------------
(* The inductive invariant. *)

Inv == TypeOK /\ AtMostOneDefault /\ AtMostOneActive

\* The invariant holds before start-up.
LEMMA InitInv == Init => Inv
<1> SUFFICES ASSUME Init PROVE Inv
  OBVIOUS
<1>1. reqs \in [Slots -> Request]
  BY DEF Init, Request
<1>2. boot \in Boot
  BY DEF Init, Boot
<1>3. QED
  BY <1>1, <1>2 DEF Init, Inv, TypeOK, AtMostOneDefault, AtMostOneActive, NoKeys

\* Start-up and crashes.
LEMMA BootKeepsInv ==
    ASSUME Inv, BootStep \/ Crash
    PROVE  Inv'
<1> USE DEF Inv
<1>1. CASE BootServing
  <2>1. boot' \in Boot
    BY <1>1 DEF BootServing, Boot
  <2>2. QED
    BY <1>1, <2>1 DEF BootServing, TypeOK, AtMostOneDefault, AtMostOneActive
<1>2. CASE BootSkipSource
  <2>1. boot' \in Boot
    BY <1>2 DEF BootSkipSource, Boot, TypeOK
  <2>2. QED
    BY <1>2, <2>1 DEF BootSkipSource, TypeOK, AtMostOneDefault, AtMostOneActive
<1>3. CASE BootAddSource
  <2>1. /\ srcSeq' = srcSeq + 1
        /\ boot' = [at |-> "server", n |-> boot.n, id |-> srcSeq']
        /\ boot.at = "sources"
        /\ UNCHANGED <<orgs, servers, srvSeq, reqs>>
    BY <1>3 DEF BootAddSource
  <2>2. boot.n \in Nat \ {0} /\ srcSeq \in Nat /\ srcSeq' \in Nat
    BY <2>1 DEF TypeOK, Boot
  <2>3. boot' \in Boot
    BY <2>1, <2>2 DEF Boot
  <2>4. PICK source : /\ source \in Source
                      /\ sources' = StoreSource(srcSeq', source)
    <3>1. NewSources[boot.n] \in Names
      BY <1>3, <2>2, SourceStoreAssumption DEF BootAddSource, TypeOK, Boot
    <3>2. \A asked \in BOOLEAN :
            [org |-> DefaultOrg, name |-> NewSources[boot.n],
             default |-> asked \/ DOMAIN sources = {}] \in Source
      BY <3>1, SourceStoreAssumption DEF Source
    <3>3. QED
      BY <1>3, <3>2 DEF BootAddSource
  <2>5. /\ DOMAIN sources' = DOMAIN sources \cup {srcSeq'}
        /\ sources' \in [DOMAIN sources' -> Source]
        /\ AtMostOneDefault'
    BY <2>1, <2>2, <2>4, StoreSourceKeepsUnique DEF AtMostOneDefault
  <2>6. QED
    BY <2>1, <2>2, <2>3, <2>5 DEF TypeOK, AtMostOneActive
<1>4. CASE BootAddServer
  <2> DEFINE asked == [org |-> DefaultOrg, srcID |-> boot.id,
                       type |-> "kapacitor", active |-> FALSE]
             server == [asked EXCEPT !.active = TRUE]
  <2>1. /\ srvSeq' = srvSeq + 1
        /\ boot' = [at |-> "sources", n |-> boot.n + 1]
        /\ boot.at = "server"
        /\ servers' = StoreServer(srvSeq', server)
        /\ UNCHANGED <<orgs, sources, srcSeq, reqs>>
    BY <1>4 DEF BootAddServer, AddedServer
  <2>2. boot.n \in Nat \ {0} /\ boot.id \in Nat /\ srvSeq \in Nat /\ srvSeq' \in Nat
    BY <2>1 DEF TypeOK, Boot
  <2>3. boot' \in Boot
    BY <2>1, <2>2 DEF Boot
  <2>4. server \in Server
    <3>1. asked \in Server
      BY <2>2, SourceStoreAssumption DEF Server, Types
    <3> HIDE DEF asked
    <3>2. QED
      BY <3>1 DEF Server
  <2> HIDE DEF server
  <2>5. /\ DOMAIN servers' = DOMAIN servers \cup {srvSeq'}
        /\ servers' \in [DOMAIN servers' -> Server]
        /\ AtMostOneActive'
    BY <2>1, <2>2, <2>4, StoreServerKeepsUnique DEF AtMostOneActive
  <2>6. QED
    BY <2>1, <2>2, <2>3, <2>5 DEF TypeOK, AtMostOneDefault
<1>5. CASE Crash
  <2>1. boot' \in Boot /\ reqs' \in [Slots -> Request]
    BY <1>5 DEF Crash, Boot, Request
  <2>2. QED
    BY <1>5, <2>1 DEF Crash, TypeOK, AtMostOneDefault, AtMostOneActive
<1>6. QED
  BY <1>1, <1>2, <1>3, <1>4, <1>5 DEF BootStep

\* A step that leaves the buckets alone has only its request to answer for.
LEMMA ReadKeepsInv ==
    ASSUME Inv, orgs' \subseteq Orgs, reqs' \in [Slots -> Request],
           UNCHANGED <<sources, srcSeq, servers, srvSeq, boot>>
    PROVE  Inv'
  BY DEF Inv, TypeOK, AtMostOneDefault, AtMostOneActive

\* The steps of a request that read a bucket or finish.
LEMMA ReadStepsKeepInv ==
    ASSUME Inv, NEW s \in Slots,
           \/ Accept(s) \/ Refuse(s) \/ TxFails(s) \/ NewSource(s)
           \/ UpdateSource(s) \/ FindKapas(s) \/ NewServer(s)
           \/ UpdateServer(s) \/ RemoveOrganization(s) \/ ListSources(s)
           \/ DropSourceMissing(s) \/ AllSourcesDropped(s) \/ ListServers(s)
           \/ DropServerMissing(s) \/ AllServersDropped(s)
    PROVE  Inv'
<1> USE DEF Inv
<1> DEFINE r == reqs[s]
<1>0. DOMAIN sources \in SUBSET Nat /\ DOMAIN servers \in SUBSET Nat
  BY DEF TypeOK
<1>1. CASE Accept(s)
  <2>1. PICK o \in orgs : Goto(s, [at |-> "accepted", org |-> o])
    BY <1>1 DEF Accept
  <2>2. [at |-> "accepted", org |-> o] \in Request
    BY DEF Request, TypeOK
  <2>3. QED
    BY <1>1, <2>1, <2>2, GotoType, ReadKeepsInv DEF Accept, TypeOK
<1>2. CASE Refuse(s) \/ TxFails(s) \/ DropSourceMissing(s)
             \/ DropServerMissing(s) \/ AllServersDropped(s)
  BY <1>2, DoneType, ReadKeepsInv
     DEF Refuse, TxFails, DropSourceMissing, DropServerMissing,
         AllServersDropped, TypeOK
<1>3. CASE NewSource(s)
  <2>1. r.org \in Orgs
    BY <1>3, RequestShape DEF NewSource
  <2>2. PICK n \in Names, asked \in BOOLEAN :
           Goto(s, [at |-> "addSource",
                    source |-> [org |-> r.org, name |-> n,
                                default |-> asked \/ DOMAIN sources = {}]])
    BY <1>3 DEF NewSource
  <2>3. [org |-> r.org, name |-> n, default |-> asked \/ DOMAIN sources = {}]
           \in Source
    BY <2>1 DEF Source
  <2>4. \A source \in Source : [at |-> "addSource", source |-> source] \in Request
    BY DEF Request
  <2>5. reqs' \in [Slots -> Request]
    BY <2>2, <2>3, <2>4, GotoType
  <2>6. QED
    BY <1>3, <2>5, ReadKeepsInv DEF NewSource, TypeOK
<1>4. CASE UpdateSource(s)
  <2>1. PICK i \in DOMAIN sources, n \in Names, d \in BOOLEAN :
           Goto(s, [at |-> "putSource", id |-> i,
                    source |-> [sources[i] EXCEPT !.name = n, !.default = d]])
    BY <1>4 DEF UpdateSource
  <2>2. sources[i] \in Source
    BY DEF TypeOK
  <2>3. [sources[i] EXCEPT !.name = n, !.default = d] \in Source
    BY <2>2 DEF Source
  <2>4. \A source \in Source, k \in Nat :
           [at |-> "putSource", id |-> k, source |-> source] \in Request
    BY DEF Request
  <2>5. reqs' \in [Slots -> Request]
    BY <1>0, <2>1, <2>3, <2>4, GotoType
  <2>6. QED
    BY <1>4, <2>5, ReadKeepsInv DEF UpdateSource, TypeOK
<1>5. CASE FindKapas(s) \/ ListServers(s)
  <2>1. \A todo \in SUBSET Nat : [at |-> "dropServers", todo |-> todo] \in Request
    BY DEF Request
  <2>2. PICK todo \in SUBSET Nat : Goto(s, [at |-> "dropServers", todo |-> todo])
    <3>1. CASE FindKapas(s)
      <4> DEFINE found == {k \in DOMAIN servers :
                             servers[k].org = r.org /\ servers[k].srcID = r.id}
      <4>1. found \in SUBSET Nat /\ Goto(s, [at |-> "dropServers", todo |-> found])
        BY <1>0, <3>1 DEF FindKapas
      <4>2. QED
        BY <4>1
    <3>2. CASE ListServers(s)
      <4> DEFINE found == {k \in DOMAIN servers : servers[k].org = r.org}
      <4>1. found \in SUBSET Nat /\ Goto(s, [at |-> "dropServers", todo |-> found])
        BY <1>0, <3>2 DEF ListServers
      <4>2. QED
        BY <4>1
    <3>3. QED
      BY <1>5, <3>1, <3>2
  <2>3. reqs' \in [Slots -> Request]
    BY <2>1, <2>2, GotoType
  <2>4. QED
    BY <1>5, <2>3, ReadKeepsInv DEF FindKapas, ListServers, TypeOK
<1>6. CASE NewServer(s)
  <2>1. r.org \in Orgs
    BY <1>6, RequestShape DEF NewServer
  <2>2. PICK i \in DOMAIN sources, t \in Types, asked \in BOOLEAN :
           Goto(s, [at |-> "addServer",
                    server |-> [org |-> r.org, srcID |-> i,
                                type |-> t, active |-> asked]])
    BY <1>6 DEF NewServer
  <2>3. [org |-> r.org, srcID |-> i, type |-> t, active |-> asked] \in Server
    BY <1>0, <2>1 DEF Server
  <2>4. \A server \in Server : [at |-> "addServer", server |-> server] \in Request
    BY DEF Request
  <2>5. reqs' \in [Slots -> Request]
    BY <2>2, <2>3, <2>4, GotoType
  <2>6. QED
    BY <1>6, <2>5, ReadKeepsInv DEF NewServer, TypeOK
<1>7. CASE UpdateServer(s)
  <2>1. PICK i \in DOMAIN servers, d \in BOOLEAN :
           Goto(s, [at |-> "putServer", id |-> i,
                    server |-> [servers[i] EXCEPT !.active = d]])
    BY <1>7 DEF UpdateServer
  <2>2. servers[i] \in Server
    BY DEF TypeOK
  <2>3. [servers[i] EXCEPT !.active = d] \in Server
    BY <2>2 DEF Server
  <2>4. \A server \in Server, k \in Nat :
           [at |-> "putServer", id |-> k, server |-> server] \in Request
    BY DEF Request
  <2>5. reqs' \in [Slots -> Request]
    BY <1>0, <2>1, <2>3, <2>4, GotoType
  <2>6. QED
    BY <1>7, <2>5, ReadKeepsInv DEF UpdateServer, TypeOK
<1>8. CASE RemoveOrganization(s)
  <2>1. PICK o \in orgs \ {DefaultOrg} :
           /\ orgs' = orgs \ {o}
           /\ Goto(s, [at |-> "listSources", org |-> o])
    BY <1>8 DEF RemoveOrganization
  <2>2. [at |-> "listSources", org |-> o] \in Request
    BY DEF Request, TypeOK
  <2>3. QED
    BY <1>8, <2>1, <2>2, GotoType, ReadKeepsInv DEF RemoveOrganization, TypeOK
<1>9. CASE ListSources(s)
  <2> DEFINE found == {i \in DOMAIN sources : sources[i].org = r.org}
  <2>1. /\ found \in SUBSET Nat
        /\ r.org \in Orgs
        /\ Goto(s, [at |-> "dropSources", org |-> r.org, todo |-> found])
    BY <1>0, <1>9, RequestShape DEF ListSources
  <2> HIDE DEF found
  <2>2. [at |-> "dropSources", org |-> r.org, todo |-> found] \in Request
    BY <2>1 DEF Request
  <2>3. QED
    BY <1>9, <2>1, <2>2, GotoType, ReadKeepsInv DEF ListSources, TypeOK
<1>10. CASE AllSourcesDropped(s)
  <2>1. r.org \in Orgs
    BY <1>10, RequestShape DEF AllSourcesDropped
  <2>2. [at |-> "listServers", org |-> r.org] \in Request
    BY <2>1 DEF Request
  <2>3. QED
    BY <1>10, <2>2, GotoType, ReadKeepsInv DEF AllSourcesDropped, TypeOK
<1>11. QED
  BY <1>1, <1>2, <1>3, <1>4, <1>5, <1>6, <1>7, <1>8, <1>9, <1>10

\* The steps of a request that write a bucket.
LEMMA WriteStepsKeepInv ==
    ASSUME Inv, NEW s \in Slots,
           \/ AddSource(s) \/ PutSource(s) \/ RemoveSource(s) \/ DropSource(s)
           \/ AddServer(s) \/ PutServer(s) \/ RemoveServer(s) \/ DropServer(s)
    PROVE  Inv'
<1> USE DEF Inv
<1> DEFINE r == reqs[s]
<1>0. /\ DOMAIN sources \in SUBSET Nat /\ DOMAIN servers \in SUBSET Nat
      /\ srcSeq \in Nat /\ srvSeq \in Nat
  BY DEF TypeOK
<1>1. CASE AddSource(s)
  <2>1. /\ r.source \in Source
        /\ srcSeq' \in Nat
        /\ sources' = StoreSource(srcSeq', r.source)
    <3>1. r.source \in Source
      BY <1>1, RequestShape DEF AddSource
    <3>2. QED
      BY <1>0, <1>1, <3>1 DEF AddSource
  <2>2. /\ DOMAIN sources' = DOMAIN sources \cup {srcSeq'}
        /\ sources' \in [DOMAIN sources' -> Source]
        /\ AtMostOneDefault'
    BY <2>1, StoreSourceKeepsUnique DEF AtMostOneDefault
  <2>3. reqs' \in [Slots -> Request]
    BY <1>1, DoneType DEF AddSource
  <2>4. QED
    BY <1>0, <1>1, <2>2, <2>3 DEF AddSource, TypeOK, AtMostOneActive
<1>2. CASE PutSource(s)
  <2>1. /\ r.source \in Source /\ r.id \in DOMAIN sources
        /\ sources' = StoreSource(r.id, r.source)
    BY <1>2, RequestShape DEF PutSource
  <2>2. /\ DOMAIN sources' = DOMAIN sources
        /\ sources' \in [DOMAIN sources' -> Source]
        /\ AtMostOneDefault'
    <3>1. /\ DOMAIN sources' = DOMAIN sources \cup {r.id}
          /\ sources' \in [DOMAIN sources' -> Source]
          /\ AtMostOneDefault'
      <4>1. r.id \in Nat
        BY <1>0, <2>1
      <4> HIDE DEF r
      <4> DEFINE new == StoreSource(r.id, r.source)
      <4>2. /\ DOMAIN new = DOMAIN sources \cup {r.id}
            /\ new \in [DOMAIN new -> Source]
            /\ \A i, j \in DOMAIN new :
                  new[i].default /\ new[j].default => i = j
        BY <2>1, <4>1, StoreSourceKeepsUnique
      <4>3. sources' = new
        BY <2>1
      <4> HIDE DEF new
      <4>4. QED
        BY <4>2, <4>3 DEF AtMostOneDefault
    <3>2. QED
      BY <2>1, <3>1
  <2>3. reqs' \in [Slots -> Request]
    BY <1>2, DoneType DEF PutSource
  <2>4. QED
    BY <1>2, <2>2, <2>3 DEF PutSource, TypeOK, AtMostOneActive
<1>3. CASE RemoveSource(s)
  <2>1. PICK i \in DOMAIN sources :
           /\ sources' = DeleteSource(i)
           /\ Goto(s, [at |-> "findKapas", org |-> r.org, id |-> i])
    BY <1>3 DEF RemoveSource
  <2>2. /\ DOMAIN sources' \subseteq DOMAIN sources
        /\ sources' \in [DOMAIN sources' -> Source]
        /\ AtMostOneDefault'
    BY <2>1, DeleteSourceKeepsUnique DEF AtMostOneDefault
  <2>3. r.org \in Orgs
    BY <1>3, RequestShape DEF RemoveSource
  <2>4. [at |-> "findKapas", org |-> r.org, id |-> i] \in Request
    BY <1>0, <2>3 DEF Request
  <2>5. reqs' \in [Slots -> Request]
    BY <2>1, <2>4, GotoType
  <2>6. QED
    BY <1>3, <2>2, <2>5 DEF RemoveSource, TypeOK, AtMostOneActive
<1>4. CASE DropSource(s)
  <2> DEFINE k == Min(r.todo)
  <2>1. /\ k \in DOMAIN sources
        /\ sources' = DeleteSource(k)
        /\ Goto(s, [r EXCEPT !.todo = r.todo \ {k}])
        /\ r = [at |-> "dropSources", org |-> r.org, todo |-> r.todo]
        /\ r.org \in Orgs /\ r.todo \in SUBSET Nat
    BY <1>4, RequestShape DEF DropSource
  <2> HIDE DEF k
  <2>2. /\ DOMAIN sources' \subseteq DOMAIN sources
        /\ sources' \in [DOMAIN sources' -> Source]
        /\ AtMostOneDefault'
    BY <2>1, DeleteSourceKeepsUnique DEF AtMostOneDefault
  <2>3. [r EXCEPT !.todo = r.todo \ {k}] \in Request
    <3>1. r \in [at : {"dropSources"}, org : Orgs, todo : SUBSET Nat]
      BY <2>1
    <3>2. [r EXCEPT !.todo = r.todo \ {k}]
             \in [at : {"dropSources"}, org : Orgs, todo : SUBSET Nat]
      BY <3>1
    <3>3. QED
      BY <3>2 DEF Request
  <2>4. reqs' \in [Slots -> Request]
    BY <2>1, <2>3, GotoType
  <2>5. QED
    BY <1>4, <2>2, <2>4 DEF DropSource, TypeOK, AtMostOneActive
<1>5. CASE AddServer(s)
  <2>1. r.server \in Server
    BY <1>5, RequestShape DEF AddServer
  <2>2. [r.server EXCEPT !.active = TRUE] \in Server
    BY <2>1 DEF Server
  <2>3. /\ srvSeq' \in Nat
        /\ servers' = StoreServer(srvSeq', [r.server EXCEPT !.active = TRUE])
    BY <1>0, <1>5 DEF AddServer, AddedServer
  <2>4. /\ DOMAIN servers' = DOMAIN servers \cup {srvSeq'}
        /\ servers' \in [DOMAIN servers' -> Server]
        /\ AtMostOneActive'
    BY <2>2, <2>3, StoreServerKeepsUnique DEF AtMostOneActive
  <2>5. reqs' \in [Slots -> Request]
    BY <1>5, DoneType DEF AddServer
  <2>6. QED
    BY <1>0, <1>5, <2>4, <2>5 DEF AddServer, TypeOK, AtMostOneDefault
<1>6. CASE PutServer(s)
  <2>1. /\ r.server \in Server /\ r.id \in DOMAIN servers
        /\ servers' = StoreServer(r.id, r.server)
    BY <1>6, RequestShape DEF PutServer
  <2>2. /\ DOMAIN servers' = DOMAIN servers
        /\ servers' \in [DOMAIN servers' -> Server]
        /\ AtMostOneActive'
    <3>1. /\ DOMAIN servers' = DOMAIN servers \cup {r.id}
          /\ servers' \in [DOMAIN servers' -> Server]
          /\ AtMostOneActive'
      <4>1. r.id \in Nat
        BY <1>0, <2>1
      <4> HIDE DEF r
      <4> DEFINE new == StoreServer(r.id, r.server)
      <4>2. /\ DOMAIN new = DOMAIN servers \cup {r.id}
            /\ new \in [DOMAIN new -> Server]
            /\ \A i, j \in DOMAIN new :
                  new[i].active /\ new[j].active => i = j
        BY <2>1, <4>1, StoreServerKeepsUnique
      <4>3. servers' = new
        BY <2>1
      <4> HIDE DEF new
      <4>4. QED
        BY <4>2, <4>3 DEF AtMostOneActive
    <3>2. QED
      BY <2>1, <3>1
  <2>3. reqs' \in [Slots -> Request]
    BY <1>6, DoneType DEF PutServer
  <2>4. QED
    BY <1>6, <2>2, <2>3 DEF PutServer, TypeOK, AtMostOneDefault
<1>7. CASE RemoveServer(s)
  <2>1. PICK i \in DOMAIN servers : servers' = DropKey(servers, i)
    BY <1>7 DEF RemoveServer
  <2>2. reqs' \in [Slots -> Request]
    BY <1>7, DoneType DEF RemoveServer
  <2>3. QED
    BY <1>7, <2>1, <2>2
       DEF RemoveServer, DropKey, TypeOK, AtMostOneDefault, AtMostOneActive
<1>8. CASE DropServer(s)
  <2> DEFINE k == Min(r.todo)
  <2>1. /\ k \in DOMAIN servers
        /\ servers' = DropKey(servers, k)
        /\ Goto(s, [r EXCEPT !.todo = r.todo \ {k}])
        /\ r = [at |-> "dropServers", todo |-> r.todo]
        /\ r.todo \in SUBSET Nat
    BY <1>8, RequestShape DEF DropServer
  <2> HIDE DEF k
  <2>2. [r EXCEPT !.todo = r.todo \ {k}] \in Request
    <3>1. r \in [at : {"dropServers"}, todo : SUBSET Nat]
      BY <2>1
    <3>2. [r EXCEPT !.todo = r.todo \ {k}]
             \in [at : {"dropServers"}, todo : SUBSET Nat]
      BY <3>1
    <3>3. QED
      BY <3>2 DEF Request
  <2>3. reqs' \in [Slots -> Request]
    BY <2>1, <2>2, GotoType
  <2>4. QED
    BY <1>8, <2>1, <2>3
       DEF DropServer, DropKey, TypeOK, AtMostOneDefault, AtMostOneActive
<1>9. QED
  BY <1>1, <1>2, <1>3, <1>4, <1>5, <1>6, <1>7, <1>8

\* Every step keeps it: start-up, crashes, the reads and the writes of requests.
LEMMA NextKeepsInv == Inv /\ [Next]_vars => Inv'
<1> SUFFICES ASSUME Inv, [Next]_vars PROVE Inv'
  OBVIOUS
<1>1. CASE BootStep \/ Crash
  BY <1>1, BootKeepsInv
<1>2. ASSUME NEW s \in Slots, Accept(s) \/ Step(s) \/ TxFails(s)
      PROVE  Inv'
  BY <1>2, ReadStepsKeepInv, WriteStepsKeepInv DEF Step
<1>3. CASE UNCHANGED vars
  BY <1>3 DEF vars, Inv, TypeOK, AtMostOneDefault, AtMostOneActive
<1>4. QED
  BY <1>1, <1>2, <1>3 DEF Next

\* The inductive invariant of the specification.
LEMMA AlwaysInv == Spec => []Inv
  BY InitInv, NextKeepsInv, PTL DEF Spec

-----------------------------------------------------------------------------
(* What a reader should know. *)

\* bolt/sources.go, bolt/servers.go: the buckets hold well-formed rows under
\* ids the sequence has issued, and a request remembers what its step needs.
THEOREM TypeCorrect == Spec => []TypeOK
  BY AlwaysInv, PTL DEF Inv

\* bolt/sources.go: however many requests add, update and delete sources at a
\* time, and wherever the process dies, two sources are never both the default.
THEOREM DefaultIsUnique == Spec => []AtMostOneDefault
  BY AlwaysInv, PTL DEF Inv

\* bolt/servers.go: two servers are never both active.
THEOREM ActiveIsUnique == Spec => []AtMostOneActive
  BY AlwaysInv, PTL DEF Inv

-----------------------------------------------------------------------------
(* Rows that are gone. *)

\* Storing a row adds its key, and no other.
LEMMA StoreDomains ==
    ASSUME NEW id, NEW row
    PROVE  /\ DOMAIN StoreSource(id, row) = DOMAIN sources \cup {id}
           /\ DOMAIN StoreServer(id, row) = DOMAIN servers \cup {id}
  BY DEF StoreSource, StoreServer, PutKey, ResetDefaultSource, ResetActiveServer

\* Deleting a source adds no key: the heir is there already.
LEMMA DeleteDomain ==
    ASSUME TypeOK, NEW id \in DOMAIN sources
    PROVE  DOMAIN DeleteSource(id) \subseteq DOMAIN sources
<1> DEFINE others == DOMAIN sources \ {id}
           heir == IF others = {} THEN id ELSE Min(others)
<1>1. heir \in DOMAIN sources
  <2>1. others \in SUBSET Nat
    BY DEF TypeOK
  <2>2. QED
    BY <2>1, MinIsMember
<1>2. DOMAIN SetRandomDefault(id) = DOMAIN sources
  <2>1. SetRandomDefault(id)
           = IF sources[id].default
             THEN StoreSource(heir, [sources[heir] EXCEPT !.default = TRUE])
             ELSE sources
    BY DEF SetRandomDefault
  <2> DEFINE row == [sources[heir] EXCEPT !.default = TRUE]
  <2>2. DOMAIN StoreSource(heir, row) = DOMAIN sources \cup {heir}
    BY StoreDomains
  <2> HIDE DEF heir, row
  <2>3. QED
    BY <1>1, <2>1, <2>2 DEF row
<1>3. QED
  BY <1>2 DEF DeleteSource, DropKey

\* bolt/sources.go, bolt/servers.go: no update, however old what it read, and
\* no crash brings a row back that was deleted.
THEOREM NothingRevived == Spec => NoResurrection
<1> DEFINE Fresh(new, old, last, next) == new \ old \subseteq (last + 1)..next
<1>1. ASSUME TypeOK, Next
      PROVE  /\ Fresh(DOMAIN sources', DOMAIN sources, srcSeq, srcSeq')
             /\ Fresh(DOMAIN servers', DOMAIN servers, srvSeq, srvSeq')
  <2>0. srcSeq \in Nat /\ srvSeq \in Nat
    BY <1>1 DEF TypeOK
  <2>1. ASSUME NEW row, srcSeq' = srcSeq + 1, sources' = StoreSource(srcSeq', row),
               UNCHANGED <<servers, srvSeq>>
        PROVE  /\ Fresh(DOMAIN sources', DOMAIN sources, srcSeq, srcSeq')
               /\ Fresh(DOMAIN servers', DOMAIN servers, srvSeq, srvSeq')
    <3>1. DOMAIN sources' = DOMAIN sources \cup {srcSeq'}
      BY <2>1, StoreDomains
    <3>2. QED
      BY <2>0, <2>1, <3>1
  <2>2. ASSUME NEW row, srvSeq' = srvSeq + 1, servers' = StoreServer(srvSeq', row),
               UNCHANGED <<sources, srcSeq>>
        PROVE  /\ Fresh(DOMAIN sources', DOMAIN sources, srcSeq, srcSeq')
               /\ Fresh(DOMAIN servers', DOMAIN servers, srvSeq, srvSeq')
    <3>1. DOMAIN servers' = DOMAIN servers \cup {srvSeq'}
      BY <2>2, StoreDomains
    <3>2. QED
      BY <2>0, <2>2, <3>1
  <2>3. ASSUME DOMAIN sources' \subseteq DOMAIN sources,
               DOMAIN servers' \subseteq DOMAIN servers
        PROVE  /\ Fresh(DOMAIN sources', DOMAIN sources, srcSeq, srcSeq')
               /\ Fresh(DOMAIN servers', DOMAIN servers, srvSeq, srvSeq')
    BY <2>3
  <2> HIDE DEF Fresh
  <2>4. CASE BootAddSource
    BY <2>1, <2>4 DEF BootAddSource
  <2>5. CASE BootAddServer
    BY <2>2, <2>5 DEF BootAddServer, AddedServer
  <2>6. CASE BootServing \/ BootSkipSource \/ Crash
    BY <2>3, <2>6 DEF BootServing, BootSkipSource, Crash
  <2>7. ASSUME NEW s \in Slots, AddSource(s)
        PROVE  /\ Fresh(DOMAIN sources', DOMAIN sources, srcSeq, srcSeq')
               /\ Fresh(DOMAIN servers', DOMAIN servers, srvSeq, srvSeq')
    BY <2>1, <2>7 DEF AddSource
  <2>8. ASSUME NEW s \in Slots, AddServer(s)
        PROVE  /\ Fresh(DOMAIN sources', DOMAIN sources, srcSeq, srcSeq')
               /\ Fresh(DOMAIN servers', DOMAIN servers, srvSeq, srvSeq')
    BY <2>2, <2>8 DEF AddServer, AddedServer
  <2>9. ASSUME NEW s \in Slots, PutSource(s) \/ PutServer(s)
        PROVE  /\ DOMAIN sources' \subseteq DOMAIN sources
               /\ DOMAIN servers' \subseteq DOMAIN servers
    <3> DEFINE r == reqs[s]
    <3>1. /\ DOMAIN StoreSource(r.id, r.source) = DOMAIN sources \cup {r.id}
          /\ DOMAIN StoreServer(r.id, r.server) = DOMAIN servers \cup {r.id}
      BY StoreDomains
    <3>2. \/ /\ r.id \in DOMAIN sources
             /\ sources' = StoreSource(r.id, r.source)
             /\ servers' = servers
          \/ /\ r.id \in DOMAIN servers
             /\ servers' = StoreServer(r.id, r.server)
             /\ sources' = sources
      BY <2>9 DEF PutSource, PutServer
    <3> HIDE DEF r
    <3>3. QED
      BY <3>1, <3>2
  <2>10. ASSUME NEW s \in Slots, RemoveSource(s) \/ DropSource(s)
        PROVE  /\ DOMAIN sources' \subseteq DOMAIN sources
               /\ DOMAIN servers' \subseteq DOMAIN servers
    BY <1>1, <2>10, DeleteDomain DEF RemoveSource, DropSource
  <2>11. ASSUME NEW s \in Slots, RemoveServer(s) \/ DropServer(s)
        PROVE  /\ DOMAIN sources' \subseteq DOMAIN sources
               /\ DOMAIN servers' \subseteq DOMAIN servers
    BY <2>11 DEF RemoveServer, DropServer, DropKey
  <2>12. ASSUME NEW s \in Slots,
               \/ Accept(s) \/ Refuse(s) \/ TxFails(s) \/ NewSource(s)
               \/ UpdateSource(s) \/ FindKapas(s) \/ NewServer(s)
               \/ UpdateServer(s) \/ RemoveOrganization(s) \/ ListSources(s)
               \/ DropSourceMissing(s) \/ AllSourcesDropped(s) \/ ListServers(s)
               \/ DropServerMissing(s) \/ AllServersDropped(s)
         PROVE  UNCHANGED <<sources, servers>>
    BY <2>12 DEF Accept, Refuse, TxFails, NewSource, UpdateSource, FindKapas,
         NewServer, UpdateServer, RemoveOrganization, ListSources,
         DropSourceMissing, AllSourcesDropped, ListServers, DropServerMissing,
         AllServersDropped
  <2>13. QED
    BY <1>1, <2>3, <2>4, <2>5, <2>6, <2>7, <2>8, <2>9, <2>10, <2>11, <2>12
       DEF Next, BootStep, Step
<1>2. ASSUME TypeOK, [Next]_vars
      PROVE  [ /\ DOMAIN sources' \ DOMAIN sources \subseteq (srcSeq + 1)..srcSeq'
               /\ DOMAIN servers' \ DOMAIN servers \subseteq (srvSeq + 1)..srvSeq' ]_vars
  BY <1>1, <1>2
<1>3. QED
  BY <1>2, TypeCorrect, PTL DEF Spec, NoResurrection

-----------------------------------------------------------------------------
(* Requests one at a time. *)

\* Storing a source leaves name and organization of the others alone.
LEMMA StoreSourceFields ==
    ASSUME TypeOK, NEW id \in Nat, NEW row \in Source
    PROVE  LET new == StoreSource(id, row) IN
           \A i \in DOMAIN sources \cup {id} :
              /\ new[i].org = IF i = id THEN row.org ELSE sources[i].org
              /\ new[i].name = IF i = id THEN row.name ELSE sources[i].name
<1> DEFINE base == IF row.default THEN ResetDefaultSource(sources) ELSE sources
           new == StoreSource(id, row)
<1>1. /\ DOMAIN base = DOMAIN sources
      /\ \A i \in DOMAIN sources : /\ base[i].org = sources[i].org
                                   /\ base[i].name = sources[i].name
  BY DEF TypeOK, ResetDefaultSource, Source
<1>2. new = [i \in DOMAIN base \cup {id} |-> IF i = id THEN row ELSE base[i]]
  BY DEF StoreSource, PutKey
<1> HIDE DEF base, new
<1>3. QED
  BY <1>1, <1>2 DEF new

\* Storing a server leaves the organization of the others alone.
LEMMA StoreServerFields ==
    ASSUME TypeOK, NEW id \in Nat, NEW row \in Server
    PROVE  LET new == StoreServer(id, row) IN
           \A i \in DOMAIN servers \cup {id} :
              new[i].org = IF i = id THEN row.org ELSE servers[i].org
<1> DEFINE base == IF row.active THEN ResetActiveServer(servers) ELSE servers
           new == StoreServer(id, row)
<1>1. /\ DOMAIN base = DOMAIN servers
      /\ \A i \in DOMAIN servers : base[i].org = servers[i].org
  BY DEF TypeOK, ResetActiveServer, Server
<1>2. new = [i \in DOMAIN base \cup {id} |-> IF i = id THEN row ELSE base[i]]
  BY DEF StoreServer, PutKey
<1> HIDE DEF base, new
<1>3. QED
  BY <1>1, <1>2 DEF new

\* Deleting a source leaves the others in their organizations and names an heir
\* if there was a default and is anything left.
LEMMA DeleteSourceFields ==
    ASSUME TypeOK, NEW id \in DOMAIN sources
    PROVE  LET new == DeleteSource(id) IN
           /\ DOMAIN new = DOMAIN sources \ {id}
           /\ \A i \in DOMAIN new : new[i].org = sources[i].org
           /\ HasDefault /\ DOMAIN new # {} => \E i \in DOMAIN new : new[i].default
<1> DEFINE others == DOMAIN sources \ {id}
           heir == IF others = {} THEN id ELSE Min(others)
           row == [sources[heir] EXCEPT !.default = TRUE]
           next == SetRandomDefault(id)
<1>1. heir \in DOMAIN sources /\ (others # {} => heir \in others)
  <2>1. others \in SUBSET Nat
    BY DEF TypeOK
  <2>2. QED
    BY <2>1, MinIsMember
<1>2. heir \in Nat /\ row \in Source /\ row.default /\ row.org = sources[heir].org
  <2> HIDE DEF heir
  <2>1. sources[heir] \in Source /\ heir \in Nat
    BY <1>1 DEF TypeOK
  <2>2. QED
    BY <2>1 DEF Source
<1>3. next = IF sources[id].default THEN StoreSource(heir, row) ELSE sources
  BY DEF SetRandomDefault
<1> HIDE DEF heir, row
<1>4. /\ DOMAIN StoreSource(heir, row) = DOMAIN sources \cup {heir}
      /\ \A i \in DOMAIN sources \cup {heir} :
            StoreSource(heir, row)[i].org
               = IF i = heir THEN row.org ELSE sources[i].org
      /\ StoreSource(heir, row)[heir] = row
  <2>1. DOMAIN StoreSource(heir, row) = DOMAIN sources \cup {heir}
    BY StoreDomains
  <2>2. StoreSource(heir, row)[heir] = row
    BY DEF StoreSource, PutKey
  <2>3. QED
    BY <1>2, <2>1, <2>2, StoreSourceFields
<1>5. /\ DOMAIN next = DOMAIN sources
      /\ \A i \in DOMAIN sources : next[i].org = sources[i].org
      /\ sources[id].default => next[heir].default
      /\ ~sources[id].default => next = sources
  BY <1>1, <1>2, <1>3, <1>4
<1>6. DeleteSource(id) = [i \in DOMAIN next \ {id} |-> next[i]]
  BY DEF DeleteSource, DropKey
<1> HIDE DEF next
<1>7. QED
  BY <1>1, <1>5, <1>6 DEF HasDefault

\* Before the server listens there are no requests.
Listening == boot.at # "serving" => \A s \in Slots : reqs[s] = Idle

LEMMA AlwaysListening == Spec => []Listening
<1>1. Init => Listening
  BY DEF Init, Listening
<1>2. TypeOK /\ Listening /\ [Next]_vars => Listening'
  <2> SUFFICES ASSUME TypeOK, Listening, [Next]_vars PROVE Listening'
    OBVIOUS
  <2>1. CASE BootStep
    BY <2>1 DEF BootStep, BootServing, BootSkipSource, BootAddSource,
       BootAddServer, Listening
  <2>2. CASE Crash
    BY <2>2 DEF Crash, Listening, Idle
  <2>3. ASSUME NEW s \in Slots, Accept(s) \/ Step(s) \/ TxFails(s)
        PROVE  Listening'
    <3>1. boot' = boot
      BY <2>3 DEF Step, Accept, Refuse, TxFails, NewSource, AddSource,
         UpdateSource, PutSource, RemoveSource, FindKapas, NewServer, AddServer,
         UpdateServer, PutServer, RemoveServer, RemoveOrganization, ListSources,
         DropSource, DropSourceMissing, AllSourcesDropped, ListServers,
         DropServer, DropServerMissing, AllServersDropped
    <3>2. boot.at = "serving" \/ reqs[s].at # "idle"
      BY <2>3 DEF Step, Accept, Refuse, TxFails, NewSource, AddSource,
         UpdateSource, PutSource, RemoveSource, FindKapas, NewServer, AddServer,
         UpdateServer, PutServer, RemoveServer, RemoveOrganization, ListSources,
         DropSource, DropSourceMissing, AllSourcesDropped, ListServers,
         DropServer, DropServerMissing, AllServersDropped
    <3>3. QED
      BY <3>1, <3>2 DEF Listening, Idle
  <2>4. CASE UNCHANGED vars
    BY <2>4 DEF vars, Listening
  <2>5. QED
    BY <2>1, <2>2, <2>3, <2>4 DEF Next
<1>3. QED
  BY <1>1, <1>2, TypeCorrect, PTL DEF Spec

\* What start-up has added so far.
FlagInv ==
    boot.at # "serving" =>
        /\ \A i \in DOMAIN sources : sources[i].org = DefaultOrg
        /\ \A i, j \in DOMAIN sources : sources[i].name = sources[j].name => i = j

\* server/sources.go, newSourceKapacitor: if the process dies only before it
\* serves, then however often, no source of --new-sources is there twice.
THEOREM FlagSourcesOnce ==
    ASSUME "serving" \notin Faults
    PROVE  Spec => []FlagSourceOnce
<1>1. Init => FlagInv
  BY DEF Init, FlagInv, NoKeys
<1>2. TypeOK /\ Listening /\ FlagInv /\ [Next]_vars => FlagInv'
  <2> SUFFICES ASSUME TypeOK, Listening, FlagInv, [Next]_vars PROVE FlagInv'
    OBVIOUS
  <2>1. CASE BootAddSource
    <3>1. PICK asked \in BOOLEAN :
             sources' = StoreSource(srcSeq',
                           [org |-> DefaultOrg, name |-> NewSources[boot.n],
                            default |-> asked \/ DOMAIN sources = {}])
      BY <2>1 DEF BootAddSource
    <3> DEFINE row == [org |-> DefaultOrg, name |-> NewSources[boot.n],
                       default |-> asked \/ DOMAIN sources = {}]
    <3>2. srcSeq' = srcSeq + 1 /\ srcSeq' \in Nat /\ srcSeq' \notin DOMAIN sources
      BY <2>1 DEF BootAddSource, TypeOK
    <3>3. row \in Source
      <4>1. NewSources[boot.n] \in Names
        BY <2>1, SourceStoreAssumption DEF BootAddSource, TypeOK, Boot
      <4>2. QED
        BY <4>1, SourceStoreAssumption DEF Source
    <3>4. row.org = DefaultOrg /\ row.name = NewSources[boot.n]
      OBVIOUS
    <3> HIDE DEF row
    <3>5. /\ DOMAIN sources' = DOMAIN sources \cup {srcSeq'}
          /\ \A i \in DOMAIN sources \cup {srcSeq'} :
                /\ sources'[i].org = IF i = srcSeq' THEN row.org ELSE sources[i].org
                /\ sources'[i].name
                      = IF i = srcSeq' THEN row.name ELSE sources[i].name
      <4>1. sources' = StoreSource(srcSeq', row)
        BY <3>1 DEF row
      <4> DEFINE k == srcSeq'
                 new == StoreSource(k, row)
      <4>2. DOMAIN new = DOMAIN sources \cup {k}
        BY StoreDomains
      <4>3. \A i \in DOMAIN sources \cup {k} :
               /\ new[i].org = IF i = k THEN row.org ELSE sources[i].org
               /\ new[i].name = IF i = k THEN row.name ELSE sources[i].name
        BY <3>2, <3>3, StoreSourceFields
      <4>4. sources' = new
        BY <4>1
      <4> HIDE DEF new
      <4>5. QED
        BY <4>2, <4>3, <4>4
    <3>6. boot.at # "serving"
      BY <2>1 DEF BootAddSource
    <3>7. \A i \in DOMAIN sources : sources[i].name # NewSources[boot.n]
      BY <2>1, <3>6 DEF BootAddSource, FlagInv
    <3>8. QED
      BY <3>2, <3>4, <3>5, <3>6, <3>7 DEF FlagInv
  <2>2. CASE BootServing \/ BootSkipSource \/ BootAddServer \/ Crash
    BY <2>2 DEF BootServing, BootSkipSource, BootAddServer, Crash, FlagInv
  <2>3. ASSUME NEW s \in Slots, Accept(s) \/ Step(s) \/ TxFails(s)
        PROVE  FlagInv'
    <3>1. boot' = boot
      BY <2>3 DEF Step, Accept, Refuse, TxFails, NewSource, AddSource,
         UpdateSource, PutSource, RemoveSource, FindKapas, NewServer, AddServer,
         UpdateServer, PutServer, RemoveServer, RemoveOrganization, ListSources,
         DropSource, DropSourceMissing, AllSourcesDropped, ListServers,
         DropServer, DropServerMissing, AllServersDropped
    <3>2. boot.at = "serving" \/ reqs[s].at # "idle"
      BY <2>3 DEF Step, Accept, Refuse, TxFails, NewSource, AddSource,
         UpdateSource, PutSource, RemoveSource, FindKapas, NewServer, AddServer,
         UpdateServer, PutServer, RemoveServer, RemoveOrganization, ListSources,
         DropSource, DropSourceMissing, AllSourcesDropped, ListServers,
         DropServer, DropServerMissing, AllServersDropped
    <3>3. QED
      BY <3>1, <3>2 DEF Listening, Idle, FlagInv
  <2>4. CASE UNCHANGED vars
    BY <2>4 DEF vars, FlagInv
  <2>5. QED
    BY <2>1, <2>2, <2>3, <2>4 DEF Next, BootStep
<1>3. FlagInv => FlagSourceOnce
  BY DEF FlagInv, FlagSourceOnce
<1>4. QED
  BY <1>1, <1>2, <1>3, TypeCorrect, AlwaysListening, PTL DEF Spec

\* Where one request is, if it is the only one: what it works on, and which rows
\* may belong to the organization that it deletes.
SourcesIn(except) == \A i \in DOMAIN sources : sources[i].org \in orgs \/ i \in except
ServersIn(except) == \A k \in DOMAIN servers : servers[k].org \in orgs \/ k \in except
SourcesOf(o) == \A i \in DOMAIN sources : sources[i].org \in orgs \cup {o}
ServersOf(o) == \A k \in DOMAIN servers : servers[k].org \in orgs \cup {o}

CascadeInv(r) ==
    /\ r.at = "listSources" => SourcesOf(r.org) /\ ServersOf(r.org)
    /\ r.at = "dropSources" =>
         r.todo \subseteq DOMAIN sources /\ SourcesIn(r.todo) /\ ServersOf(r.org)
    /\ r.at = "listServers" => SourcesIn({}) /\ ServersOf(r.org)
    /\ r.at = "dropServers" =>
         r.todo \subseteq DOMAIN servers /\ SourcesIn({}) /\ ServersIn(r.todo)
    /\ r.at \notin {"listSources", "dropSources", "listServers", "dropServers"} =>
         SourcesIn({}) /\ ServersIn({})
    /\ r.at = "accepted" => r.org \in orgs
    /\ r.at \in {"addSource", "putSource"} => r.source.org \in orgs
    /\ r.at \in {"addServer", "putServer"} => r.server.org \in orgs

\* The rest of the steps of a request keeps what has to be said of the rows.
LEMMA SameRows ==
    ASSUME NEW s \in Slots, NEW r, TypeOK, CascadeInv(reqs[s]),
           reqs[s].at \in {"idle", "accepted", "addSource", "putSource", "findKapas",
                           "addServer", "putServer"},
           UNCHANGED <<orgs, sources, servers>>, reqs' = [reqs EXCEPT ![s] = r],
           \/ r = Idle
           \/ r.at = "accepted" /\ r.org \in orgs
           \/ r.at \in {"addSource", "putSource"} /\ r.source.org \in orgs
           \/ r.at \in {"addServer", "putServer"} /\ r.server.org \in orgs
    PROVE  CascadeInv(reqs[s])'
<1>1. reqs'[s] = r
  BY DEF TypeOK
<1>2. QED
  BY <1>1 DEF CascadeInv, SourcesIn, ServersIn, Idle

\* bolt/organizations.go, Delete: for requests one at a time that do not fail,
\* nothing is left in the two buckets of an organization that was deleted.
THEOREM NothingLeft ==
    ASSUME NEW s, Slots = {s}, "serving" \notin Faults
    PROVE  Spec => []NothingOfDeletedOrg
<1> DEFINE Inv1 == DefaultOrg \in orgs /\ CascadeInv(reqs[s])
<1>1. Init => Inv1
  BY SourceStoreAssumption DEF Init, CascadeInv, SourcesIn, ServersIn, NoKeys, Idle
<1>2. TypeOK /\ Listening /\ Inv1 /\ [Next]_vars => Inv1'
  <2> SUFFICES ASSUME TypeOK, Listening, Inv1, [Next]_vars PROVE Inv1'
    OBVIOUS
  <2> DEFINE r == reqs[s]
  <2>0. s \in Slots /\ DOMAIN reqs = Slots
    BY DEF TypeOK
  <2>a. \A q : Goto(s, q) => reqs'[s] = q
    BY <2>0 DEF Goto
  <2>b. Done(s) => reqs'[s] = Idle
    BY <2>a DEF Done
  <2>c. /\ boot.at # "serving" => r = Idle
        /\ DOMAIN sources \in SUBSET Nat /\ DOMAIN servers \in SUBSET Nat
        /\ srcSeq \in Nat /\ srvSeq \in Nat
    BY <2>0 DEF Listening, TypeOK
  <2>1. CASE BootAddSource
    <3>1. PICK asked \in BOOLEAN :
             sources' = StoreSource(srcSeq',
                           [org |-> DefaultOrg, name |-> NewSources[boot.n],
                            default |-> asked \/ DOMAIN sources = {}])
      BY <2>1 DEF BootAddSource
    <3> DEFINE row == [org |-> DefaultOrg, name |-> NewSources[boot.n],
                       default |-> asked \/ DOMAIN sources = {}]
               k == srcSeq'
               new == StoreSource(k, row)
    <3>2. row \in Source
      <4>1. NewSources[boot.n] \in Names
        BY <2>1, SourceStoreAssumption DEF BootAddSource, TypeOK, Boot
      <4>2. QED
        BY <4>1, SourceStoreAssumption DEF Source
    <3>3. row.org = DefaultOrg /\ k \in Nat /\ sources' = new
      BY <2>1, <2>c, <3>1 DEF BootAddSource
    <3> HIDE DEF row, k
    <3>4. /\ DOMAIN new = DOMAIN sources \cup {k}
          /\ \A i \in DOMAIN sources \cup {k} :
               new[i].org = IF i = k THEN row.org ELSE sources[i].org
      BY <3>2, <3>3, StoreDomains, StoreSourceFields
    <3> HIDE DEF new
    <3>5. r = Idle /\ UNCHANGED <<orgs, servers, reqs>>
      BY <2>1, <2>c DEF BootAddSource
    <3>6. QED
      BY <3>3, <3>4, <3>5 DEF CascadeInv, SourcesIn, ServersIn, Idle
  <2>2. CASE BootAddServer
    <3> DEFINE asked == [org |-> DefaultOrg, srcID |-> boot.id,
                         type |-> "kapacitor", active |-> FALSE]
               row == [asked EXCEPT !.active = TRUE]
               k == srvSeq'
               new == StoreServer(k, row)
    <3>1. row \in Server
      <4>1. boot.id \in Nat
        BY <2>2 DEF BootAddServer, TypeOK, Boot
      <4>2. asked \in Server
        BY <4>1, SourceStoreAssumption DEF Server, Types
      <4> HIDE DEF asked
      <4>3. QED
        BY <4>2 DEF Server
    <3>2. row.org = DefaultOrg /\ k \in Nat /\ servers' = new
      BY <2>2, <2>c DEF BootAddServer, AddedServer
    <3> HIDE DEF row, k
    <3>3. /\ DOMAIN new = DOMAIN servers \cup {k}
          /\ \A i \in DOMAIN servers \cup {k} :
               new[i].org = IF i = k THEN row.org ELSE servers[i].org
      BY <3>1, <3>2, StoreDomains, StoreServerFields
    <3> HIDE DEF new
    <3>4. r = Idle /\ UNCHANGED <<orgs, sources, reqs>>
      BY <2>2, <2>c DEF BootAddServer
    <3>5. QED
      BY <3>2, <3>3, <3>4 DEF CascadeInv, SourcesIn, ServersIn, Idle
  <2>3. CASE BootServing \/ BootSkipSource
    BY <2>3 DEF BootServing, BootSkipSource, CascadeInv, SourcesIn, ServersIn,
       SourcesOf, ServersOf
  <2>4. CASE Crash
    <3>1. r = Idle /\ reqs'[s] = Idle /\ UNCHANGED <<orgs, sources, servers>>
      BY <2>0, <2>4, <2>c DEF Crash
    <3>2. QED
      BY <3>1 DEF CascadeInv, SourcesIn, ServersIn, Idle
  <2>5. CASE Accept(s) \/ Refuse(s)
    BY <2>0, <2>5, SameRows DEF Accept, Refuse, Done, Goto, Idle
  <2>6. CASE NewSource(s)
    BY <2>0, <2>6, SameRows DEF NewSource, Goto, CascadeInv
  <2>7. CASE UpdateSource(s)
    <3>1. PICK i \in DOMAIN sources, n \in Names, d \in BOOLEAN :
             /\ sources[i].org = r.org
             /\ Goto(s, [at |-> "putSource", id |-> i,
                         source |-> [sources[i] EXCEPT !.name = n, !.default = d]])
      BY <2>7 DEF UpdateSource
    <3> DEFINE row == [sources[i] EXCEPT !.name = n, !.default = d]
    <3>2. row.org = r.org
      BY <3>1 DEF TypeOK, Source
    <3> HIDE DEF row
    <3>3. r.at = "accepted" /\ r.org \in orgs
      BY <2>7 DEF UpdateSource, CascadeInv
    <3> DEFINE q == [at |-> "putSource", id |-> i, source |-> row]
    <3>4. q.at = "putSource" /\ q.source.org \in orgs
      BY <3>2, <3>3
    <3>5. reqs' = [reqs EXCEPT ![s] = q] /\ UNCHANGED <<orgs, sources, servers>>
      BY <2>7, <3>1 DEF UpdateSource, Goto, row
    <3> HIDE DEF q
    <3>6. QED
      BY <2>0, <3>3, <3>4, <3>5, SameRows
  <2>8. CASE NewServer(s)
    BY <2>0, <2>8, SameRows DEF NewServer, Goto, CascadeInv
  <2>9. CASE UpdateServer(s)
    <3>1. PICK i \in DOMAIN servers, d \in BOOLEAN :
             /\ servers[i].org = r.org
             /\ Goto(s, [at |-> "putServer", id |-> i,
                         server |-> [servers[i] EXCEPT !.active = d]])
      BY <2>9 DEF UpdateServer
    <3> DEFINE row == [servers[i] EXCEPT !.active = d]
    <3>2. row.org = r.org
      BY <3>1 DEF TypeOK, Server
    <3> HIDE DEF row
    <3>3. r.at = "accepted" /\ r.org \in orgs
      BY <2>9 DEF UpdateServer, CascadeInv
    <3> DEFINE q == [at |-> "putServer", id |-> i, server |-> row]
    <3>4. q.at = "putServer" /\ q.server.org \in orgs
      BY <3>2, <3>3
    <3>5. reqs' = [reqs EXCEPT ![s] = q] /\ UNCHANGED <<orgs, sources, servers>>
      BY <2>9, <3>1 DEF UpdateServer, Goto, row
    <3> HIDE DEF q
    <3>6. QED
      BY <2>0, <3>3, <3>4, <3>5, SameRows
  <2>10. CASE AddSource(s) \/ PutSource(s)
    <3> DEFINE k == IF r.at = "addSource" THEN srcSeq' ELSE r.id
               new == StoreSource(k, r.source)
    <3>1. /\ r.at \in {"addSource", "putSource"} /\ reqs'[s] = Idle
          /\ r.source \in Source /\ k \in Nat /\ sources' = new
          /\ UNCHANGED <<orgs, servers>>
      BY <2>0, <2>10, <2>b, <2>c, RequestShape DEF AddSource, PutSource
    <3>2. /\ DOMAIN new = DOMAIN sources \cup {k}
          /\ \A i \in DOMAIN sources \cup {k} :
               new[i].org = IF i = k THEN r.source.org ELSE sources[i].org
      <4> HIDE DEF k
      <4> QED BY <3>1, StoreDomains, StoreSourceFields
    <3> HIDE DEF new, k
    <3>3. QED
      BY <3>1, <3>2 DEF CascadeInv, SourcesIn, ServersIn, Idle
  <2>11. CASE AddServer(s) \/ PutServer(s)
    <3> DEFINE k == IF r.at = "addServer" THEN srvSeq' ELSE r.id
               row == IF r.at = "addServer" THEN [r.server EXCEPT !.active = TRUE]
                                            ELSE r.server
               new == StoreServer(k, row)
    <3>0. r.server \in Server /\ r.at \in {"addServer", "putServer"}
      BY <2>0, <2>11, RequestShape DEF AddServer, PutServer
    <3>1. /\ reqs'[s] = Idle
          /\ row \in Server /\ row.org = r.server.org /\ k \in Nat /\ servers' = new
          /\ UNCHANGED <<orgs, sources>>
      <4>1. row \in Server /\ row.org = r.server.org
        BY <3>0 DEF Server
      <4>2. k \in Nat /\ servers' = new
        BY <2>0, <2>11, <2>c, RequestShape DEF AddServer, PutServer, AddedServer
      <4>3. QED
        BY <2>11, <2>b, <4>1, <4>2 DEF AddServer, PutServer
    <3>2. /\ DOMAIN new = DOMAIN servers \cup {k}
          /\ \A i \in DOMAIN servers \cup {k} :
               new[i].org = IF i = k THEN row.org ELSE servers[i].org
      <4> HIDE DEF k, row
      <4> QED BY <3>1, StoreDomains, StoreServerFields
    <3> HIDE DEF new, k, row
    <3>3. QED
      BY <3>0, <3>1, <3>2 DEF CascadeInv, SourcesIn, ServersIn, Idle
  <2>12. CASE RemoveServer(s)
    BY <2>12, <2>b DEF RemoveServer, DropKey, CascadeInv, SourcesIn, ServersIn, Idle
  <2>13. CASE RemoveSource(s)
    <3>1. PICK i \in DOMAIN sources :
            /\ sources' = DeleteSource(i)
            /\ Goto(s, [at |-> "findKapas", org |-> r.org, id |-> i])
      BY <2>13 DEF RemoveSource
    <3>2. /\ DOMAIN sources' = DOMAIN sources \ {i}
          /\ \A j \in DOMAIN sources' : sources'[j].org = sources[j].org
      BY <3>1, DeleteSourceFields
    <3>3. QED
      BY <2>13, <2>a, <3>1, <3>2 DEF RemoveSource, CascadeInv, SourcesIn, ServersIn
  <2>14. CASE FindKapas(s)
    BY <2>14, <2>a DEF FindKapas, CascadeInv, SourcesIn, ServersIn
  <2>15. CASE RemoveOrganization(s)
    BY <2>15, <2>a DEF RemoveOrganization, CascadeInv, SourcesIn, ServersIn,
       SourcesOf, ServersOf
  <2>16. CASE ListSources(s)
    BY <2>16, <2>a DEF ListSources, CascadeInv, SourcesIn, SourcesOf, ServersOf
  <2>17. CASE DropSource(s)
    <3> DEFINE k == Min(r.todo)
    <3>1. /\ r.at = "dropSources" /\ k \in DOMAIN sources
          /\ sources' = DeleteSource(k)
          /\ Goto(s, [r EXCEPT !.todo = r.todo \ {k}])
          /\ UNCHANGED <<orgs, servers>>
      BY <2>17 DEF DropSource
    <3> HIDE DEF k
    <3>2. /\ DOMAIN sources' = DOMAIN sources \ {k}
          /\ \A j \in DOMAIN sources' : sources'[j].org = sources[j].org
      BY <3>1, DeleteSourceFields
    <3>3. reqs'[s] = [at |-> "dropSources", org |-> r.org, todo |-> r.todo \ {k}]
      BY <2>0, <2>a, <3>1, RequestShape
    <3>4. QED
      BY <3>1, <3>2, <3>3 DEF CascadeInv, SourcesIn, ServersOf
  <2>18. CASE DropSourceMissing(s) \/ DropServerMissing(s)
    <3>1. r.todo \in SUBSET Nat /\ r.todo # {}
      BY <2>0, <2>18, RequestShape DEF DropSourceMissing, DropServerMissing
    <3>2. Min(r.todo) \in r.todo
      BY <3>1, MinIsMember
    <3>3. FALSE
      BY <2>18, <3>2 DEF DropSourceMissing, DropServerMissing, CascadeInv
    <3>4. QED
      BY <3>3
  <2>19. CASE AllSourcesDropped(s)
    BY <2>19, <2>a DEF AllSourcesDropped, CascadeInv, SourcesIn, ServersOf
  <2>20. CASE ListServers(s)
    BY <2>20, <2>a DEF ListServers, CascadeInv, SourcesIn, ServersIn, ServersOf
  <2>21. CASE DropServer(s)
    <3> DEFINE k == Min(r.todo)
    <3>1. /\ r.at = "dropServers" /\ k \in DOMAIN servers
          /\ servers' = DropKey(servers, k)
          /\ Goto(s, [r EXCEPT !.todo = r.todo \ {k}])
          /\ UNCHANGED <<orgs, sources>>
      BY <2>21 DEF DropServer
    <3> HIDE DEF k
    <3>2. reqs'[s] = [at |-> "dropServers", todo |-> r.todo \ {k}]
      BY <2>0, <2>a, <3>1, RequestShape
    <3>3. QED
      BY <3>1, <3>2 DEF CascadeInv, SourcesIn, ServersIn, DropKey
  <2>22. CASE AllServersDropped(s)
    BY <2>22, <2>b DEF AllServersDropped, CascadeInv, SourcesIn, ServersIn, Idle
  <2>23. CASE UNCHANGED vars
    BY <2>23 DEF vars, CascadeInv, SourcesIn, ServersIn, SourcesOf, ServersOf
  <2>24. ~TxFails(s)
    BY DEF TxFails
  <2>25. QED
    BY <2>1, <2>2, <2>3, <2>4, <2>5, <2>6, <2>7, <2>8, <2>9, <2>10, <2>11,
       <2>12, <2>13, <2>14, <2>15, <2>16, <2>17, <2>18, <2>19, <2>20, <2>21,
       <2>22, <2>23, <2>24 DEF Next, BootStep, Step
<1>3. Inv1 => NothingOfDeletedOrg
  BY DEF CascadeInv, NothingOfDeletedOrg, Quiet, SourcesIn, ServersIn
<1>4. QED
  BY <1>1, <1>2, <1>3, TypeCorrect, AlwaysListening, PTL DEF Spec

\* bolt/sources.go, Add and setRandomDefault: for requests one at a time, adding
\* and deleting sources keeps a default, and adding the first one makes it so.
THEOREM DefaultStays ==
    ASSUME NEW s, Slots = {s}
    PROVE  Spec => DefaultKept
<1> DEFINE First1 == reqs[s].at = "addSource" /\ DOMAIN sources = {}
                        => reqs[s].source.default
           Kept == /\ DOMAIN sources # DOMAIN sources' /\ DOMAIN sources' # {}
                   /\ HasDefault \/ DOMAIN sources = {}
                   => HasDefault'
<1>1. Init => First1
  BY DEF Init, Idle
<1>2. ASSUME TypeOK, Listening, First1, Next
      PROVE  First1' /\ Kept
  <2> DEFINE r == reqs[s]
  <2>0. s \in Slots /\ DOMAIN reqs = Slots
    BY <1>2 DEF TypeOK
  <2>a. \A q : Goto(s, q) => reqs'[s] = q
    BY <2>0 DEF Goto
  <2>b. Done(s) => reqs'[s] = Idle
    BY <2>a DEF Done
  <2>c. /\ boot.at # "serving" => r = Idle
        /\ srcSeq \in Nat /\ DOMAIN sources \subseteq 1..srcSeq
    BY <1>2, <2>0 DEF Listening, TypeOK
  <2>d. ASSUME NEW row \in Source, srcSeq' = srcSeq + 1,
               sources' = StoreSource(srcSeq', row),
               DOMAIN sources = {} => row.default
        PROVE  Kept
    <3> DEFINE k == srcSeq'
               new == StoreSource(k, row)
    <3>1. /\ k \in Nat /\ DOMAIN new = DOMAIN sources \cup {k}
          /\ new[k] = row
          /\ ~row.default => \A i \in DOMAIN sources : i # k => new[i] = sources[i]
      <4>1. k \in Nat
        BY <2>c, <2>d
      <4>2. DOMAIN new = DOMAIN sources \cup {k}
        BY StoreDomains
      <4>3. new[k] = row
        BY DEF StoreSource, PutKey
      <4>4. ~row.default => new = PutKey(sources, k, row)
        BY DEF StoreSource
      <4> HIDE DEF new, k
      <4>5. QED
        BY <4>1, <4>2, <4>3, <4>4 DEF PutKey
    <3>2. sources' = new /\ k \notin DOMAIN sources
      BY <2>c, <2>d
    <3> HIDE DEF new, k
    <3>3. QED
      BY <2>d, <3>1, <3>2 DEF HasDefault
  <2>e. ASSUME NEW i \in DOMAIN sources, sources' = DeleteSource(i)
        PROVE  Kept
    BY <1>2, <2>e, DeleteSourceFields DEF HasDefault
  <2>1. CASE BootAddSource
    <3>1. PICK asked \in BOOLEAN :
             sources' = StoreSource(srcSeq',
                           [org |-> DefaultOrg, name |-> NewSources[boot.n],
                            default |-> asked \/ DOMAIN sources = {}])
      BY <2>1 DEF BootAddSource
    <3> DEFINE row == [org |-> DefaultOrg, name |-> NewSources[boot.n],
                       default |-> asked \/ DOMAIN sources = {}]
    <3>2. row \in Source
      <4>1. NewSources[boot.n] \in Names
        BY <1>2, <2>1, SourceStoreAssumption DEF BootAddSource, TypeOK, Boot
      <4>2. QED
        BY <4>1, SourceStoreAssumption DEF Source
    <3>3. /\ DOMAIN sources = {} => row.default
          /\ srcSeq' = srcSeq + 1 /\ sources' = StoreSource(srcSeq', row)
      BY <2>1, <3>1 DEF BootAddSource
    <3> HIDE DEF row
    <3>4. Kept
      BY <2>d, <3>2, <3>3
    <3>5. reqs'[s] = Idle
      BY <2>1, <2>c DEF BootAddSource
    <3>6. QED
      BY <3>4, <3>5 DEF Idle
  <2>2. CASE BootServing \/ BootSkipSource \/ BootAddServer \/ Crash
    BY <2>0, <2>2, <1>2, <2>c
       DEF BootServing, BootSkipSource, BootAddServer, Crash, Idle
  <2>3. CASE AddSource(s)
    <3>1. /\ r.source \in Source /\ (DOMAIN sources = {} => r.source.default)
          /\ srcSeq' = srcSeq + 1 /\ sources' = StoreSource(srcSeq', r.source)
      BY <1>2, <2>0, <2>3, RequestShape DEF AddSource
    <3>2. QED
      BY <2>3, <2>b, <2>d, <3>1 DEF AddSource, Idle
  <2>4. CASE RemoveSource(s)
    <3>1. PICK i \in DOMAIN sources :
            /\ sources' = DeleteSource(i)
            /\ Goto(s, [at |-> "findKapas", org |-> r.org, id |-> i])
      BY <2>4 DEF RemoveSource
    <3>2. QED
      BY <2>a, <2>e, <3>1
  <2>5. CASE DropSource(s)
    <3> DEFINE k == Min(r.todo)
    <3>1. /\ r.at = "dropSources" /\ k \in DOMAIN sources
          /\ sources' = DeleteSource(k)
          /\ Goto(s, [r EXCEPT !.todo = r.todo \ {k}])
      BY <2>5 DEF DropSource
    <3> HIDE DEF k
    <3>2. reqs'[s] = [at |-> "dropSources", org |-> r.org, todo |-> r.todo \ {k}]
      BY <1>2, <2>0, <2>a, <3>1, RequestShape
    <3>3. QED
      BY <2>e, <3>1, <3>2
  <2>6. CASE PutSource(s)
    <3>1. DOMAIN StoreSource(r.id, r.source) = DOMAIN sources \cup {r.id}
      BY StoreDomains
    <3>2. DOMAIN sources' = DOMAIN sources
      BY <2>6, <3>1 DEF PutSource
    <3>3. QED
      BY <2>6, <2>b, <3>2 DEF PutSource, Idle
  <2>7. CASE NewSource(s)
    <3>1. PICK n \in Names, asked \in BOOLEAN :
            Goto(s, [at |-> "addSource",
                     source |-> [org |-> r.org, name |-> n,
                                 default |-> asked \/ DOMAIN sources = {}]])
      BY <2>7 DEF NewSource
    <3> DEFINE row == [org |-> r.org, name |-> n,
                       default |-> asked \/ DOMAIN sources = {}]
               q == [at |-> "addSource", source |-> row]
    <3>2. q.source = row /\ (DOMAIN sources = {} => row.default)
      OBVIOUS
    <3>3. reqs'[s] = q
      BY <2>a, <3>1
    <3> HIDE DEF q, row
    <3>4. QED
      BY <2>7, <3>2, <3>3 DEF NewSource
  <2>8. CASE \/ Accept(s) \/ Refuse(s) \/ TxFails(s)
             \/ UpdateSource(s) \/ FindKapas(s) \/ NewServer(s)
             \/ AddServer(s) \/ PutServer(s) \/ RemoveServer(s)
             \/ UpdateServer(s) \/ RemoveOrganization(s) \/ ListSources(s)
             \/ DropSourceMissing(s) \/ AllSourcesDropped(s) \/ ListServers(s)
             \/ DropServerMissing(s) \/ AllServersDropped(s)
    <3>1. sources' = sources
      BY <2>8 DEF Accept, Refuse, TxFails, UpdateSource, FindKapas,
         NewServer, AddServer, PutServer, RemoveServer, UpdateServer,
         RemoveOrganization, ListSources, DropSourceMissing, AllSourcesDropped,
         ListServers, DropServerMissing, AllServersDropped
    <3>2. CASE \/ Refuse(s) \/ TxFails(s) \/ AddServer(s) \/ PutServer(s)
               \/ RemoveServer(s) \/ DropSourceMissing(s)
               \/ DropServerMissing(s) \/ AllServersDropped(s)
      BY <3>1, <3>2, <2>b DEF Refuse, TxFails, AddServer, PutServer, RemoveServer,
         DropSourceMissing, DropServerMissing, AllServersDropped, Idle
    <3>3. CASE \/ Accept(s) \/ UpdateSource(s) \/ FindKapas(s) \/ NewServer(s)
               \/ UpdateServer(s) \/ RemoveOrganization(s) \/ ListSources(s)
               \/ AllSourcesDropped(s) \/ ListServers(s)
      <4>1. \E q : q.at # "addSource" /\ Goto(s, q)
        BY <3>3 DEF Accept, UpdateSource, FindKapas, NewServer, UpdateServer,
           RemoveOrganization, ListSources, AllSourcesDropped, ListServers
      <4>2. QED
        BY <2>a, <3>1, <4>1
    <3>4. QED
      BY <2>8, <3>2, <3>3
  <2>9. CASE DropServer(s)
    <3> DEFINE k == Min(r.todo)
    <3>1. /\ r.at = "dropServers" /\ sources' = sources
          /\ Goto(s, [r EXCEPT !.todo = r.todo \ {k}])
      BY <2>9 DEF DropServer
    <3> HIDE DEF k
    <3>2. reqs'[s] = [at |-> "dropServers", todo |-> r.todo \ {k}]
      BY <1>2, <2>0, <2>a, <3>1, RequestShape
    <3>3. QED
      BY <3>1, <3>2
  <2>10. QED
    BY <1>2, <2>1, <2>2, <2>3, <2>4, <2>5, <2>6, <2>7, <2>8, <2>9
       DEF Next, BootStep, Step
<1>3. ASSUME UNCHANGED vars
      PROVE  First1 => First1'
  BY <1>3 DEF vars
<1>4. TypeOK /\ Listening /\ First1 /\ [Next]_vars => First1'
  BY <1>2, <1>3
<1>5. TypeOK /\ Listening /\ First1 /\ [Next]_vars => [Kept]_vars
  BY <1>2
<1> HIDE DEF First1
<1>6. QED
  BY <1>1, <1>4, <1>5, TypeCorrect, AlwaysListening, PTL DEF Spec, DefaultKept

=============================================================================
