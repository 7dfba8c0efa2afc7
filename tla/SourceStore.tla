----------------------------- MODULE SourceStore -----------------------------
(***************************************************************************)
(* Data sources and the servers (kapacitors and services) attached to      *)
(* them: the bolt buckets of bolt/sources.go and bolt/servers.go, the       *)
(* organization facades in front of them, the HTTP handlers of              *)
(* server/sources.go, server/kapacitors.go and server/services.go, the      *)
(* part of an organization's cascading delete that empties the two buckets *)
(* and the --new-sources flag that fills them at start-up.                  *)
(*                                                                         *)
(* One action is one bolt transaction (bolt serialises writers, a View     *)
(* sees one snapshot) with the handler code up to the next transaction.    *)
(* Concurrent HTTP requests interleave between transactions.  A facade     *)
(* call that only repeats a check its bolt transaction makes again is part *)
(* of that transaction: ids are never reused, so what the first lookup     *)
(* refuses the second refuses too.                                         *)
(***************************************************************************)
EXTENDS Naturals, Sequences, FiniteSets, FiniteSetsExt

CONSTANTS
    Slots,        \* HTTP requests in progress at a time
    Orgs,         \* organizations that exist at the start
    DefaultOrg,   \* the organization that can never be deleted
    Names,        \* names of sources
    NewSources,   \* sequence of names given by --new-sources, <<>> if unset
    MaxSources,   \* no source is asked for once this many were added
    MaxServers,   \* no server is asked for once this many were added
    Faults        \* when the process may crash and, once it is serving, a
                  \*   transaction may fail

ASSUME SourceStoreAssumption ==
    /\ DefaultOrg \in Orgs
    /\ NewSources \in Seq(Names)
    /\ MaxSources \in Nat /\ MaxServers \in Nat
    /\ Faults \subseteq {"starting", "serving"}

VARIABLES
    orgs,      \* organizations not yet deleted
    sources,   \* the Sources bucket: id |-> source
    srcSeq,    \* its NextSequence counter
    servers,   \* the Servers bucket: id |-> server
    srvSeq,    \* its NextSequence counter
    boot,      \* progress of the start-up code
    reqs       \* per slot, what its request will do next and what it has read

vars == <<orgs, sources, srcSeq, servers, srvSeq, boot, reqs>>

Types == {"kapacitor", "flux"}   \* Server.Type: "" and anything else

Source == [org : Orgs, name : Names, default : BOOLEAN]
Server == [org : Orgs, srcID : Nat, type : Types, active : BOOLEAN]

Idle == [at |-> "idle"]

Request ==
    {Idle}
    \cup [at : {"accepted", "listSources", "listServers"}, org : Orgs]
    \cup [at : {"addSource"}, source : Source]
    \cup [at : {"putSource"}, id : Nat, source : Source]
    \cup [at : {"findKapas"}, org : Orgs, id : Nat]
    \cup [at : {"addServer"}, server : Server]
    \cup [at : {"putServer"}, id : Nat, server : Server]
    \cup [at : {"dropSources"}, org : Orgs, todo : SUBSET Nat]
    \cup [at : {"dropServers"}, todo : SUBSET Nat]

Boot ==
    [at : {"sources"}, n : Nat \ {0}]
    \cup [at : {"server"}, n : Nat \ {0}, id : Nat]
    \cup {[at |-> "serving"]}

TypeOK ==
    /\ orgs \subseteq Orgs
    /\ srcSeq \in Nat /\ srvSeq \in Nat
    /\ DOMAIN sources \subseteq 1..srcSeq
    /\ sources \in [DOMAIN sources -> Source]
    /\ DOMAIN servers \subseteq 1..srvSeq
    /\ servers \in [DOMAIN servers -> Server]
    /\ boot \in Boot
    /\ reqs \in [Slots -> Request]

-----------------------------------------------------------------------------
(* The two buckets. *)

NoKeys == [i \in {} |-> i]
PutKey(bucket, id, value) ==
    [i \in DOMAIN bucket \cup {id} |-> IF i = id THEN value ELSE bucket[i]]
DropKey(bucket, id) == [i \in DOMAIN bucket \ {id} |-> bucket[i]]

ResetDefaultSource(bucket) ==
    [i \in DOMAIN bucket |-> [bucket[i] EXCEPT !.default = FALSE]]
ResetActiveServer(bucket) ==
    [i \in DOMAIN bucket |-> [bucket[i] EXCEPT !.active = FALSE]]

\* Mutant: the Put without resetDefaultSource.
StoreSourceNoReset(id, source) == PutKey(sources, id, source)

\* The Put of a source, after the other defaults are unset if it is the default.
StoreSource(id, source) ==
    PutKey(IF source.default THEN ResetDefaultSource(sources) ELSE sources,
           id, source)

\* Mutant: the default is deleted and no heir is named.
SetRandomDefaultNever(id) == sources

\* setRandomDefault: when the source to delete is the default, the first other
\* source becomes the default; a lone source is its own successor.
SetRandomDefault(id) ==
    LET others == DOMAIN sources \ {id}
        heir == IF others = {} THEN id ELSE Min(others)
    IN  IF sources[id].default
        THEN StoreSource(heir, [sources[heir] EXCEPT !.default = TRUE])
        ELSE sources

DeleteSource(id) == DropKey(SetRandomDefault(id), id)

\* Mutant: the Put without resetActiveServer.
StoreServerNoReset(id, server) == PutKey(servers, id, server)

StoreServer(id, server) ==
    PutKey(IF server.active THEN ResetActiveServer(servers) ELSE servers,
           id, server)

\* Servers.Add makes the new server the active one, whatever was asked.
AddedServer(id, server) == StoreServer(id, [server EXCEPT !.active = TRUE])

-----------------------------------------------------------------------------
Init ==
    /\ orgs = Orgs
    /\ sources = NoKeys /\ srcSeq = 0
    /\ servers = NoKeys /\ srvSeq = 0
    /\ boot = [at |-> "sources", n |-> 1]
    /\ reqs = [s \in Slots |-> Idle]

Goto(s, r) == reqs' = [reqs EXCEPT ![s] = r]
Done(s) == Goto(s, Idle)

(* Start-up: HandleNewSources runs before the server listens. *)

BootServing ==
    /\ boot.at = "sources" /\ boot.n > Len(NewSources)
    /\ boot' = [at |-> "serving"]
    /\ UNCHANGED <<orgs, sources, srcSeq, servers, srvSeq, reqs>>

\* newSourceKapacitor skips a source whose name the default organization has.
BootSkipSource ==
    /\ boot.at = "sources" /\ boot.n <= Len(NewSources)
    /\ \E i \in DOMAIN sources :
          sources[i].org = DefaultOrg /\ sources[i].name = NewSources[boot.n]
    /\ boot' = [boot EXCEPT !.n = @ + 1]
    /\ UNCHANGED <<orgs, sources, srcSeq, servers, srvSeq, reqs>>

\* Mutant: start-up does not look for the name among the stored sources.
BootAddSourceAlways ==
    /\ boot.at = "sources" /\ boot.n <= Len(NewSources)
    /\ srcSeq < MaxSources
    /\ srcSeq' = srcSeq + 1
    /\ sources' = StoreSource(srcSeq',
                      [org |-> DefaultOrg, name |-> NewSources[boot.n],
                       default |-> DOMAIN sources = {}])
    /\ boot' = [at |-> "server", n |-> boot.n, id |-> srcSeq']
    /\ UNCHANGED <<orgs, servers, srvSeq, reqs>>

BootAddSource ==
    /\ boot.at = "sources" /\ boot.n <= Len(NewSources)
    /\ ~\E i \in DOMAIN sources :
          sources[i].org = DefaultOrg /\ sources[i].name = NewSources[boot.n]
    /\ srcSeq < MaxSources
    /\ srcSeq' = srcSeq + 1
    /\ \E asked \in BOOLEAN :
          sources' = StoreSource(srcSeq',
                        [org |-> DefaultOrg, name |-> NewSources[boot.n],
                         default |-> asked \/ DOMAIN sources = {}])
    /\ boot' = [at |-> "server", n |-> boot.n, id |-> srcSeq']
    /\ UNCHANGED <<orgs, servers, srvSeq, reqs>>

BootAddServer ==
    /\ boot.at = "server"
    /\ srvSeq' = srvSeq + 1
    /\ servers' = AddedServer(srvSeq',
                     [org |-> DefaultOrg, srcID |-> boot.id,
                      type |-> "kapacitor", active |-> FALSE])
    /\ boot' = [at |-> "sources", n |-> boot.n + 1]
    /\ UNCHANGED <<orgs, sources, srcSeq, reqs>>

\* The process dies; what was committed stays, and start-up begins again.
Crash ==
    /\ IF boot.at = "serving" THEN "serving" \in Faults ELSE "starting" \in Faults
    /\ boot' = [at |-> "sources", n |-> 1]
    /\ reqs' = [s \in Slots |-> Idle]
    /\ UNCHANGED <<orgs, sources, srcSeq, servers, srvSeq>>

-----------------------------------------------------------------------------
(* Requests. *)

\* AuthorizedUser has looked the organization up and put it on the context.
Accept(s) ==
    /\ boot.at = "serving"
    /\ reqs[s].at = "idle"
    /\ \E o \in orgs : Goto(s, [at |-> "accepted", org |-> o])
    /\ UNCHANGED <<orgs, sources, srcSeq, servers, srvSeq, boot>>

\* A bad body, an unreachable database, an id that is not there.
Refuse(s) ==
    /\ reqs[s].at \in {"accepted", "putSource", "addServer", "putServer"}
    /\ Done(s)
    /\ UNCHANGED <<orgs, sources, srcSeq, servers, srvSeq, boot>>

\* A transaction fails and the handler returns the error.
TxFails(s) ==
    /\ "serving" \in Faults
    /\ reqs[s].at # "idle"
    /\ Done(s)
    /\ UNCHANGED <<orgs, sources, srcSeq, servers, srvSeq, boot>>

\* NewSource, up to the View of Sources.Add that finds whether it is the first.
NewSource(s) ==
    /\ reqs[s].at = "accepted"
    /\ srcSeq < MaxSources
    /\ \E n \in Names, asked \in BOOLEAN :
          Goto(s, [at |-> "addSource",
                   source |-> [org |-> reqs[s].org, name |-> n,
                               default |-> asked \/ DOMAIN sources = {}]])
    /\ UNCHANGED <<orgs, sources, srcSeq, servers, srvSeq, boot>>

AddSource(s) ==
    /\ reqs[s].at = "addSource"
    /\ srcSeq' = srcSeq + 1
    /\ sources' = StoreSource(srcSeq', reqs[s].source)
    /\ Done(s)
    /\ UNCHANGED <<orgs, servers, srvSeq, boot>>

\* UpdateSource: default is taken from the body even when the body omits it.
UpdateSource(s) ==
    /\ reqs[s].at = "accepted"
    /\ \E i \in DOMAIN sources, n \in Names, d \in BOOLEAN :
          /\ sources[i].org = reqs[s].org
          /\ Goto(s, [at |-> "putSource", id |-> i,
                      source |-> [sources[i] EXCEPT !.name = n, !.default = d]])
    /\ UNCHANGED <<orgs, sources, srcSeq, servers, srvSeq, boot>>

\* Mutant: the Put does not look the id up.
PutSourceUpsert(s) ==
    /\ reqs[s].at = "putSource"
    /\ sources' = StoreSource(reqs[s].id, reqs[s].source)
    /\ Done(s)
    /\ UNCHANGED <<orgs, srcSeq, servers, srvSeq, boot>>

PutSource(s) ==
    /\ reqs[s].at = "putSource"
    /\ reqs[s].id \in DOMAIN sources
    /\ sources' = StoreSource(reqs[s].id, reqs[s].source)
    /\ Done(s)
    /\ UNCHANGED <<orgs, srcSeq, servers, srvSeq, boot>>

\* RemoveSource: any source of the store, then the kapacitors on it.
RemoveSource(s) ==
    /\ reqs[s].at = "accepted"
    /\ \E i \in DOMAIN sources :
          /\ sources' = DeleteSource(i)
          /\ Goto(s, [at |-> "findKapas", org |-> reqs[s].org, id |-> i])
    /\ UNCHANGED <<orgs, srcSeq, servers, srvSeq, boot>>

\* Mutant: the id of a server is compared with the id of the source.
FindKapasById(s) ==
    /\ reqs[s].at = "findKapas"
    /\ Goto(s, [at |-> "dropServers",
                todo |-> {k \in DOMAIN servers :
                            servers[k].org = reqs[s].org /\ k = reqs[s].id}])
    /\ UNCHANGED <<orgs, sources, srcSeq, servers, srvSeq, boot>>

\* removeSrcsKapa sees the servers of the request's organization.
FindKapas(s) ==
    /\ reqs[s].at = "findKapas"
    /\ Goto(s, [at |-> "dropServers",
                todo |-> {k \in DOMAIN servers :
                            /\ servers[k].org = reqs[s].org
                            /\ servers[k].srcID = reqs[s].id}])
    /\ UNCHANGED <<orgs, sources, srcSeq, servers, srvSeq, boot>>

\* The loops over a listed set: one facade Delete at a time, in bucket order.
DropServer(s) ==
    /\ reqs[s].at = "dropServers"
    /\ reqs[s].todo # {}
    /\ Min(reqs[s].todo) \in DOMAIN servers
    /\ servers' = DropKey(servers, Min(reqs[s].todo))
    /\ Goto(s, [reqs[s] EXCEPT !.todo = @ \ {Min(@)}])
    /\ UNCHANGED <<orgs, sources, srcSeq, srvSeq, boot>>

\* Mutant: a server that is gone is tried again.
DropServerRetry(s) ==
    /\ reqs[s].at = "dropServers"
    /\ reqs[s].todo # {}
    /\ Min(reqs[s].todo) \notin DOMAIN servers
    /\ UNCHANGED vars

\* One that is gone already ends the request with an error.
DropServerMissing(s) ==
    /\ reqs[s].at = "dropServers"
    /\ reqs[s].todo # {}
    /\ Min(reqs[s].todo) \notin DOMAIN servers
    /\ Done(s)
    /\ UNCHANGED <<orgs, sources, srcSeq, servers, srvSeq, boot>>

AllServersDropped(s) ==
    /\ reqs[s].at = "dropServers"
    /\ reqs[s].todo = {}
    /\ Done(s)
    /\ UNCHANGED <<orgs, sources, srcSeq, servers, srvSeq, boot>>

\* NewKapacitor and NewService: the source must be there and in the organization.
NewServer(s) ==
    /\ reqs[s].at = "accepted"
    /\ srvSeq < MaxServers
    /\ \E i \in DOMAIN sources, t \in Types, asked \in BOOLEAN :
          /\ sources[i].org = reqs[s].org
          /\ Goto(s, [at |-> "addServer",
                      server |-> [org |-> reqs[s].org, srcID |-> i,
                                  type |-> t, active |-> asked]])
    /\ UNCHANGED <<orgs, sources, srcSeq, servers, srvSeq, boot>>

\* Mutant: the key is the sequence before NextSequence.
AddServerStaleKey(s) ==
    /\ reqs[s].at = "addServer"
    /\ srvSeq' = srvSeq + 1
    /\ servers' = AddedServer(srvSeq, reqs[s].server)
    /\ Done(s)
    /\ UNCHANGED <<orgs, sources, srcSeq, boot>>

AddServer(s) ==
    /\ reqs[s].at = "addServer"
    /\ srvSeq' = srvSeq + 1
    /\ servers' = AddedServer(srvSeq', reqs[s].server)
    /\ Done(s)
    /\ UNCHANGED <<orgs, sources, srcSeq, boot>>

\* UpdateKapacitor may ask for active; otherwise, and in UpdateService, the
\* flag read here is the flag written back.
UpdateServer(s) ==
    /\ reqs[s].at = "accepted"
    /\ \E i \in DOMAIN servers, d \in BOOLEAN :
          /\ servers[i].org = reqs[s].org
          /\ servers[i].type = "flux" => d = servers[i].active
          /\ Goto(s, [at |-> "putServer", id |-> i,
                      server |-> [servers[i] EXCEPT !.active = d]])
    /\ UNCHANGED <<orgs, sources, srcSeq, servers, srvSeq, boot>>

PutServer(s) ==
    /\ reqs[s].at = "putServer"
    /\ reqs[s].id \in DOMAIN servers
    /\ servers' = StoreServer(reqs[s].id, reqs[s].server)
    /\ Done(s)
    /\ UNCHANGED <<orgs, sources, srcSeq, srvSeq, boot>>

\* RemoveKapacitor and RemoveService: what the lookup checks never changes, so
\* the lookup and the delete are one step.
RemoveServer(s) ==
    /\ reqs[s].at = "accepted"
    /\ \E i \in DOMAIN servers :
          /\ servers[i].org = reqs[s].org
          /\ servers' = DropKey(servers, i)
    /\ Done(s)
    /\ UNCHANGED <<orgs, sources, srcSeq, srvSeq, boot>>

\* OrganizationsStore.Delete: the organization, then what belonged to it.
RemoveOrganization(s) ==
    /\ reqs[s].at = "accepted"
    /\ \E o \in orgs \ {DefaultOrg} :
          /\ orgs' = orgs \ {o}
          /\ Goto(s, [at |-> "listSources", org |-> o])
    /\ UNCHANGED <<sources, srcSeq, servers, srvSeq, boot>>

ListSources(s) ==
    /\ reqs[s].at = "listSources"
    /\ Goto(s, [at |-> "dropSources", org |-> reqs[s].org,
                todo |-> {i \in DOMAIN sources : sources[i].org = reqs[s].org}])
    /\ UNCHANGED <<orgs, sources, srcSeq, servers, srvSeq, boot>>

DropSource(s) ==
    /\ reqs[s].at = "dropSources"
    /\ reqs[s].todo # {}
    /\ Min(reqs[s].todo) \in DOMAIN sources
    /\ sources' = DeleteSource(Min(reqs[s].todo))
    /\ Goto(s, [reqs[s] EXCEPT !.todo = @ \ {Min(@)}])
    /\ UNCHANGED <<orgs, srcSeq, servers, srvSeq, boot>>

\* setRandomDefault does not find the source: the whole cascade stops.
DropSourceMissing(s) ==
    /\ reqs[s].at = "dropSources"
    /\ reqs[s].todo # {}
    /\ Min(reqs[s].todo) \notin DOMAIN sources
    /\ Done(s)
    /\ UNCHANGED <<orgs, sources, srcSeq, servers, srvSeq, boot>>

\* Mutant: the cascade ends with the sources.
AllSourcesDroppedLast(s) ==
    /\ reqs[s].at = "dropSources"
    /\ reqs[s].todo = {}
    /\ Done(s)
    /\ UNCHANGED <<orgs, sources, srcSeq, servers, srvSeq, boot>>

AllSourcesDropped(s) ==
    /\ reqs[s].at = "dropSources"
    /\ reqs[s].todo = {}
    /\ Goto(s, [at |-> "listServers", org |-> reqs[s].org])
    /\ UNCHANGED <<orgs, sources, srcSeq, servers, srvSeq, boot>>

ListServers(s) ==
    /\ reqs[s].at = "listServers"
    /\ Goto(s, [at |-> "dropServers",
                todo |-> {k \in DOMAIN servers : servers[k].org = reqs[s].org}])
    /\ UNCHANGED <<orgs, sources, srcSeq, servers, srvSeq, boot>>

-----------------------------------------------------------------------------
Step(s) ==
    \/ NewSource(s) \/ AddSource(s)
    \/ UpdateSource(s) \/ PutSource(s)
    \/ RemoveSource(s) \/ FindKapas(s)
    \/ NewServer(s) \/ AddServer(s)
    \/ UpdateServer(s) \/ PutServer(s) \/ RemoveServer(s)
    \/ RemoveOrganization(s) \/ ListSources(s) \/ DropSource(s)
    \/ DropSourceMissing(s) \/ AllSourcesDropped(s) \/ ListServers(s)
    \/ DropServer(s) \/ DropServerMissing(s) \/ AllServersDropped(s)
    \/ Refuse(s)

BootStep == BootServing \/ BootSkipSource \/ BootAddSource \/ BootAddServer

Next ==
    \/ BootStep
    \/ Crash
    \/ \E s \in Slots : Accept(s) \/ Step(s) \/ TxFails(s)

Spec == Init /\ [][Next]_vars

\* A handler that is running is run on by the Go scheduler; that a transaction
\* fails is never owed.
FairSpec ==
    /\ Spec
    /\ WF_vars(BootStep)
    /\ \A s \in Slots : WF_vars(Step(s))

-----------------------------------------------------------------------------
(* Properties. *)

HasDefault == \E i \in DOMAIN sources : sources[i].default

\* resetDefaultSource and Put share a transaction: whatever requests interleave
\* and wherever the process dies, at most one source is the default.
AtMostOneDefault ==
    \A i, j \in DOMAIN sources :
        sources[i].default /\ sources[j].default => i = j

\* The same for the active server of resetActiveServer.
AtMostOneActive ==
    \A i, j \in DOMAIN servers :
        servers[i].active /\ servers[j].active => i = j

\* An id enters a bucket only when the sequence issues it: an Update whose
\* request read a row before its delete does not bring the row back, since
\* Update looks the id up again in the transaction that writes.
NoResurrection ==
    [][ /\ DOMAIN sources' \ DOMAIN sources \subseteq (srcSeq + 1)..srcSeq'
        /\ DOMAIN servers' \ DOMAIN servers \subseteq (srvSeq + 1)..srvSeq' ]_vars

\* Adding and removing sources keeps a default: the first source is one, and
\* deleting the default names an heir while sources are left. (An update may
\* unset it; bolt/sources.go, Add and setRandomDefault.)
DefaultKept ==
    [][ /\ DOMAIN sources # DOMAIN sources' /\ DOMAIN sources' # {}
        /\ HasDefault \/ DOMAIN sources = {}
        => HasDefault' ]_vars

Quiet == boot.at = "serving" /\ \A s \in Slots : reqs[s].at = "idle"

\* A source that a request removes takes the servers of the request's
\* organization with it (for requests one at a time that do not fail;
\* server/sources.go, removeSrcsKapa).
ServersGoWithSource ==
    \A s \in Slots, o \in Orgs, i \in 1..MaxSources :
        reqs[s] = [at |-> "findKapas", org |-> o, id |-> i]
        ~> /\ reqs[s].at = "idle"
           /\ \A k \in DOMAIN servers :
                 servers[k].org = o => servers[k].srcID # i

\* Between requests nothing belongs to a deleted organization.
NothingOfDeletedOrg ==
    Quiet => /\ \A i \in DOMAIN sources : sources[i].org \in orgs
             /\ \A k \in DOMAIN servers : servers[k].org \in orgs

\* However often start-up is cut short and begun again before it serves, it
\* adds each source of --new-sources once.
FlagSourceOnce ==
    boot.at # "serving" =>
        \A i, j \in DOMAIN sources : sources[i].name = sources[j].name => i = j

\* A cascade ends, whoever else deletes what it listed.
CascadeEndsOf(s) ==
    reqs[s].at \in {"findKapas", "listSources", "dropSources",
                    "listServers", "dropServers"} ~> reqs[s].at = "idle"

=============================================================================
