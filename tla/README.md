# A verification development of Chronograf

Chronograf is the UI server of the TICK stack: a Go process that keeps users,
organizations, data sources, kapacitors and dashboards in one bolt file, signs
people in through OAuth providers, proxies queries to InfluxDB and tasks to
Kapacitor, and serves a React application. This directory holds TLA+ models of
the parts of it where order, concurrency and failure matter, the TLC
configurations that check them on small instances, and TLAPS proofs.

Line references below are relative to `src/`.

## Inventory

| Part | State | Operations | Hard behaviour |
|---|---|---|---|
| Accounts: `bolt/{users,organizations,mapping,config}.go`, `organizations/{users,organizations}.go`, `server/{auth,me,users,organizations,mapping,config,stores}.go` | buckets Users, Organizations, Mappings, the auth config; sequences | sign-in (`Me`), switching organization (`UpdateMe`), CRUD of users, organizations and mappings, the cascading delete of an organization | every handler is several bolt transactions; read-modify-write of whole users; a cascade of separate deletes; roles per organization behind a filtering facade |
| Sources and servers: `bolt/{sources,servers}.go`, facades, `server/{sources,kapacitors,services}.go` | buckets Sources and Servers, their default and active flags | CRUD, `--new-sources` at start-up, the organization cascade | check and act in different transactions; flags unique over the bucket; crash between two adds |
| Kapacitor task listing: `kapacitor/kapa_client.go` | channels, wait groups, goroutines of one call | `ListTasks` | page fan-out to workers, closing of channels, errors of single fetches |
| Kapacitor tasks: `kapacitor/client.go` | tasks in Kapacitor | create, update (disable, update, enable), enable, disable, delete | one of three remote calls failing (not modelled) |
| Sessions: `oauth2/{cookies,jwt,mux,time}.go` | the signed cookie; the clock | login, callback, validate, extend, logout | two clocks (idle and lifespan), the order in which they end a session |
| Dashboards, cells, templates: `bolt/dashboards.go`, `server/{dashboards,cells,templates}.go` | bucket Dashboards | CRUD of dashboards and of their cells and templates | read-modify-write of a whole dashboard |
| Annotations: `influx/annotations.go` | points in InfluxDB | add, update, delete, read | several writes for one update, tombstones, the newest modification wins |
| Start-up: `bolt/{client,base,build,change_interval_to_duration}.go` | the file, its backups, migration marks | open, backup, initialise, migrate | crash between migration and mark |
| Store layering: `multistore/`, `memdb/`, `filestore/` | files, flags | merge of several stores | partial failure of one layer |
| InfluxDB and Enterprise clients: `influx/`, `enterprise/` | the ring of data nodes; meta users and roles | query, write, user and role updates | partial failure; shared ring |
| UI: `ui/src/` | Redux store, timers, requests in flight | logs viewer, auto refresh, time series, dashboards | answers out of order, timers against answers |

How they interact: a request passes `AuthorizedToken` (session) and
`AuthorizedUser` (accounts), which puts user, role and organization on the
context; `server.Store` then hands the handler the raw bolt store, the
organization facade or a no-op store. Handlers call stores synchronously; each
call is one or more bolt transactions. Bolt runs one read-write transaction at a
time, and a read-only one sees a snapshot, so a transaction is the unit of
atomicity and requests interleave between transactions.

What makes each part correct:

- **Accounts** — the default organization is always there; an id stands for one
  person; one role per organization, one user per identity, one organization per
  name; nothing is left of a deleted organization; a facade changes only what it
  shows; nobody becomes a super admin, or gets a role in an organization, through
  people who may not give it; there is a way to become super admin again.
- **Sources and servers** — one default source, handed on when it is deleted; one
  active server; no row comes back after its delete; no server without a source;
  nothing of a deleted organization; start-up adds each flag source once.
- **Task listing** — no panic, no deadlock, each task once, a goroutine that ends.
- **Kapacitor tasks** — after an update a task is enabled iff it was.
- **Sessions** — a session in use lives to its lifespan and no longer; an idle one
  ends after the inactivity time; logout ends it.
- **Dashboards** — a change of one cell is not lost to a change of another.
- **Annotations** — a reader sees an annotation once, in its newest form, and a
  deleted one never again, also when a write of an update fails.
- **Start-up** — a migration takes effect once; a backup exists of every version
  that was left behind.
- **Store layering** — a successful answer means that some layer did it.
- **UI** — what is shown in the end belongs to the query that is shown.

## The modules and their order

| Component | Modules | Abstract specification | Proofs |
|---|---|---|---|
| sources and servers | `SourceStore` | | `SourceStoreProofs` |
| users, organizations, mappings, authorization | `Accounts` | | `AccountsProofs` |
| task listing | `KapaPagination` | | `KapaPaginationProofs` |
| sessions and sign-in | `Session` | | `SessionProofs` |
| dashboards, cells, templates | `Dashboards` | `DashboardEdits` | `DashboardsProofs` |
| annotations | `Annotations` | `AnnotationMap` | `AnnotationsProofs` |
| start-up, backup, migrations | `StartUp` | | `StartUpProofs` |
| the logs viewer of the UI | `LogsViewer` | | `LogsViewerProofs` |

Each `MC...` module instantiates one of them for TLC. The components do not
share variables, so each is a specification of its own: `SourceStore` and
`Accounts` both have the delete of an organization, each for its own buckets,
and every request of `Accounts` and `Dashboards` is one that `Session` accepted.

## Modules

An action is one bolt transaction with the handler's code up to the next one
(or, in `KapaPagination`, one channel operation). What a request has read and
what it will do next is its *request record*, `reqs[s]`, whose field `at` names
the next step. Operators whose comment begins with "Mutant" are broken variants
of the one they precede and are used by no specification: they record which
mistake each property catches.

### `SourceStore`

`sources` and `servers` are the buckets as functions from id to row (only the
fields the handlers decide by: organization, name, type, flags, source of a
server), `srcSeq` and `srvSeq` their sequences, `orgs` the organizations not
deleted, `boot` the position of the start-up code, `reqs` the requests.

| Code | Actions |
|---|---|
| `HandleNewSources`, `newSourceKapacitor` | `BootServing`, `BootSkipSource`, `BootAddSource`, `BootAddServer` |
| `NewSource`, `SourcesStore.Add` | `NewSource`, `AddSource` |
| `UpdateSource`, `SourcesStore.Update` | `UpdateSource`, `PutSource` |
| `RemoveSource`, `removeSrcsKapa` | `RemoveSource`, `FindKapas`, `DropServer`, `DropServerMissing`, `AllServersDropped` |
| `NewKapacitor`, `NewService`, `ServersStore.Add` | `NewServer`, `AddServer` |
| `UpdateKapacitor`, `UpdateService`, `ServersStore.Update` | `UpdateServer`, `PutServer` |
| `RemoveKapacitor`, `RemoveService` | `RemoveServer` |
| `OrganizationsStore.Delete`, sources and servers | `RemoveOrganization`, `ListSources`, `DropSource`, `DropSourceMissing`, `AllSourcesDropped`, `ListServers`, then as for a source |
| a request that is invalid; a transaction that fails; the process dies | `Refuse`, `TxFails`, `Crash` |

### `Accounts`

`orgs`, `users`, `mappings` are the buckets, `orgSeq`, `userSeq`, `mapSeq` their
sequences, `superNew` the `SuperAdminNewUsers` flag of the auth config, `reqs`
the requests, `left` how many may still come. Name, provider and scheme of a user
are one value, a member of `People`. Roles are kept per organization, in order;
nothing reads their order across organizations. A mapping is the set of people it
applies to. The users store of a request is its *scope*: all organizations for
the raw store, one for a facade.

| Code | Actions |
|---|---|
| `AuthorizedUser` | `Accept`, `AuthUser`, `AuthRole`, `AuthRefuse` |
| `NewUser`, both stores' `Add` | `NewUser`, `NewUserRoles`, `FindUser`, `AddUser` or `PutUser` |
| `UpdateUser`, both stores' `Update` | `UpdateUser`, `UpdateRoles`, `Merge`, `MergeMissing`, `PutUser` |
| `RemoveUser` of either store | `RemoveUser`; `RemoveUserOfOrg`, `Strip`, `StripMissing` |
| `NewOrganization` with its clean-up | `NewOrganization`, `AddOrg`, `JoinFind`, `JoinAdd`, `JoinPut`, `UndoOrg` |
| `UpdateOrganization` | `UpdateOrganization`, `CheckOrg`, `UniqueOrg`, `PutOrg` |
| `RemoveOrganization`, `OrganizationsStore.Delete` | `RemoveOrganization`, `DropOrg`, `ListUsers`, `Strip`, `AllStripped`, `DropMapping`, `DropMappingEnd` |
| mappings, auth config | `NewMapping`, `AddMapping`, `UpdateMapping`, `PutMapping`, `RemoveMapping`, `ReplaceAuthConfig` |
| `UpdateMe` | `UpdateMe`, `Switch`, `SwitchRaw` |
| `Me`, `newUsersAreSuperAdmin`, `mapPrincipalToRoles` | `AcceptMe`, `Me`, `FirstUser`, `MeCount`, `MeConfig`, `MeMappings`, `MeRole`, `MeAdd` |

### `KapaPagination`

One call of `ListTasks`. `caller`, `generator`, `worker` and `gatherer` are the
program counters of the goroutines; `taskChan` is the buffered channel with
`taskClosed`; `closes` counts how often `done` was closed; `next` is the
generator's offset. The unbuffered `optChan` is a joint step of generator and
worker (`SendOpt`). `allTasks` counts how often each task is in the list, and
`failed` remembers the pages whose fetch failed, which the code forgets; the
properties need it, and no step but the bound on failures reads it.

### `Session`

The server keeps nothing of a session: it is a signed token in a cookie, and each
request that is served writes a new one. `now` is the clock, `lifespan` the
`--auth-duration`, `cookie` what the browser holds, `reqs` the requests in flight
and the answers on their way, which arrive in any order. The clock has
`TicksPerSecond` ticks in a second because the server calculates with fine times
while tokens and cookies hold whole seconds. `start` and `used` in a token are
history: when the session was issued, and when this token was.

| Code | Actions and operators |
|---|---|
| `NewCookieJWT`, `Authorize`, `Extend` (`oauth2/cookies.go`) | `Inactivity`, `Authorize`, `Extend` |
| `ValidPrincipal`, `ExtendedPrincipal` (`oauth2/jwt.go`) | `Valid` |
| `AuthorizedToken` (`server/auth.go`) | `Accept`, `Refuse` |
| `UpdateMe` behind it (`server/me.go`) | `AcceptSwitch` |
| `Login`, `Callback`, `Logout` (`oauth2/mux.go`) | `SendCallback` with any earlier login, `Callback`, `Expire` |
| the browser (external) | `Tick`, `Send`, `Receive` |

### `Dashboards` and `DashboardEdits`

`boards` is the bucket, `boardSeq` its sequence, `uids` the ids generated, `reqs`
the requests, `sent` how many there were. Cells and templates are alike: an id and
the rest. All handlers but the one that creates a dashboard take three
transactions, `Get` (through the organization), `Check` (the facade's second
look) and `Update` or `Delete`; the whole dashboard read by the first is written by
the third.

| Code | Actions |
|---|---|
| a request of `server/{dashboards,cells,templates}.go` | `Send` |
| `NewDashboard`, `DashboardsStore.Add` | `Add` |
| `ReplaceDashboard`, `UpdateDashboard`, the handlers of cells and templates | `Get`, `Check`, `Update`; what they change is `Changed` |
| `RemoveDashboard`, `DashboardsStore.Delete` | `Get`, `Check`, `Delete` |
| an error anywhere | `Fail` |

`DashboardEdits` is what a client may expect: `Ask`, then one step that creates,
deletes or edits what the request names (`Create`, `Delete`, `Edit`) or does nothing
(`Refuse`). Its only exception is `Clobber`: a request in `overtaken`, whose
dashboard was written after it was read, may do anything to that one dashboard.
The mapping takes lists of cells to sets and says who is overtaken.

### `Annotations` and `AnnotationMap`

`points` is the measurement, by what InfluxDB knows a point by: its tags, of which
the id is one, and its time, the end of the annotation. `clock` is `time.Now` in
the order of the writes, `given` the ids generated, `reqs` the requests. A write
may fail, or be done and answered with an error (`Outcomes`).

| Code | Actions |
|---|---|
| `NewAnnotation`, `AnnotationStore.Add` | `Arrive`, `Add` |
| `UpdateAnnotation`, `AnnotationStore.Update` | `Arrive`, `Get`, `GetOld`, `Update`, and `Delete` for the tombstone of the old point |
| `RemoveAnnotation`, `AnnotationStore.Delete` | `Arrive`, `Get`, `Delete` |
| `All`, `Get`, `influxResults.Annotations` | `Listed`, `Found`, `Latest` |

`AnnotationMap` is a map from ids to annotations in which each request takes
effect in one step (`Add`, `Change`, `Remove`) or not at all. Nothing is promised of
an id that is `spoiled`: two requests met on it, its tags were changed without its
time (no tombstone is written then, see Findings), or a write of its update failed
halfway.

### `StartUp`

`file` is the database with what the migrations look at, `backups` the files of
`backup/`, `pc` where the process is, `proc` what it has in memory. `starts` and
`faults` bound; `unmarked` (starts that rewrote queries, or failed to, without
marking it) and `served` (what the last server left) are history. Any version may
be started over what any other left.

| Code | Actions |
|---|---|
| `Client.Open`, `backup`, `copy` | `Open`, `SkipBackup`, `BeginBackup`, `Copy` |
| `initialize`, `OrganizationsStore.CreateDefault` | `Initialize`, `CreateDefault` |
| `Migrate` of the stores | `MigrateSources`, `MigrateServers`, `AddIDs`, `MigrateDashboards`, `MigrateConfig`, `MigrateBuild` |
| `changeIntervalToDuration`, `Migration.Migrate` (`bolt/base.go`) | `Up`, `SkipUp`, `MarkMigrationAsComplete` |
| serving, and the end of it | `Save`, `Stop` |
| the process dies or a call ends it; a row cannot be written and the error is dropped | `Crash`; `GiveUp` |

### `LogsViewer`

`page` is the component (mounted, live, timer, how far the table has asked), `store`
what is asked for and `shown` what is shown in `state.logs`, `count` its
`queryCount`, `flight` the requests without an answer, `now` the last line of the
log. `acts` and `fails` bound. `seq`, `applied` and `latest` are history: the turn in
which a request was sent, the one whose answer each slot shows, and the latest
one that came back; so is `whole` in `shown`, which says that each answer put into
a half of the table met what was there.

| Code | Actions |
|---|---|
| `componentDidMount`, `componentWillUnmount`, `handleInterval` | `Mount`, `Unmount`, `Tick` |
| search, filters; window and its bounds | `ChangeTerm`; `SetTimeWindow` |
| time selectors, live status | `ChooseCustomTime`, `ChooseRelativeTime`, `Pause`, `Play` |
| `handleChooseNamespace`, `handleChooseSource` | `ChooseNamespace`, `ChooseSource` |
| `loadMoreAboveRows`, `loadMoreBelowRows` (`LogsTable.tsx`) | `LoadMoreAbove`, `LoadMoreBelow` |
| the thunks' answers with the reducers of `logs/reducers` | `Answer`: `SetData`, `PrependMoreLogs`, `ConcatMoreLogs`, `SetSource`, `SetNamespaces`, `Fail` |
| the log (external) | `Grow` |

## Runs

| Run | Instance | Shows |
|---|---|---|
| `MCSourceStoreConc` | two requests, two organizations, a crash or failing transaction anywhere while serving, fair | `AtMostOneDefault`, `AtMostOneActive`, `NoResurrection`, `CascadeEnds` in every interleaving, with the type invariant |
| `MCSourceStoreSeq` | one request at a time, two organizations, one flag source, crashes while starting, fair | `NothingOfDeletedOrg`, `FlagSourceOnce`, `DefaultKept`, `ServersGoWithSource` |
| `MCAccountsSeq` | one request at a time, four in all, one super admin at the start | `OneRolePerOrg`, `UniqueKeys`, `NothingOfDeletedOrg`, `UpdateKeepsSuper`, `FirstUserIsSuper`, `ScopedWrites`, with the type invariant |
| `MCAccountsConc` | two at a time, three in all, crashes | `DefaultOrgKept`, `IdentityFixed` |
| `MCAccountsLocked` | two at a time, four in all, three organizations, no super admin | `NoSuperFromNowhere`, `TenantIsolation` |
| `MCKapaPagination` | three workers, four pages of which the last is short, up to three failures, fair | `NeverPanics`, `OnlyFailedPagesMissing`, `Returns`, `GeneratorEnds` |
| `MCSession` | two requests in flight, lifespans of none, three and six ticks, inactivity of four | `NoLongerThanLifespan`, `NotAfterInactivity`, `UsedSessionGoesOn` |
| `MCDashboards` | two at a time, three in all, two organizations, one dashboard | `CellIdsDistinct`; `MakesEdits`: the handlers implement `DashboardEdits` |
| `MCAnnotations` | two at a time, one annotation, two times, two tags, four writes that may fail | `ListsAgree`; `IsMap`: the points implement `AnnotationMap` |
| `MCAnnotationsDelete` | one at a time, five writes that do not fail | a violation of `DeleteRemoves`, see Findings |
| `MCStartUp` | three starts of three versions, two faults, an old or no file, fair | `ServedIsMigrated`, `RewrittenOnce`, `BackedUp`, `StartEnds` |
| `MCLogsViewer` | two acts of user and timer, two sources, a log of up to three lines, one failure | `CountsQueries`, `TimerOnlyWhileLive`, `NamespacesOfSource`, `ShownIsAsked`, `TableInOrder` |

### Bounds

- `SourceStore`: `MaxSources` and `MaxServers` bound what is *asked for*; one more
  row arises from two requests that both found room. So in the concurrent run two
  sources can compete for the default though the bound is one. Rows interact in
  pairs (two defaults, an heir of the one deleted), and ids are never reused; the
  run of one request at a time has three sources, so that the deleted default
  leaves a choice of heirs. `--new-sources` names one source there: the question is
  whether a later start adds it again.
- `Accounts`: `MaxOrgs`, `MaxUsers`, `MaxMappings` bound the sequences; past them
  the transaction fails, as it does when the disk is full (`Full`). `MaxRequests`
  bounds a behaviour: four requests reach a user added, raised, and demoted or
  removed by another, and an organization created, joined and deleted.
- `KapaPagination`: three workers and four pages let a worker be ahead, behind and
  dead at once while the queue is full; `MaxFailed` lets all of them die.
- `Session`: one lifespan is longer than the inactivity, one is shorter, so that
  half of it takes its place, and one is none; the clock runs to twice the
  inactivity, past each of the lifespans. Two ticks a second make every rounding down lose time.
- `Dashboards`: a lost edit needs one dashboard and two requests on it; the third
  request creates the dashboard, or shows what the lost edit left. Two ids are
  enough for one cell of the body and one that is added.
- `Annotations`: an annotation is a thing of its own: no query or write mixes ids.
  Four writes are one add, an update with its tombstone and one more write that
  races with it.
- `StartUp`: three versions, because the backup that could be lost is that of the
  first when the third starts over what the second left unfinished. Two dashboards
  let one be new and one old; rows of other kinds are only migrated, one of each.
- `LogsViewer`: two acts on a page that is new or at rest put two questions in
  flight, whose answers then come in any order; each can cause further ones. One
  source has two databases, the other lacks the preferred one. Two lines in an
  answer and three in the log give the table two ends to load, and answers that
  share a line with what is there. One of the times to jump to may be yet to come,
  which gives a half that is not `whole`. A load that is overtaken by another takes
  three acts: no run reaches it, the theorem on `TableInOrder` covers it.

Two requests are enough for a stale read against a write; the theorems below carry
what matters to any number. Requests, workers, ends, tags and search terms are
interchangeable, so runs without liveness use symmetry where it pays. Checking for
deadlock is off where a behaviour really ends: no request, start, act, write or
tick is left, or the call has returned and its goroutines with it.

### Fairness

- `SourceStore`: a handler or the start-up that is running is run on by the Go
  scheduler (`WF(BootStep)`, `WF(Step(s))`). No request is ever owed, nor a crash,
  nor a failing transaction. `CascadeEnds` looks at one slot: slots are
  interchangeable.
- `KapaPagination`: a goroutine that can go on does, and Kapacitor answers or fails
  in the end; which of the two is not owed.
- `StartUp`: the process takes its next step (`WF(Start)`). Nobody owes a start,
  what users save, or the end of a server.

The other modules have no liveness: what must happen in the end there is up to a
client, a browser or another service.

## Proofs

| Theorem | Module | Says |
|---|---|---|
| `TypeCorrect` | the proofs of `SourceStore`, `Accounts`, `KapaPagination`, `Dashboards` and `StartUp` | `Spec => []TypeOK` |
| `DefaultIsUnique` | `SourceStoreProofs` | never two default sources |
| `ActiveIsUnique` | `SourceStoreProofs` | never two active servers |
| `NothingRevived` | `SourceStoreProofs` | no update brings a deleted row back |
| `FlagSourcesOnce` | `SourceStoreProofs` | `--new-sources` adds nothing twice, if no crash comes while serving |
| `NothingLeft` | `SourceStoreProofs` | the cascade leaves nothing, for one request at a time and no crash while serving |
| `DefaultStays` | `SourceStoreProofs` | adds and deletes keep a default, for one request at a time |
| `DefaultOrgStays` | `AccountsProofs` | the default organization stays |
| `IdentityIsFixed` | `AccountsProofs` | an id stands for one person for ever |
| `SupersFromSupers` | `AccountsProofs` | no super admin where there was none |
| `TenantsAreIsolated` | `AccountsProofs` | the admins of other organizations give no role with a closed one |
| `UpdatesKeepSuper` | `AccountsProofs` | no update demotes the last super admin, for one request at a time |
| `FirstUserSuper` | `AccountsProofs` | the first user is a super admin, for one request at a time |
| `WritesAreScoped` | `AccountsProofs` | a Put for one organization keeps the roles with the others, for one request at a time |
| `OneRoleEach` | `AccountsProofs` | nobody gets two roles with one organization, for one request at a time and if nobody has two at the start |
| `KeysAreUnique` | `AccountsProofs` | people and organization names stay unique, for one request at a time and if they are at the start |
| `DeletedOrgsLeaveNothing` | `AccountsProofs` | no role and no mapping is left of a deleted organization, for one request at a time, without a crash, and if none is at the start |
| `ChannelsAreSafe` | `KapaPaginationProofs` | no channel closed twice or used after its close |
| `ListIsComplete` | `KapaPaginationProofs` | every task once, but for failed pages |
| `ServedWithinLifespan` | `SessionProofs` | no session is served longer than its lifespan |
| `ServedWhileActive` | `SessionProofs` | none is served after the inactivity |
| `UsedSessionIsServed` | `SessionProofs` | one in use is served while it can be extended |
| `ListsShowTheLatest` | `AnnotationsProofs` | no list shows an earlier version |
| `CellsHaveTheirIds` | `DashboardsProofs` | a stored cell has an id of its own, whoever overwrites whom |
| `DashboardsAreEdited` | `DashboardsProofs` | `Dashboards` implements `DashboardEdits` |
| `AnnotationsAreAMap` | `AnnotationsProofs` | `Annotations` implements `AnnotationMap` |
| `MigratedWhenServing` | `StartUpProofs` | what is served is migrated |
| `RewrittenOnceAMark` | `StartUpProofs` | queries are wrapped once, and once more per unmarked start |
| `BackedUpBeforeServing` | `StartUpProofs` | the version that was left has its backup |
| `TimerStops` | `LogsViewerProofs` | the timer runs only while the page is live |
| `CounterIsRight` | `LogsViewerProofs` | the counter is the number of queries under way |
| `ListedForSource` | `LogsViewerProofs` | the databases offered are those of the source |
| `ShownAnswersAsked` | `LogsViewerProofs` | what is shown answers what is asked |
| `TableIsInOrder` | `LogsViewerProofs` | the table has each line once, in order, if every load met the end it was asked from |

They hold for every value of the constants that satisfies the module's
assumption (`SourceStoreAssumption`, `AccountsAssumption`, `KapaAssumption`,
`SessionAssumption`, `DashboardsAssumption`, `AnnotationsAssumption`,
`StartUpAssumption`, `LogsViewerAssumption`), for any number of concurrent requests, with and without
crashes, and from any database, unless the table says otherwise; those restrictions
are hypotheses of the theorems (`Slots = {s}`, `~Faults`, `"serving" \notin Faults`,
what the database at start has). They are what the code relies on and cannot do
without: each property of one request at a time has an interleaving that breaks it
(*Known divergences*), a crash ends a cascade halfway, and no store repairs a
database that was wrong before.

`SourceStoreProofs`. The invariant is the type invariant with the two uniqueness
properties. It is inductive because the reset of the flag and the Put share a
transaction: lemmas say what `StoreSource`, `StoreServer` and `DeleteSource`
return, and steps that leave the buckets alone have only the type of their
request record to answer for. That ids are at most the sequence makes the key of
an Add new, which is also why nothing is revived. `FlagInv` says that before the
first serving every source is of the default organization and has its name alone;
`Listening`, that nobody asks for anything before. `CascadeInv` says which rows may
still belong to the organization that the one request deletes: those it has yet to
list, then those on its list. `DefaultStays` needs that the one request's Add
carries the default flag if there is no source.

`AccountsProofs`. `DefaultOrgKept` needs that no request that has begun will
delete the default organization: `SparesInv` says so of every request record that
can lead to `dropOrg` (the removal itself, and `NewOrganization`, whose clean-up
deletes what it added: `AddOrg` takes a new id, which is never 0). `IdentityFixed`
needs that a stale whole-user Put carries the person its id always had:
`OwnersInv` says that one assignment of people to ids agrees with the bucket and
with every record that holds an id and a user, on ids the sequence has issued.
Neither property is inductive without these, as the records carry what was read
in earlier transactions. The other two are further inductions under `Locked`.
`PlainInv`: no user, no record and not the configuration has the flag, and there is
a user, so that nobody who logs in is the first. `FencedInv`: every user has, with a
closed organization, the roles it had at the start or none; no request is
authorized for a closed organization, nor holds a role with one that it could add
or merge; no mapping leads to one, since without a super admin nobody writes one.

The theorems about one request at a time are about a handler that reads in one
transaction and writes in a later one: none of the properties is inductive without
what the request has read being still true. `Origins` and `RoleOrigins` say for
every place a request can be at which steps lead there, which of them write a
bucket, and what the user to be written is made of; each proof then needs a step
for the few places its invariant speaks of. `Backed` (the request's user is
there and still has its flag; a database without users gets a super admin; the user
to be written is one, or is not the last) gives `UpdatesKeepSuper` and
`FirstUserSuper`, with `StepSupers`. `Narrow` (what is added or written differs from
the bucket only inside the request's scope) gives `WritesAreScoped`. `Single` (nor
has it two roles with one organization) rests on `Narrow`: roles are joined only
where one side has none, because the facade looks first (`FindUser`, `JoinFind`,
`Switch`). `Free` (a name or person that was looked up is still not taken) gives
`KeysAreUnique`, with `OwnersInv` for the Puts. `LeftState` says which roles and
mappings may be of an organization that is gone: those of the organization that the
request is deleting, of the users it has not come to and the mappings it has not
dropped (`CascadeGoesOn` shows that it forgets none); everything else that a request
holds is of organizations that exist (`Grounded`). TLC checked all five as invariants
on the instance of `MCAccountsSeq`, and on one whose database starts with two
organizations, two users and a mapping.

`KapaPaginationProofs`. The invariant says where a task is: `HandedOut`,
`NotYetHandedOut` and `OnePlace` — before the next offset a task is in exactly one
of the list, a worker's hands, the queue and the failed pages; from the next
offset on it is in none. `EndSeen` adds that who has seen an empty page proves
that all tasks are handed out, and `Shutdown` the order in which the goroutines
end. When the call has returned the queue is empty and the workers have ended,
which leaves the list and the failed pages.

`SessionProofs`. `TokenInv` says of every token, in the cookie, in a request or on
its way back: it was issued in the second of its `start`, and expires in the second
of its last use plus the inactivity. The rest is arithmetic of whole seconds
(`SecondInOrder`, `TokenTimes`): what rounding can cost is less than one second,
the `TicksPerSecond` of the properties.

`DashboardsProofs`. `Inv` says that what is stored and what a request has read is
`Sound` for the ids made so far: every item has one of them, or a client's for a
template, and no two share it. It is inductive because `IDs.Generate` counts:
lemmas on lists (`WithIdsIs`, `AppendIs`, `RemoveIs`, `ReplaceIs`) say that the ids
stay distinct, and what the list becomes as a set. A dashboard that was read long
ago stays `Sound` as more ids are made, so writing it back is harmless to the ids.
The same lemmas show in `WriteIs` that what a request writes is the edit it asked
for, of the dashboard it read; the refinement adds that this is the dashboard that
is stored, unless the request is in `Overtaken`, and that only a write to its
dashboard puts it there. `AddMakesOne` is where `DashboardsAssumption` is needed: a
generated id is none that a client has made up.

`AnnotationsProofs`. Both theorems follow from `SettledInv`. Of an id that is not
spoiled it says: at most one request is at work on it; it has at most one live
point, unless an update is halfway, when it has the new one and the old one whose
tombstone is due; and what that request has read still holds. So the latest point
is the only one, the first write of an update is its effect, and its tombstone
changes nothing. For the refinement each action is shown to be `Ask`, `Answer`,
`Effect`, `Muddle` or a stutter under the mapping.

`StartUpProofs`. `FileInv` and `RowsInv` say what each position of a start
guarantees, for each row that its loop has passed, whatever earlier starts did;
`WrapsInv` counts wrappings against the mark and the unmarked starts; `BackupInv`
says that once the file names another version than the one that served last, the
backup of that one is whole, and that the code that writes it is not reached again
while it does.

`LogsViewerProofs`. A first lemma reduces what user and timer do to one kind of step
(`UserAct`), which shows that the page and the store change and that the queries
for the new question go out with a new turn. `CountInv` is the counter;
`TurnInv` orders turns: what was applied is at most what came back, which is at
most what was sent. `SourceInv` and `NamespacesInv` say of the latest listing under
way, or the last one back, that it is for the source that is chosen;
`ShownInv` says the same of queries and the question: the latest request of a slot
asks what the store asks, on its way or shown.

`OrderInv` is for the table. What was put into the halves, or is on its way to
replace them, was sent for in one turn and from one time (`OneTurn`, `OneTime`), and
by the counter nothing is loaded while such a query is under way (`LoadsApart`). Of
two halves sent for together the first one there ends at the time from which the
other is asked (`BelowWaits`, `AboveWaits`), so they meet (`HalvesMeet`) and, as loads
only touch the outer ends, go on meeting. A load that does not meet its end makes its
half one that is not `whole`, of which nothing is said. Lists of consecutive times
are stated by their first line and length, and what `Without` leaves of one is found
by counting positions (`WithoutFirst`, `WithoutIsList`), so that no induction over
lists is needed. TLC checked `OrderInv` for one source, two lines in an answer and
four in the log.

Only model-checked: all liveness (`ServersGoWithSource`, `CascadeEnds`, `Returns`,
`GeneratorEnds`, `StartEnds`), which is out of the proof system's reach. Every
other property of a passing run has a theorem.

## Findings

- `MCAnnotationsDelete`: `influx/annotations.go:89` says that "Delete removes the
  annotation from the store". The tags of an annotation are tags of its point
  (`:146-153`). An update that changes them and not the end time writes a second
  live point, and no tombstone (`:107`); a delete then puts its tombstone over the
  latest point only, and the earlier version of the annotation is back.

## Known divergences

Disagreements of code and comments that the properties leave room for, without a
run of their own.

- `chronograf.go:370` says that `Active` is per source; `bolt/servers.go:75` resets
  the whole bucket, so adding a server to one source takes the flag from the
  active server of another. `AtMostOneActive` states what the code does.
- `server/auth.go:203-204` says that a user never has two roles with one
  organization; two `UpdateMe` of one super admin at a time give two, as each
  finds the role missing before either adds it (`server/me.go:165`).
- `kapacitor/kapa_client.go:31-32` says that `ListTasks` returns all tasks; a fetch
  that fails is dropped (`:79`), and the list is shorter without an error.
- `oauth2/cookies.go:32-35` says that the inactivity must be less than the
  lifespan, and that a token can be refreshed once; an auth-duration that equals the
  inactivity is let through, and the first token that is extended a whole second
  after its issue is longer than the lifespan allows, so it is refused.
  `ExtendableUntil` in `UsedSessionGoesOn` makes room for it.
- `ui/src/logs/components/LogsTable.tsx:341,367` say "Prevent multiple queries at the
  same time" of the guard on `queryCount`; that counts the three queries and not the
  loads of more rows (`ui/src/logs/actions/index.ts:613-708`), so loads overlap, and
  one that is overtaken by another leaves lines of the table out of order. `whole` in
  `TableInOrder` makes room for it.

## Known windows

Behaviours the models allow, of which no document or test of the repository says
otherwise; properties are stated so that they hold, and these are why some of them
are stated for one request at a time.

Sources and servers:

- `SourcesStore.Add` decides whether the source is the first before its own
  transaction (`bolt/sources.go:72`): if the only other source is deleted in
  between, the one source there is is not the default.
- A kapacitor is added to a source that was removed after the check
  (`server/kapacitors.go:72`), and stays behind.
- The facade deletes a source by id whatever its organization; `removeSrcsKapa`
  then sees only the servers of the request's organization, and those of the
  source's own stay behind. So do servers when the process dies between the two.
- Two deletes of one organization's rows meet: the cascade stops at the first row
  that is gone, and the rest keeps the id of the deleted organization. The same
  happens to a source, role or mapping added by a request accepted before.
- The process dies between a source of `--new-sources` and its kapacitor: the next
  start finds the source and never adds the kapacitor.

Accounts:

- Two Adds of one user, or of one organization name, both find that it is free
  (`bolt/users.go:125`).
- A facade's Update writes back the whole user it read: a change of the user's
  other roles or flag in between is lost (`organizations/users.go:230`), and a
  user removed in between is back; `ScopedWrites` fails.
- Two super admins who demote each other may both succeed, and `UpdateKeepsSuper`
  fails: each is authorized before the other's update is stored.
- Whether there is a user at all is asked before the Add of the first one
  (`server/me.go:344`): if the last one is removed in between, and the
  configuration does not make new users super admins, nobody is one.
- `UpdateOrganization` writes back an organization deleted in between
  (`bolt/organizations.go:296`).
- An update of a mapping takes the id of the body (`bolt/mapping.go:119`) and may
  write one that does not exist yet: a later Add, whose sequence comes to that id,
  overwrites it.
- A super admin may remove itself (`server/users.go:228`); an update of its own
  flag is refused. `UpdateKeepsSuper` is about updates.

Kapacitor's tasks: tasks that are added or deleted while pages are fetched, four at
a time and in any order, shift the others: one may be missed or be there twice
(`kapacitor/kapa_client.go:92`).

Sessions: the answer to a logout, or to a switch of organization, may be overtaken
by that of another request, whose cookie brings the old session or organization
back. Nothing on the server ends a session before its time.

Dashboards: of two overlapping edits of one dashboard the first to be written may
be lost (`server/cells.go:244`). `MakesEdits` says that this is all that can
happen, and only to the dashboard that the overtaken request names.

Annotations: an annotation that was spoiled (see `AnnotationMap`) may be listed in
an earlier version, or come back after its delete.

Start-up:

- A start that dies between the rewriting of queries and its mark makes the next one
  rewrite them again: `:interval:` is wrapped twice, and fields that the frozen
  schema does not know, put there meanwhile, are dropped.
- Migrations of rows precede the record of the version: when a start dies in
  between, the next one backs up the partly migrated file over the good copy.
  `BackedUp` says that the rows and the queries are whole.

The logs viewer:

- Play (`handleChangeLiveUpdatingStatus`) sets the page live and never starts the
  timer again.
- The guard against asking twice for older rows compares with the last time asked:
  after a jump to a later time, rows below it are not loaded.
- A line may be in both halves of the table where they meet.
- An older answer that comes later overwrites a newer one, until something is asked
  again. `Settled` in the properties makes room for it.

## Not modelled

In the modelled parts: the mode without authentication, in which every request
uses the raw stores; requests that ask for roles with several organizations at
once; InfluxDB's own users and roles and Kapacitor's rules, which handlers pass
through; names and other fields that no handler decides by; what a cell holds, and
its place on the grid; configuration of the logs viewer's columns, and its
rendering. Kapacitor's list does not change while it is paged through. Requests of
super admins see every route, those of others the routes of an admin; routes of
editors and viewers change no users and are left out. A handler of the logs viewer
that sends one query several times sends it once in the model. Providers of
sign-in are calls that succeed or fail; signatures are good.

Kapacitor task updates (`kapacitor/client.go`). The state is another service's, and
the code keeps none of its own. `Update` reads the status of the task (`:311`),
writes the script with the task disabled, and enables it again (`:333`) only if it
had been enabled. So a failure after the disabling leaves the rule disabled, and the
status to restore is forgotten; the second of two overlapping updates may read the
disabled status of the first and leave the rule disabled; and the answer of a
successful update still shows the task as disabled.
Hazards in PROJECT.json name the lines.

Layered stores (`multistore/`, `memdb/`, `filestore/`) try one store after the
other; of these bolt is modelled. Enterprise (`enterprise/`) updates a role by a
revoke and an add with nothing kept in between. The dashboards and cells of v2 are
read and written back like those of `Dashboards`, behind routes that the UI of this
commit does not use. The organization configuration is one find-or-create
transaction and one put. TICKscript generation and the rewriting of queries are
text to text; the InfluxDB client, the proxies and the providers pass calls on. The
auto refresh of time series is the pattern of `LogsViewer` over one query; the
remaining pages of the UI render.
