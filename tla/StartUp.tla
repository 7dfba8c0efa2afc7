------------------------------- MODULE StartUp -------------------------------
(***************************************************************************)
(* The start of a server over its database (bolt/client.go, base.go,       *)
(* build.go, change_interval_to_duration.go and the Migrate of each        *)
(* store): open the file, back it up when the version has changed, create  *)
(* what is missing, bring rows of earlier versions up to date, remember    *)
(* the version, rewrite the queries of the dashboards once, and serve.     *)
(* Every change of the file is a transaction of its own, and the process   *)
(* may die between any two.                                                *)
(*                                                                         *)
(* Of a row is kept what a migration looks at: whether it has an           *)
(* organization, whether its cells have ids, how often :interval: was      *)
(* wrapped in its queries, and whether it has data in the fields that the  *)
(* frozen schema of the rewriting does not know.                           *)
(***************************************************************************)
EXTENDS Naturals, FiniteSets, Functions

CONSTANTS
    Versions,     \* versions of the program that may be started
    PreBuild,     \* "pre-1.4.0.0": no version is recorded
    Sources,      \* rows in the bucket of sources
    Servers,      \* rows in the bucket of servers
    Dashboards,   \* rows in the bucket of dashboards
    MaxFaults,    \* bound on crashes and failing calls
    MaxStarts     \* bound on starts

Rows == Sources \cup Servers \cup Dashboards

ASSUME StartUpAssumption ==
    /\ PreBuild \notin Versions
    /\ Sources \cap Servers = {} /\ Dashboards \cap (Sources \cup Servers) = {}
    /\ MaxFaults \in Nat /\ MaxStarts \in Nat

VARIABLES
    file,      \* the database
    backups,   \* the files in backup/, by the version they are of
    pc,        \* where the process is, "off" when there is none
    proc,      \* what it knows: its version, whether the file is new, rows to do
    starts,    \* how often it was started
    faults,    \* how often it crashed or a call failed
    unmarked,  \* history: how often a start ended with the rewriting not marked
    served     \* history: the rows the last server left, and its version

vars == <<file, backups, pc, proc, starts, faults, unmarked, served>>

-----------------------------------------------------------------------------
\* wraps counts how often time(...) was put around :interval:, newer tells
\* about the fields that an earlier version did not have.
Row == [org : BOOLEAN, ids : BOOLEAN, wraps : Nat, newer : {"none", "kept", "lost"}]
Old == [org |-> FALSE, ids |-> FALSE, wraps |-> 0, newer |-> "none"]
New == [org |-> TRUE, ids |-> TRUE, wraps |-> 1, newer |-> "kept"]

IsTable(rows) == DOMAIN rows \subseteq Rows /\ \A r \in DOMAIN rows : rows[r] \in Row

IsFile(f) ==
  /\ DOMAIN f = {"exists", "buckets", "build", "defaultOrg", "config", "marked", "rows"}
  /\ {f.exists, f.buckets, f.defaultOrg, f.config, f.marked} \subseteq BOOLEAN
  /\ f.build \in Versions \cup {PreBuild}
  /\ IsTable(f.rows)

NoFile == [exists |-> FALSE, buckets |-> FALSE, build |-> PreBuild, defaultOrg |-> FALSE,
           config |-> FALSE, marked |-> FALSE, rows |-> << >>]

Has(S) == S \cap DOMAIN file.rows

Off == [version |-> PreBuild, isNew |-> FALSE, todo |-> {}, slipped |-> FALSE]

\* There is no file, or one that a version before 1.4 has left.
Init ==
  /\ file \in {NoFile, [NoFile EXCEPT !.exists = TRUE, !.rows = [r \in Rows |-> Old]]}
  /\ backups = << >>
  /\ pc = "off" /\ proc = Off
  /\ starts = 0 /\ faults = 0 /\ unmarked = 0
  /\ served = [version |-> PreBuild, rows |-> file.rows]

Hist == <<unmarked, served>>
Bounds == <<starts, faults>>

-----------------------------------------------------------------------------
\* Open: is the file there? Then open it, which creates it.
Open ==
  /\ pc = "off" /\ starts < MaxStarts
  /\ starts' = starts + 1
  /\ \E v \in Versions : proc' = [Off EXCEPT !.version = v, !.isNew = ~file.exists]
  /\ file' = [file EXCEPT !.exists = TRUE]
  /\ pc' = "backup"
  /\ UNCHANGED <<backups, faults, Hist>>

Step(from, to) == pc = from /\ pc' = to

\* Mutant: a backup that is there is taken for a whole one.
NeedsNoBackupOnce ==
  file.build = proc.version \/ proc.isNew \/ file.build \in DOMAIN backups

\* backup: the same version, or a fresh install, needs none.
NeedsNoBackup == file.build = proc.version \/ proc.isNew

SkipBackup ==
  /\ NeedsNoBackup
  /\ Step("backup", "initialize")
  /\ UNCHANGED <<file, backups, proc, Bounds, Hist>>

\* copy: the file in backup/ is opened, or made, and written over.
BeginBackup ==
  /\ ~NeedsNoBackup
  /\ Step("backup", "copy")
  /\ backups' = [b \in DOMAIN backups \cup {file.build} |->
                   IF b = file.build THEN [complete |-> FALSE, rows |-> << >>] ELSE backups[b]]
  /\ UNCHANGED <<file, proc, Bounds, Hist>>

Copy ==
  /\ Step("copy", "initialize")
  /\ backups' = [backups EXCEPT ![file.build] = [complete |-> TRUE, rows |-> file.rows]]
  /\ UNCHANGED <<file, proc, Bounds, Hist>>

\* initialize: one transaction for all buckets.
Initialize ==
  /\ Step("initialize", "organizations")
  /\ file' = [file EXCEPT !.buckets = TRUE]
  /\ UNCHANGED <<backups, proc, Bounds, Hist>>

\* OrganizationsStore.CreateDefault; then SourcesStore.All.
CreateDefault ==
  /\ Step("organizations", "sources")
  /\ file' = [file EXCEPT !.defaultOrg = TRUE]
  /\ proc' = [proc EXCEPT !.todo = Has(Sources)]
  /\ UNCHANGED <<backups, Bounds, Hist>>

\* What a migration puts into a row: its organization, or ids for its cells.
Migrated(row, field) ==
  CASE field = "org" -> [row EXCEPT !.org = TRUE]
    [] field = "ids" -> [row EXCEPT !.ids = TRUE]

\* The loops over rows: one transaction for each row that needs it, and on to
\* the next store when none is left.
NextRow(at, field) ==
  /\ pc = at
  /\ \E r \in proc.todo :
       /\ file' = [file EXCEPT !.rows = [file.rows EXCEPT ![r] = Migrated(file.rows[r], field)]]
       /\ proc' = [proc EXCEPT !.todo = @ \ {r}]
  /\ UNCHANGED <<backups, pc, Bounds, Hist>>

LastRow(at, to, todo) ==
  /\ Step(at, to)
  /\ proc.todo = {}
  /\ proc' = [proc EXCEPT !.todo = todo]
  /\ UNCHANGED <<file, backups, Bounds, Hist>>

\* Mutant: rows are looked at only when the version has changed.
WithoutOrgChanged(S) ==
  IF file.build = proc.version THEN {} ELSE {r \in Has(S) : ~file.rows[r].org}

WithoutOrg(S) == {r \in Has(S) : ~file.rows[r].org}
WithoutIds(S) == {r \in Has(S) : ~file.rows[r].ids}

\* Mutant: a source that was written is looked at again.
MigrateSourcesAgain ==
  \/ /\ pc = "sources"
     /\ \E r \in proc.todo : file' = [file EXCEPT !.rows[r].org = TRUE]
     /\ UNCHANGED <<backups, pc, proc, Bounds, Hist>>
  \/ LastRow("sources", "servers", WithoutOrg(Servers))

\* SourcesStore.Migrate writes every source, ServersStore.Migrate those without
\* an organization, DashboardsStore.Migrate those that lack ids and then those
\* without an organization.
MigrateSources == NextRow("sources", "org") \/ LastRow("sources", "servers", WithoutOrg(Servers))
MigrateServers == NextRow("servers", "org") \/ LastRow("servers", "ids", WithoutIds(Dashboards))
AddIDs == NextRow("ids", "ids") \/ LastRow("ids", "dashboards", WithoutOrg(Dashboards))
MigrateDashboards == NextRow("dashboards", "org") \/ LastRow("dashboards", "config", {})

\* ConfigStore.Migrate.
MigrateConfig ==
  /\ Step("config", "build")
  /\ file' = [file EXCEPT !.config = TRUE]
  /\ UNCHANGED <<backups, proc, Bounds, Hist>>

\* BuildStore.Migrate.
MigrateBuild ==
  /\ Step("build", "up")
  /\ file' = [file EXCEPT !.build = proc.version]
  /\ UNCHANGED <<backups, proc, Bounds, Hist>>

\* Mutant: the mark is not looked at.
IsMigrationNeverComplete == FALSE

IsMigrationComplete == file.marked

\* up of changeIntervalToDuration: all dashboards in one transaction, read and
\* written with the schema of its time.
Rewritten(row) ==
  [row EXCEPT !.wraps = @ + 1, !.newer = IF @ = "kept" THEN "lost" ELSE @]

Up ==
  /\ ~IsMigrationComplete
  /\ Step("up", "mark")
  /\ file' = [file EXCEPT !.rows =
       [r \in DOMAIN file.rows |-> IF r \in Dashboards THEN Rewritten(file.rows[r])
                                   ELSE file.rows[r]]]
  /\ UNCHANGED <<backups, proc, Bounds, Hist>>

SkipUp ==
  /\ IsMigrationComplete
  /\ Step("up", "serving")
  /\ UNCHANGED <<file, backups, proc, Bounds, Hist>>

MarkMigrationAsComplete ==
  /\ Step("mark", "serving")
  /\ file' = [file EXCEPT !.marked = TRUE]
  /\ UNCHANGED <<backups, proc, Bounds, Hist>>

-----------------------------------------------------------------------------
\* While it serves, users add rows, and put data into the newer fields of
\* dashboards.
Saved(r) ==
  IF r \in DOMAIN file.rows THEN [file.rows[r] EXCEPT !.newer = "kept"] ELSE New

Save ==
  /\ pc = "serving"
  /\ \E r \in Dashboards \cup (Rows \ DOMAIN file.rows) :
       file' = [file EXCEPT !.rows =
         [q \in DOMAIN file.rows \cup {r} |-> IF q = r THEN Saved(r) ELSE file.rows[q]]]
  /\ UNCHANGED <<backups, pc, proc, Bounds, Hist>>

Leaves == served' = IF pc = "serving" THEN [version |-> proc.version, rows |-> file.rows]
                    ELSE served

Stop ==
  /\ pc = "serving"
  /\ pc' = "off" /\ proc' = Off
  /\ Leaves
  /\ UNCHANGED <<file, backups, Bounds, unmarked>>

Fault == faults < MaxFaults /\ faults' = faults + 1

\* The process dies, or a call fails that ends the start (openService exits).
Crash ==
  /\ pc # "off" /\ Fault
  /\ pc' = "off" /\ proc' = Off
  /\ unmarked' = unmarked + (IF pc = "mark" THEN 1 ELSE 0)
  /\ Leaves
  /\ UNCHANGED <<file, backups, starts>>

\* A row cannot be written, and Migrate ends without an error; or MigrateAll
\* fails, whose error nobody looks at.
After(at) ==
  CASE at = "sources" -> "servers" [] at = "servers" -> "ids" [] at = "ids" -> "config"
    [] at = "dashboards" -> "config" [] at \in {"up", "mark"} -> "serving"

TodoAfter(at) ==
  CASE at = "sources" -> WithoutOrg(Servers) [] at = "servers" -> WithoutIds(Dashboards)
    [] OTHER -> {}

GiveUp ==
  /\ pc \in {"up", "mark"} \/ proc.todo # {}
  /\ pc = "up" => ~IsMigrationComplete
  /\ Fault
  /\ pc' = After(pc)
  /\ proc' = [proc EXCEPT !.todo = TodoAfter(pc), !.slipped = TRUE]
  /\ unmarked' = unmarked + (IF pc \in {"up", "mark"} THEN 1 ELSE 0)
  /\ UNCHANGED <<file, backups, starts, served>>

Start ==
  \/ SkipBackup \/ BeginBackup \/ Copy \/ Initialize \/ CreateDefault
  \/ MigrateSources \/ MigrateServers \/ AddIDs \/ MigrateDashboards
  \/ MigrateConfig \/ MigrateBuild \/ Up \/ SkipUp \/ MarkMigrationAsComplete

Next == Open \/ Start \/ Save \/ Stop \/ Crash \/ GiveUp

Spec == Init /\ [][Next]_vars

\* The process takes its next step.
FairSpec == Spec /\ WF_vars(Start)

-----------------------------------------------------------------------------
TypeOK ==
  /\ IsFile(file)
  /\ DOMAIN backups \subseteq Versions \cup {PreBuild}
  /\ pc \in {"off", "backup", "copy", "initialize", "organizations", "sources", "servers",
             "ids", "dashboards", "config", "build", "up", "mark", "serving"}
  /\ proc \in [version : Versions \cup {PreBuild}, isNew : BOOLEAN, todo : SUBSET Rows,
              slipped : BOOLEAN]
  /\ proc.todo \subseteq DOMAIN file.rows
  /\ \A b \in DOMAIN backups : backups[b].complete \in BOOLEAN /\ IsTable(backups[b].rows)
  /\ served.version \in Versions \cup {PreBuild} /\ IsTable(served.rows)
  /\ unmarked \in 0..MaxFaults

\* A server that serves has brought every row up to date, however many starts
\* before it died or gave up on the way, unless it gave up itself.
ServedIsMigrated ==
  pc = "serving" /\ ~proc.slipped =>
    /\ file.buckets /\ file.defaultOrg /\ file.config /\ file.marked
    /\ \A r \in Has(Rows) : file.rows[r].org
    /\ \A r \in Has(Dashboards) : file.rows[r].ids /\ file.rows[r].wraps >= 1

\* The queries of a dashboard are rewritten once ("We don't want to run a state
\* transition twice", base.go), and once more for each start that rewrote them,
\* or failed to, and did not mark it. Nothing else loses what users have put
\* into the fields that the rewriting does not know.
RewrittenOnce ==
  \A r \in Has(Dashboards) :
     /\ file.rows[r].wraps <= 1 + unmarked
     /\ file.rows[r].newer = "lost" => unmarked > 0

\* Whoever serves what another version has left also has a complete backup of
\* that version, with every row and with the queries as they were, whatever
\* happened to the starts in between (CHANGELOG.md:320).
BackedUp ==
  pc = "serving" /\ proc.version # served.version /\ DOMAIN served.rows # {} =>
    /\ served.version \in DOMAIN backups
    /\ backups[served.version].complete
    /\ DOMAIN served.rows \subseteq DOMAIN backups[served.version].rows
    /\ unmarked = 0 => \A r \in DOMAIN served.rows :
         backups[served.version].rows[r].wraps = served.rows[r].wraps

\* A start that is under way ends: the server serves, or the process is gone.
StartEnds == pc = "backup" ~> pc \in {"serving", "off"}

=============================================================================
