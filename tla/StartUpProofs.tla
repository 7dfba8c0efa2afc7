---------------------------- MODULE StartUpProofs ----------------------------
(***************************************************************************)
(* Theorems about the start of a server: however often it is cut short,    *)
(* fails or is begun anew, a server that serves serves migrated rows, no   *)
(* query is rewritten more often than a start was left unmarked, and what  *)
(* another version has left is in a complete backup.                       *)
(***************************************************************************)
EXTENDS StartUp, TLAPS

-----------------------------------------------------------------------------
(* Type correctness.                                                       *)

Loops == {"sources", "servers", "ids", "dashboards"}

TypeInv ==
  /\ TypeOK
  /\ starts \in Nat /\ faults \in Nat /\ faults <= MaxFaults /\ unmarked <= faults
  /\ proc.todo # {} => pc \in Loops

\* What a migration writes is a row with no less in it than before.
LEMMA MigratedIsRow ==
  ASSUME NEW row \in Row, NEW field \in {"org", "ids"}
  PROVE  /\ Migrated(row, field) \in Row
         /\ Migrated(row, field).wraps = row.wraps
         /\ Migrated(row, field).newer = row.newer
         /\ row.org \/ field = "org" => Migrated(row, field).org
         /\ row.ids \/ field = "ids" => Migrated(row, field).ids
<1>1. CASE field = "org"
  BY <1>1 DEF Migrated, Row
<1>2. CASE field = "ids"
  BY <1>2 DEF Migrated, Row
<1> QED BY <1>1, <1>2

\* A loop over rows changes one row, which needs no more work, and nothing else.
LEMMA NextRowChanges ==
  ASSUME TypeInv, NEW at, NEW field \in {"org", "ids"}, NextRow(at, field)
  PROVE  \E r \in proc.todo :
           /\ pc = at
           /\ r \in DOMAIN file.rows
           /\ file'.exists = file.exists /\ file'.buckets = file.buckets
           /\ file'.build = file.build /\ file'.defaultOrg = file.defaultOrg
           /\ file'.config = file.config /\ file'.marked = file.marked
           /\ DOMAIN file'.rows = DOMAIN file.rows
           /\ \A q \in DOMAIN file.rows \ {r} : file'.rows[q] = file.rows[q]
           /\ file'.rows[r] = Migrated(file.rows[r], field)
           /\ proc' = [proc EXCEPT !.todo = proc.todo \ {r}]
           /\ DOMAIN file' = DOMAIN file
           /\ UNCHANGED <<backups, pc, unmarked, served>>
<1>1. PICK r \in proc.todo :
        /\ file' = [file EXCEPT !.rows = [file.rows EXCEPT ![r] = Migrated(file.rows[r], field)]]
        /\ proc' = [proc EXCEPT !.todo = proc.todo \ {r}]
  BY DEF NextRow
<1>2. r \in DOMAIN file.rows
  BY <1>1 DEF TypeInv, TypeOK
<1>3. /\ DOMAIN file' = DOMAIN file
      /\ file'.exists = file.exists /\ file'.buckets = file.buckets
      /\ file'.build = file.build /\ file'.defaultOrg = file.defaultOrg
      /\ file'.config = file.config /\ file'.marked = file.marked
      /\ file'.rows = [file.rows EXCEPT ![r] = Migrated(file.rows[r], field)]
  BY <1>1 DEF TypeInv, TypeOK, IsFile
<1>4. pc = at /\ UNCHANGED <<backups, pc, unmarked, served>>
  BY DEF NextRow, Hist
<1>5. /\ DOMAIN file'.rows = DOMAIN file.rows
      /\ \A q \in DOMAIN file.rows \ {r} : file'.rows[q] = file.rows[q]
      /\ file'.rows[r] = Migrated(file.rows[r], field)
  BY <1>2, <1>3
<1> QED BY <1>1, <1>2, <1>3, <1>4, <1>5

LEMMA TypeInit == Init => TypeInv
<1> SUFFICES ASSUME Init PROVE TypeInv
    OBVIOUS
<1> USE StartUpAssumption DEF Init, Loops
<1>1. file = NoFile \/ file = [NoFile EXCEPT !.exists = TRUE, !.rows = [r \in Rows |-> Old]]
    OBVIOUS
<1>2. IsFile(file)
  <2>1. CASE file = NoFile
    BY <2>1 DEF IsFile, IsTable, NoFile, Row
  <2>2. CASE file = [NoFile EXCEPT !.exists = TRUE, !.rows = [r \in Rows |-> Old]]
    BY <2>2 DEF IsFile, IsTable, NoFile, Row, Old
  <2> QED BY <1>1, <2>1, <2>2
<1> QED BY <1>2 DEF TypeInv, TypeOK, Off, IsFile, IsTable

LEMMA TypeStep == TypeInv /\ [Next]_vars => TypeInv'
<1> SUFFICES ASSUME TypeInv, [Next]_vars PROVE TypeInv'
    OBVIOUS
<1> USE StartUpAssumption DEF Loops
<1>1. CASE Open
  <2>1. IsFile(file')
    BY <1>1 DEF TypeInv, TypeOK, Open, IsFile
  <2>2. /\ file'.rows = file.rows
        /\ proc' \in [version : Versions \cup {PreBuild}, isNew : BOOLEAN, todo : SUBSET Rows,
                     slipped : BOOLEAN]
        /\ proc'.todo = {}
    BY <1>1 DEF TypeInv, TypeOK, Open, Off, IsFile
  <2> QED BY <1>1, <2>1, <2>2 DEF TypeInv, TypeOK, Open, Hist
<1>2. CASE SkipBackup
  BY <1>2 DEF TypeInv, TypeOK, SkipBackup, Step, Bounds, Hist
<1>3. CASE BeginBackup
  <2>1. IsTable(<< >>)
    BY DEF IsTable
  <2>2. \A b \in DOMAIN backups' : backups'[b].complete \in BOOLEAN /\ IsTable(backups'[b].rows)
    BY <1>3, <2>1 DEF TypeInv, TypeOK, BeginBackup
  <2> QED BY <1>3, <2>2 DEF TypeInv, TypeOK, BeginBackup, Step, Bounds, Hist, IsFile
<1>4. CASE Copy
  BY <1>4 DEF TypeInv, TypeOK, Copy, Step, Bounds, Hist, IsFile
<1>5. CASE Initialize \/ MigrateConfig
  BY <1>5 DEF TypeInv, TypeOK, Initialize, MigrateConfig, Step, Bounds, Hist, IsFile
<1>6. CASE CreateDefault
  BY <1>6 DEF TypeInv, TypeOK, CreateDefault, Step, Bounds, Hist, IsFile, Has, Rows
<1>7. ASSUME NEW at, NEW field \in {"org", "ids"}, NextRow(at, field)
      PROVE  TypeInv'
  <2>1. PICK r \in proc.todo :
           /\ r \in DOMAIN file.rows
           /\ file'.exists = file.exists /\ file'.buckets = file.buckets
           /\ file'.build = file.build /\ file'.defaultOrg = file.defaultOrg
           /\ file'.config = file.config /\ file'.marked = file.marked
           /\ DOMAIN file'.rows = DOMAIN file.rows
           /\ \A q \in DOMAIN file.rows \ {r} : file'.rows[q] = file.rows[q]
           /\ file'.rows[r] = Migrated(file.rows[r], field)
           /\ proc' = [proc EXCEPT !.todo = proc.todo \ {r}]
           /\ DOMAIN file' = DOMAIN file
    BY <1>7, NextRowChanges
  <2>2. Migrated(file.rows[r], field) \in Row
    BY <2>1, <1>7, MigratedIsRow DEF TypeInv, TypeOK, IsFile, IsTable
  <2>3. IsFile(file')
    BY <2>1, <2>2 DEF TypeInv, TypeOK, IsFile, IsTable
  <2> QED BY <1>7, <2>1, <2>3 DEF NextRow, TypeInv, TypeOK, Bounds, Hist
<1>8. ASSUME NEW at, NEW to \in {"servers", "ids", "dashboards", "config"},
             NEW todo \in SUBSET DOMAIN file.rows, LastRow(at, to, todo),
             to = "config" => todo = {}
      PROVE  TypeInv'
  BY <1>8 DEF LastRow, Step, TypeInv, TypeOK, IsFile, IsTable, Bounds, Hist
<1>9. /\ WithoutOrg(Servers) \subseteq DOMAIN file.rows
      /\ WithoutOrg(Dashboards) \subseteq DOMAIN file.rows
      /\ WithoutIds(Dashboards) \subseteq DOMAIN file.rows
  BY DEF WithoutOrg, WithoutIds, Has
<1>10. CASE MigrateSources \/ MigrateServers \/ AddIDs \/ MigrateDashboards
  BY <1>10, <1>7, <1>8, <1>9 DEF MigrateSources, MigrateServers, AddIDs, MigrateDashboards
<1>11. CASE MigrateBuild
  BY <1>11 DEF TypeInv, TypeOK, MigrateBuild, Step, Bounds, Hist, IsFile
<1>12. CASE Up
  <2>1. \A row \in Row : Rewritten(row) \in Row
    <3> SUFFICES ASSUME NEW row \in Row PROVE Rewritten(row) \in Row
        OBVIOUS
    <3>1. (IF row.newer = "kept" THEN "lost" ELSE row.newer) \in {"none", "kept", "lost"}
      BY DEF Row
    <3>2. \A n \in {"none", "kept", "lost"} :
            [row EXCEPT !.wraps = row.wraps + 1, !.newer = n] \in Row
      <4>1. \A w \in Nat, n \in {"none", "kept", "lost"} :
              [row EXCEPT !.wraps = w, !.newer = n] \in Row
        BY DEF Row
      <4>2. row.wraps + 1 \in Nat
        BY DEF Row
      <4> QED BY <4>1, <4>2
    <3> QED BY <3>1, <3>2 DEF Rewritten
  <2>2. /\ DOMAIN file' = DOMAIN file
        /\ file'.exists = file.exists /\ file'.buckets = file.buckets
        /\ file'.build = file.build /\ file'.defaultOrg = file.defaultOrg
        /\ file'.config = file.config /\ file'.marked = file.marked
        /\ DOMAIN file'.rows = DOMAIN file.rows
        /\ \A r \in DOMAIN file.rows :
             file'.rows[r] \in {file.rows[r], Rewritten(file.rows[r])}
    BY <1>12 DEF TypeInv, TypeOK, Up, IsFile
  <2>3. IsFile(file')
    BY <2>1, <2>2 DEF TypeInv, TypeOK, IsFile, IsTable
  <2> QED BY <1>12, <2>2, <2>3 DEF TypeInv, TypeOK, Up, Step, Bounds, Hist
<1>13. CASE SkipUp \/ MarkMigrationAsComplete
  BY <1>13 DEF TypeInv, TypeOK, SkipUp, MarkMigrationAsComplete, Step, Bounds, Hist, IsFile
<1>14. CASE Save
  BY <1>14 DEF TypeInv, TypeOK, Save, Saved, New, Step, Bounds, Hist, IsFile, IsTable, Row, Rows
<1>15. CASE Stop \/ Crash
  <2>1. served'.version \in Versions \cup {PreBuild} /\ IsTable(served'.rows)
    BY <1>15 DEF TypeInv, TypeOK, Stop, Crash, Leaves, IsFile
  <2>2. starts' \in Nat /\ faults' \in Nat /\ faults' <= MaxFaults
        /\ unmarked' \in Nat /\ unmarked' <= faults'
    BY <1>15 DEF TypeInv, TypeOK, Stop, Crash, Fault, Bounds
  <2>3. proc' = Off /\ pc' = "off" /\ UNCHANGED <<file, backups>>
    BY <1>15 DEF Stop, Crash
  <2> QED BY <2>1, <2>2, <2>3 DEF TypeInv, TypeOK, Off
<1>16. CASE GiveUp
  <2>1. pc \in {"sources", "servers", "ids", "dashboards", "up", "mark"}
    BY <1>16 DEF GiveUp, After, TypeInv, TypeOK
  <2>2. pc' \in {"servers", "ids", "config", "serving"}
    BY <1>16, <2>1 DEF GiveUp, After
  <2>3. TodoAfter(pc) \subseteq DOMAIN file.rows
    BY <1>9 DEF TodoAfter
  <2>4. unmarked' \in Nat /\ unmarked' <= faults' /\ faults' \in Nat /\ faults' <= MaxFaults
    BY <1>16 DEF GiveUp, Fault, TypeInv, TypeOK
  <2>5. /\ proc' = [proc EXCEPT !.todo = TodoAfter(pc), !.slipped = TRUE]
        /\ UNCHANGED <<file, backups, starts, served>>
    BY <1>16 DEF GiveUp
  <2>6. pc' = "config" => TodoAfter(pc) = {}
    BY <1>16, <2>1 DEF GiveUp, After, TodoAfter
  <2>7. pc' = "serving" => TodoAfter(pc) = {}
    BY <1>16, <2>1 DEF GiveUp, After, TodoAfter
  <2>8. /\ proc' \in [version : Versions \cup {PreBuild}, isNew : BOOLEAN, todo : SUBSET Rows,
                     slipped : BOOLEAN]
        /\ proc'.todo = TodoAfter(pc)
    BY <2>3, <2>5 DEF TypeInv, TypeOK, IsFile, IsTable
  <2> QED BY <2>2, <2>3, <2>4, <2>5, <2>6, <2>7, <2>8 DEF TypeInv, TypeOK
<1>17. CASE UNCHANGED vars
  BY <1>17 DEF TypeInv, TypeOK, vars
<1> QED BY <1>1, <1>2, <1>3, <1>4, <1>5, <1>6, <1>10, <1>11, <1>12, <1>13, <1>14, <1>15,
           <1>16, <1>17 DEF Next, Start

\* TypeOK holds whatever the start of the server meets.
THEOREM TypeCorrect == Spec => []TypeOK
<1>1. TypeInv => TypeOK
  BY DEF TypeInv
<1> QED BY <1>1, TypeInit, TypeStep, PTL DEF Spec
-----------------------------------------------------------------------------
(* What the steps change, without records.                                 *)

FlagsKept ==
  /\ file'.exists = file.exists /\ file'.buckets = file.buckets
  /\ file'.defaultOrg = file.defaultOrg /\ file'.config = file.config

FileKept == FlagsKept /\ file'.build = file.build /\ file'.marked = file.marked

LEMMA OpenChanges ==
  ASSUME TypeInv, Open
  PROVE  /\ pc = "off" /\ pc' = "backup"
         /\ file'.exists /\ file'.buckets = file.buckets
         /\ file'.defaultOrg = file.defaultOrg /\ file'.config = file.config
         /\ file'.build = file.build /\ file'.marked = file.marked /\ file'.rows = file.rows
         /\ proc'.isNew = ~file.exists /\ proc'.todo = {} /\ proc'.slipped = FALSE
         /\ UNCHANGED <<backups, unmarked, served>>
<1>1. PICK v \in Versions : proc' = [Off EXCEPT !.version = v, !.isNew = ~file.exists]
  BY DEF Open
<1>2. file.exists \in BOOLEAN
  BY DEF TypeInv, TypeOK, IsFile
<1>3. proc'.isNew = ~file.exists /\ proc'.todo = {} /\ proc'.slipped = FALSE
  BY <1>1, <1>2 DEF Off
<1> QED BY <1>3 DEF Open, Hist, TypeInv, TypeOK, IsFile

LEMMA InitializeChanges ==
  ASSUME TypeInv, Initialize
  PROVE  /\ pc = "initialize" /\ pc' = "organizations"
         /\ file'.exists = file.exists /\ file'.buckets
         /\ file'.defaultOrg = file.defaultOrg /\ file'.config = file.config
         /\ file'.build = file.build /\ file'.marked = file.marked /\ file'.rows = file.rows
         /\ UNCHANGED <<backups, proc, unmarked, served>>
  BY DEF Initialize, Step, Hist, TypeInv, TypeOK, IsFile

LEMMA CreateDefaultChanges ==
  ASSUME TypeInv, CreateDefault
  PROVE  /\ pc = "organizations" /\ pc' = "sources"
         /\ file'.exists = file.exists /\ file'.buckets = file.buckets
         /\ file'.defaultOrg /\ file'.config = file.config
         /\ file'.build = file.build /\ file'.marked = file.marked /\ file'.rows = file.rows
         /\ proc'.isNew = proc.isNew /\ proc'.version = proc.version
         /\ proc'.slipped = proc.slipped /\ proc'.todo = Has(Sources)
         /\ UNCHANGED <<backups, unmarked, served>>
  BY DEF CreateDefault, Step, Hist, TypeInv, TypeOK, IsFile

LEMMA MigrateConfigChanges ==
  ASSUME TypeInv, MigrateConfig
  PROVE  /\ pc = "config" /\ pc' = "build"
         /\ file'.exists = file.exists /\ file'.buckets = file.buckets
         /\ file'.defaultOrg = file.defaultOrg /\ file'.config
         /\ file'.build = file.build /\ file'.marked = file.marked /\ file'.rows = file.rows
         /\ UNCHANGED <<backups, proc, unmarked, served>>
  BY DEF MigrateConfig, Step, Hist, TypeInv, TypeOK, IsFile

LEMMA MigrateBuildChanges ==
  ASSUME TypeInv, MigrateBuild
  PROVE  /\ pc = "build" /\ pc' = "up"
         /\ FlagsKept /\ file'.build = proc.version
         /\ file'.marked = file.marked /\ file'.rows = file.rows
         /\ UNCHANGED <<backups, proc, unmarked, served>>
  BY DEF MigrateBuild, Step, Hist, TypeInv, TypeOK, IsFile, FlagsKept

LEMMA MarkChanges ==
  ASSUME TypeInv, MarkMigrationAsComplete
  PROVE  /\ pc = "mark" /\ pc' = "serving"
         /\ FlagsKept /\ file'.build = file.build
         /\ file'.marked /\ file'.rows = file.rows
         /\ UNCHANGED <<backups, proc, unmarked, served>>
  BY DEF MarkMigrationAsComplete, Step, Hist, TypeInv, TypeOK, IsFile, FlagsKept

LEMMA UpChanges ==
  ASSUME TypeInv, Up
  PROVE  /\ pc = "up" /\ pc' = "mark" /\ ~file.marked
         /\ FileKept
         /\ DOMAIN file'.rows = DOMAIN file.rows
         /\ \A r \in DOMAIN file.rows :
              /\ file'.rows[r].org = file.rows[r].org
              /\ file'.rows[r].ids = file.rows[r].ids
              /\ r \in Dashboards =>
                   /\ file'.rows[r].wraps = file.rows[r].wraps + 1
                   /\ file'.rows[r].newer = "lost" => file.rows[r].newer # "none"
                   /\ file'.rows[r].newer # "none" => file.rows[r].newer # "none"
         /\ UNCHANGED <<backups, proc, unmarked, served>>
<1>1. \A row \in Row :
        /\ Rewritten(row).org = row.org /\ Rewritten(row).ids = row.ids
        /\ Rewritten(row).wraps = row.wraps + 1
        /\ Rewritten(row).newer = IF row.newer = "kept" THEN "lost" ELSE row.newer
  BY DEF Rewritten, Row
<1>2. /\ FileKept
      /\ DOMAIN file'.rows = DOMAIN file.rows
      /\ \A r \in DOMAIN file.rows :
           file'.rows[r] = IF r \in Dashboards THEN Rewritten(file.rows[r]) ELSE file.rows[r]
  BY DEF Up, TypeInv, TypeOK, IsFile, FileKept, FlagsKept
<1>3. \A r \in DOMAIN file.rows : file.rows[r] \in Row
  BY DEF TypeInv, TypeOK, IsFile, IsTable
<1>4. pc = "up" /\ pc' = "mark" /\ ~file.marked /\ UNCHANGED <<backups, proc, unmarked, served>>
  BY DEF Up, Step, Hist, IsMigrationComplete
<1> QED BY <1>1, <1>2, <1>3, <1>4

LEMMA SaveChanges ==
  ASSUME TypeInv, Save
  PROVE  \E r \in Rows :
           /\ pc = "serving" /\ pc' = "serving" /\ FileKept
           /\ DOMAIN file'.rows = DOMAIN file.rows \cup {r}
           /\ \A q \in DOMAIN file.rows \ {r} : file'.rows[q] = file.rows[q]
           /\ r \in DOMAIN file.rows =>
                /\ file'.rows[r].org = file.rows[r].org
                /\ file'.rows[r].ids = file.rows[r].ids
                /\ file'.rows[r].wraps = file.rows[r].wraps
           /\ r \notin DOMAIN file.rows =>
                file'.rows[r].org /\ file'.rows[r].ids /\ file'.rows[r].wraps = 1
           /\ file'.rows[r].newer = "kept"
           /\ UNCHANGED <<backups, proc, unmarked, served>>
<1>1. PICK r \in Dashboards \cup (Rows \ DOMAIN file.rows) :
        file' = [file EXCEPT !.rows =
          [q \in DOMAIN file.rows \cup {r} |-> IF q = r THEN Saved(r) ELSE file.rows[q]]]
  BY DEF Save
<1>2. r \in Rows
  BY <1>1 DEF Rows
<1>3. /\ FileKept
      /\ DOMAIN file'.rows = DOMAIN file.rows \cup {r}
      /\ \A q \in DOMAIN file.rows \ {r} : file'.rows[q] = file.rows[q]
      /\ file'.rows[r] = Saved(r)
  BY <1>1 DEF TypeInv, TypeOK, IsFile, FileKept, FlagsKept
<1>4. r \in DOMAIN file.rows => file.rows[r] \in Row
  BY DEF TypeInv, TypeOK, IsFile, IsTable
<1>5. /\ r \in DOMAIN file.rows =>
           /\ Saved(r).org = file.rows[r].org /\ Saved(r).ids = file.rows[r].ids
           /\ Saved(r).wraps = file.rows[r].wraps
      /\ r \notin DOMAIN file.rows => Saved(r).org /\ Saved(r).ids /\ Saved(r).wraps = 1
      /\ Saved(r).newer = "kept"
  BY <1>4 DEF Saved, New, Row
<1> QED BY <1>2, <1>3, <1>5 DEF Save, Hist

LEMMA StopChanges ==
  ASSUME TypeInv, Stop \/ Crash
  PROVE  /\ pc' = "off" /\ proc' = Off /\ UNCHANGED <<file, backups>>
         /\ unmarked' = unmarked + (IF pc = "mark" THEN 1 ELSE 0)
         /\ pc = "serving" => served' = [version |-> proc.version, rows |-> file.rows]
         /\ pc # "serving" => served' = served
<1>1. CASE Stop
  BY <1>1 DEF Stop, Leaves, TypeInv, TypeOK
<1>2. CASE Crash
  BY <1>2 DEF Crash, Leaves
<1> QED BY <1>1, <1>2

LEMMA GiveUpChanges ==
  ASSUME TypeInv, GiveUp
  PROVE  /\ pc \in {"sources", "servers", "ids", "dashboards", "up", "mark"}
         /\ pc \in {"up", "mark"} => pc' = "serving"
         /\ pc \notin {"up", "mark"} => pc' \in {"servers", "ids", "config"}
         /\ unmarked' = unmarked + (IF pc \in {"up", "mark"} THEN 1 ELSE 0)
         /\ proc'.isNew = proc.isNew /\ proc'.version = proc.version /\ proc'.slipped = TRUE
         /\ UNCHANGED <<file, backups, served>>
<1>1. pc \in {"sources", "servers", "ids", "dashboards", "up", "mark"}
  BY DEF GiveUp, TypeInv, TypeOK, Loops
<1>2. /\ pc \in {"up", "mark"} => pc' = "serving"
      /\ pc \notin {"up", "mark"} => pc' \in {"servers", "ids", "config"}
  BY <1>1 DEF GiveUp, After
<1>3. proc'.isNew = proc.isNew /\ proc'.version = proc.version /\ proc'.slipped = TRUE
  BY DEF GiveUp, TypeInv, TypeOK
<1> QED BY <1>1, <1>2, <1>3 DEF GiveUp

LEMMA LastRowChanges ==
  ASSUME TypeInv, NEW at, NEW to, NEW todo, LastRow(at, to, todo)
  PROVE  /\ pc = at /\ pc' = to /\ proc.todo = {}
         /\ proc'.isNew = proc.isNew /\ proc'.version = proc.version
         /\ proc'.slipped = proc.slipped /\ proc'.todo = todo
         /\ UNCHANGED <<file, backups, unmarked, served>>
  BY DEF LastRow, Step, Hist, TypeInv, TypeOK
LEMMA InitIs ==
  ASSUME Init
  PROVE  /\ pc = "off" /\ unmarked = 0 /\ ~file.marked
         /\ \A r \in DOMAIN file.rows : file.rows[r].wraps = 0 /\ file.rows[r].newer = "none"
         /\ ~file.exists => DOMAIN file.rows = {}
         /\ served.rows = file.rows /\ served.version = PreBuild /\ file.build = PreBuild
         /\ proc.isNew = FALSE
<1>1. CASE file = NoFile
  BY <1>1 DEF Init, NoFile, Off
<1>2. CASE file = [NoFile EXCEPT !.exists = TRUE, !.rows = [r \in Rows |-> Old]]
  BY <1>2 DEF Init, NoFile, Off, Old
<1> QED BY <1>1, <1>2 DEF Init

LEMMA Counts ==
  ASSUME TypeInv
  PROVE  /\ unmarked \in Nat
         /\ \A r \in DOMAIN file.rows : file.rows[r].wraps \in Nat
  BY DEF TypeInv, TypeOK, IsFile, IsTable, Row

-----------------------------------------------------------------------------
(* ServedIsMigrated: what is done by each stage of a start, unless the      *)
(* start has given up on a row.                                            *)

\* The rows that have an organization, and those whose cells have ids.
WithOrgBy ==
  CASE pc = "sources" -> Sources \ proc.todo
    [] pc = "servers" -> Sources \cup (Servers \ proc.todo)
    [] pc = "ids" -> Sources \cup Servers
    [] pc = "dashboards" -> Sources \cup Servers \cup (Dashboards \ proc.todo)
    [] pc \in {"config", "build", "up", "mark", "serving"} -> Rows
    [] OTHER -> {}

WithIdsBy ==
  CASE pc = "ids" -> Dashboards \ proc.todo
    [] pc \in {"dashboards", "config", "build", "up", "mark", "serving"} -> Dashboards
    [] OTHER -> {}

Before(stages) == pc \in {"off", "backup", "copy"} \cup stages

FileInv ==
  /\ Before({"initialize"}) \/ file.buckets
  /\ Before({"initialize", "organizations"}) \/ file.defaultOrg
  /\ pc \in {"build", "up", "mark", "serving"} => file.config
  /\ pc = "serving" /\ ~proc.slipped => file.marked
  /\ file.marked \/ pc = "mark" => \A r \in Has(Dashboards) : file.rows[r].wraps >= 1

RowsInv ==
  ~proc.slipped =>
    /\ \A r \in Has(WithOrgBy) : file.rows[r].org
    /\ \A r \in Has(WithIdsBy) : file.rows[r].ids

LEMMA FileInvInit == Init => FileInv
  BY InitIs DEF Init, FileInv, Has, Before

LEMMA FileInvStep == TypeInv /\ FileInv /\ [Next]_vars => FileInv'
<1> SUFFICES ASSUME TypeInv, FileInv, [Next]_vars PROVE FileInv'
    OBVIOUS
<1> USE DEF FileInv, Before
<1>1. CASE Open
  BY <1>1, OpenChanges DEF Has
<1>2. CASE Initialize
  BY <1>2, InitializeChanges DEF Has
<1>3. CASE CreateDefault
  BY <1>3, CreateDefaultChanges DEF Has
<1>4. CASE MigrateConfig
  BY <1>4, MigrateConfigChanges DEF Has
<1>5. CASE MigrateBuild
  BY <1>5, MigrateBuildChanges DEF FlagsKept, Has
<1>6. CASE Up
  BY <1>6, UpChanges, Counts DEF FileKept, FlagsKept, Has
<1>7. CASE MarkMigrationAsComplete
  BY <1>7, MarkChanges DEF FlagsKept, Has
<1>8. CASE Save
  BY <1>8, SaveChanges DEF FileKept, FlagsKept, Has
<1>9. CASE Stop \/ Crash
  BY <1>9, StopChanges DEF Off, Has
<1>10. CASE GiveUp
  BY <1>10, GiveUpChanges, Counts DEF Has
<1>11. CASE SkipBackup
  BY <1>11 DEF SkipBackup, NeedsNoBackup, Step, Hist, Has
<1>12. CASE BeginBackup
  BY <1>12 DEF BeginBackup, NeedsNoBackup, Step, Hist, Has
<1>13. CASE Copy
  BY <1>13 DEF Copy, Step, Hist, Has
<1>14. CASE SkipUp
  BY <1>14 DEF SkipUp, IsMigrationComplete, Step, Hist, Has
<1>15. ASSUME NEW at \in Loops, NEW field \in {"org", "ids"}, NextRow(at, field),
             field = "org" \/ at = "ids"
      PROVE  FileInv'
  BY <1>15, NextRowChanges, MigratedIsRow DEF Has, Loops, TypeInv, TypeOK, IsFile, IsTable
<1>16. CASE LastRow("sources", "servers", WithoutOrg(Servers))
  BY <1>16, LastRowChanges DEF Has, WithoutOrg, WithoutIds, Rows
<1>17. CASE LastRow("servers", "ids", WithoutIds(Dashboards))
  BY <1>17, LastRowChanges DEF Has, WithoutOrg, WithoutIds, Rows
<1>18. CASE LastRow("ids", "dashboards", WithoutOrg(Dashboards))
  BY <1>18, LastRowChanges DEF Has, WithoutOrg, WithoutIds, Rows
<1>19. CASE LastRow("dashboards", "config", {})
  BY <1>19, LastRowChanges DEF Has, WithoutOrg, WithoutIds, Rows
<1>20. CASE MigrateSources \/ MigrateServers \/ AddIDs \/ MigrateDashboards
  BY <1>20, <1>15, <1>16, <1>17, <1>18, <1>19 DEF MigrateSources, MigrateServers, AddIDs, MigrateDashboards, Loops
<1>21. CASE UNCHANGED vars
  BY <1>21 DEF vars, Has
<1> QED BY <1>1, <1>2, <1>3, <1>4, <1>5, <1>6, <1>7, <1>8, <1>9, <1>10, <1>11, <1>12, <1>13, <1>14, <1>20, <1>21 DEF Next, Start
LEMMA RowsInvInit == Init => RowsInv
  BY StartUpAssumption DEF Init, RowsInv, WithOrgBy, WithIdsBy, NoFile, Old, Off, Has

LEMMA RowsInvStep == TypeInv /\ RowsInv /\ [Next]_vars => RowsInv'
<1> SUFFICES ASSUME TypeInv, RowsInv, [Next]_vars PROVE RowsInv'
    OBVIOUS
<1> USE DEF RowsInv, WithOrgBy, WithIdsBy
<1>1. CASE Open
  BY <1>1, OpenChanges DEF Has
<1>2. CASE Initialize
  BY <1>2, InitializeChanges DEF Has
<1>3. CASE CreateDefault
  BY <1>3, CreateDefaultChanges DEF Has
<1>4. CASE MigrateConfig
  BY <1>4, MigrateConfigChanges DEF Has
<1>5. CASE MigrateBuild
  BY <1>5, MigrateBuildChanges DEF FlagsKept, Has
<1>6. CASE Up
  BY <1>6, UpChanges DEF FileKept, FlagsKept, Has
<1>7. CASE MarkMigrationAsComplete
  BY <1>7, MarkChanges DEF FlagsKept, Has
<1>8. CASE Save
  BY <1>8, SaveChanges DEF FileKept, FlagsKept, Has
<1>9. CASE Stop \/ Crash
  BY <1>9, StopChanges DEF Off, Has
<1>10. CASE GiveUp
  BY <1>10, GiveUpChanges DEF Has
<1>11. CASE SkipBackup
  BY <1>11 DEF SkipBackup, NeedsNoBackup, Step, Hist, Has
<1>12. CASE BeginBackup
  BY <1>12 DEF BeginBackup, NeedsNoBackup, Step, Hist, Has
<1>13. CASE Copy
  BY <1>13 DEF Copy, Step, Hist, Has
<1>14. CASE SkipUp
  BY <1>14 DEF SkipUp, IsMigrationComplete, Step, Hist, Has
<1>15. ASSUME NEW at \in Loops, NEW field \in {"org", "ids"}, NextRow(at, field),
             (at = "ids") <=> (field = "ids")
      PROVE  RowsInv'
  <2>1. PICK r \in proc.todo :
           /\ pc = at /\ r \in DOMAIN file.rows
           /\ DOMAIN file'.rows = DOMAIN file.rows
           /\ \A q \in DOMAIN file.rows \ {r} : file'.rows[q] = file.rows[q]
           /\ file'.rows[r] = Migrated(file.rows[r], field)
           /\ proc' = [proc EXCEPT !.todo = proc.todo \ {r}]
           /\ UNCHANGED pc
    BY <1>15, NextRowChanges
  <2>2. proc'.todo = proc.todo \ {r} /\ proc'.slipped = proc.slipped
    BY <2>1 DEF TypeInv, TypeOK
  <2>3. file.rows[r] \in Row
    BY <2>1 DEF TypeInv, TypeOK, IsFile, IsTable
  <2>4. /\ file.rows[r].org \/ field = "org" => file'.rows[r].org
        /\ file.rows[r].ids \/ field = "ids" => file'.rows[r].ids
    BY <2>1, <2>3, <1>15, MigratedIsRow
  <2>5. ASSUME ~proc.slipped, NEW q \in DOMAIN file.rows, q \in WithOrgBy'
        PROVE  file'.rows[q].org
    BY <1>15, <2>1, <2>2, <2>4, <2>5 DEF Has, Loops
  <2>6. ASSUME ~proc.slipped, NEW q \in DOMAIN file.rows, q \in WithIdsBy'
        PROVE  file'.rows[q].ids
    BY <1>15, <2>1, <2>2, <2>4, <2>6 DEF Has, Loops
  <2> QED BY <2>1, <2>2, <2>5, <2>6 DEF Has
<1>16. CASE LastRow("sources", "servers", WithoutOrg(Servers))
  BY <1>16, LastRowChanges DEF Has, WithoutOrg, WithoutIds, Rows
<1>17. CASE LastRow("servers", "ids", WithoutIds(Dashboards))
  BY <1>17, LastRowChanges DEF Has, WithoutOrg, WithoutIds, Rows
<1>18. CASE LastRow("ids", "dashboards", WithoutOrg(Dashboards))
  BY <1>18, LastRowChanges DEF Has, WithoutOrg, WithoutIds, Rows
<1>19. CASE LastRow("dashboards", "config", {})
  BY <1>19, LastRowChanges DEF Has, WithoutOrg, WithoutIds, Rows
<1>20. CASE MigrateSources \/ MigrateServers \/ AddIDs \/ MigrateDashboards
  BY <1>20, <1>15, <1>16, <1>17, <1>18, <1>19 DEF MigrateSources, MigrateServers, AddIDs, MigrateDashboards, Loops
<1>21. CASE UNCHANGED vars
  BY <1>21 DEF vars, Has
<1> QED BY <1>1, <1>2, <1>3, <1>4, <1>5, <1>6, <1>7, <1>8, <1>9, <1>10, <1>11, <1>12, <1>13, <1>14, <1>20, <1>21 DEF Next, Start
-----------------------------------------------------------------------------
(* RewrittenOnce: before the mark, a query is wrapped only by starts that   *)
(* died or failed between the rewriting and the mark.                      *)

WrapsInv ==
  /\ \A r \in Has(Dashboards) :
       /\ file.rows[r].wraps <= unmarked + IF file.marked \/ pc = "mark" THEN 1 ELSE 0
       /\ file.rows[r].newer # "none" => file.marked \/ unmarked > 0
       /\ file.rows[r].newer = "lost" => unmarked > 0
  /\ pc = "serving" => file.marked \/ unmarked > 0

LEMMA WrapsInvInit == Init => WrapsInv
<1> SUFFICES ASSUME Init PROVE WrapsInv
    OBVIOUS
<1>1. \A r \in Has(Dashboards) : file.rows[r].wraps <= 0
  BY InitIs DEF Has
<1>2. \A r \in Has(Dashboards) : file.rows[r].newer = "none"
  BY InitIs DEF Has
<1> QED BY <1>1, <1>2, InitIs DEF WrapsInv

LEMMA WrapsInvStep == TypeInv /\ WrapsInv /\ [Next]_vars => WrapsInv'
<1> SUFFICES ASSUME TypeInv, WrapsInv, [Next]_vars PROVE WrapsInv'
    OBVIOUS
<1> USE DEF WrapsInv
<1>1. CASE Open
  BY <1>1, OpenChanges DEF Has
<1>2. CASE Initialize
  BY <1>2, InitializeChanges DEF Has
<1>3. CASE CreateDefault
  BY <1>3, CreateDefaultChanges DEF Has
<1>4. CASE MigrateConfig
  BY <1>4, MigrateConfigChanges DEF Has
<1>5. CASE MigrateBuild
  BY <1>5, MigrateBuildChanges DEF FlagsKept, Has
<1>6. CASE Up
  BY <1>6, UpChanges, Counts DEF FileKept, FlagsKept, Has
<1>7. CASE MarkMigrationAsComplete
  BY <1>7, MarkChanges DEF FlagsKept, Has
<1>8. CASE Save
  BY <1>8, SaveChanges, Counts DEF FileKept, FlagsKept, Has
<1>9. CASE Stop \/ Crash
  BY <1>9, StopChanges, Counts DEF Off, Has
<1>10. CASE GiveUp
  BY <1>10, GiveUpChanges, Counts DEF Has
<1>11. CASE SkipBackup
  BY <1>11 DEF SkipBackup, NeedsNoBackup, Step, Hist, Has
<1>12. CASE BeginBackup
  BY <1>12 DEF BeginBackup, NeedsNoBackup, Step, Hist, Has
<1>13. CASE Copy
  BY <1>13 DEF Copy, Step, Hist, Has
<1>14. CASE SkipUp
  BY <1>14 DEF SkipUp, IsMigrationComplete, Step, Hist, Has
<1>15. ASSUME NEW at \in Loops, NEW field \in {"org", "ids"}, NextRow(at, field),
             field = "org" \/ at = "ids"
      PROVE  WrapsInv'
  BY <1>15, NextRowChanges, MigratedIsRow DEF Has, Loops, TypeInv, TypeOK, IsFile, IsTable
<1>16. CASE LastRow("sources", "servers", WithoutOrg(Servers))
  BY <1>16, LastRowChanges DEF Has, WithoutOrg, WithoutIds, Rows
<1>17. CASE LastRow("servers", "ids", WithoutIds(Dashboards))
  BY <1>17, LastRowChanges DEF Has, WithoutOrg, WithoutIds, Rows
<1>18. CASE LastRow("ids", "dashboards", WithoutOrg(Dashboards))
  BY <1>18, LastRowChanges DEF Has, WithoutOrg, WithoutIds, Rows
<1>19. CASE LastRow("dashboards", "config", {})
  BY <1>19, LastRowChanges DEF Has, WithoutOrg, WithoutIds, Rows
<1>20. CASE MigrateSources \/ MigrateServers \/ AddIDs \/ MigrateDashboards
  BY <1>20, <1>15, <1>16, <1>17, <1>18, <1>19 DEF MigrateSources, MigrateServers, AddIDs, MigrateDashboards, Loops
<1>21. CASE UNCHANGED vars
  BY <1>21 DEF vars, Has
<1> QED BY <1>1, <1>2, <1>3, <1>4, <1>5, <1>6, <1>7, <1>8, <1>9, <1>10, <1>11, <1>12, <1>13, <1>14, <1>20, <1>21 DEF Next, Start
-----------------------------------------------------------------------------
(* BackedUp: once the file names another version than the last that served, *)
(* the backup of that one is complete and is not written again.            *)

Good(v) ==
  /\ v \in DOMAIN backups
  /\ backups[v].complete
  /\ DOMAIN served.rows \subseteq DOMAIN backups[v].rows
  /\ unmarked = 0 => \A r \in DOMAIN served.rows :
       backups[v].rows[r].wraps = served.rows[r].wraps

BackupInv ==
  /\ DOMAIN served.rows \subseteq DOMAIN file.rows
  /\ ~file.exists => DOMAIN file.rows = {}
  /\ pc # "off" => file.exists
  /\ proc.isNew => DOMAIN served.rows = {}
  /\ pc \in {"up", "mark", "serving"} => file.build = proc.version
  /\ pc = "copy" => file.build \in DOMAIN backups
  /\ unmarked = 0 /\ pc \notin {"mark", "serving"} =>
       \A r \in DOMAIN served.rows : file.rows[r].wraps = served.rows[r].wraps
  /\ DOMAIN served.rows # {} =>
       /\ file.build # served.version => Good(served.version)
       /\ /\ file.build # proc.version
          /\ pc \notin {"off", "backup", "copy", "up", "mark", "serving"}
          => Good(served.version)

LEMMA BackupInvInit == Init => BackupInv
  BY InitIs DEF Init, BackupInv, Has, Good

LEMMA BackupInvStep == TypeInv /\ BackupInv /\ [Next]_vars => BackupInv'
<1> SUFFICES ASSUME TypeInv, BackupInv, [Next]_vars PROVE BackupInv'
    OBVIOUS
<1> USE DEF BackupInv, Good
<1>1. CASE Open
  BY <1>1, OpenChanges DEF Has
<1>2. CASE Initialize
  BY <1>2, InitializeChanges DEF Has
<1>3. CASE CreateDefault
  BY <1>3, CreateDefaultChanges DEF Has
<1>4. CASE MigrateConfig
  BY <1>4, MigrateConfigChanges DEF Has
<1>5. CASE MigrateBuild
  BY <1>5, MigrateBuildChanges DEF FlagsKept, Has
<1>6. CASE Up
  BY <1>6, UpChanges DEF FileKept, FlagsKept, Has
<1>7. CASE MarkMigrationAsComplete
  BY <1>7, MarkChanges DEF FlagsKept, Has
<1>8. CASE Save
  BY <1>8, SaveChanges DEF FileKept, FlagsKept, Has
<1>9. CASE Stop \/ Crash
  BY <1>9, StopChanges, Counts DEF Off, Has
<1>10. CASE GiveUp
  BY <1>10, GiveUpChanges, Counts DEF Has
<1>11. CASE SkipBackup
  BY <1>11 DEF SkipBackup, NeedsNoBackup, Step, Hist, Has
<1>12. CASE BeginBackup
  BY <1>12 DEF BeginBackup, NeedsNoBackup, Step, Hist, Has
<1>13. CASE Copy
  BY <1>13 DEF Copy, Step, Hist, Has
<1>14. CASE SkipUp
  BY <1>14 DEF SkipUp, IsMigrationComplete, Step, Hist, Has
<1>15. ASSUME NEW at \in Loops, NEW field \in {"org", "ids"}, NextRow(at, field),
             field = "org" \/ at = "ids"
      PROVE  BackupInv'
  BY <1>15, NextRowChanges, MigratedIsRow DEF Has, Loops, TypeInv, TypeOK, IsFile, IsTable
<1>16. CASE LastRow("sources", "servers", WithoutOrg(Servers))
  BY <1>16, LastRowChanges DEF Has, WithoutOrg, WithoutIds, Rows
<1>17. CASE LastRow("servers", "ids", WithoutIds(Dashboards))
  BY <1>17, LastRowChanges DEF Has, WithoutOrg, WithoutIds, Rows
<1>18. CASE LastRow("ids", "dashboards", WithoutOrg(Dashboards))
  BY <1>18, LastRowChanges DEF Has, WithoutOrg, WithoutIds, Rows
<1>19. CASE LastRow("dashboards", "config", {})
  BY <1>19, LastRowChanges DEF Has, WithoutOrg, WithoutIds, Rows
<1>20. CASE MigrateSources \/ MigrateServers \/ AddIDs \/ MigrateDashboards
  BY <1>20, <1>15, <1>16, <1>17, <1>18, <1>19 DEF MigrateSources, MigrateServers, AddIDs, MigrateDashboards, Loops
<1>21. CASE UNCHANGED vars
  BY <1>21 DEF vars, Has
<1> QED BY <1>1, <1>2, <1>3, <1>4, <1>5, <1>6, <1>7, <1>8, <1>9, <1>10, <1>11, <1>12, <1>13, <1>14, <1>20, <1>21 DEF Next, Start

-----------------------------------------------------------------------------
(* The properties of the runs.                                             *)

StartUpInv == TypeInv /\ FileInv /\ RowsInv /\ WrapsInv /\ BackupInv

LEMMA InvInductive == Spec => []StartUpInv
<1>1. Init => StartUpInv
  BY TypeInit, FileInvInit, RowsInvInit, WrapsInvInit, BackupInvInit DEF StartUpInv
<1>2. StartUpInv /\ [Next]_vars => StartUpInv'
  BY TypeStep, FileInvStep, RowsInvStep, WrapsInvStep, BackupInvStep DEF StartUpInv
<1> QED BY <1>1, <1>2, PTL DEF Spec

\* A server that serves has brought every row up to date, unless its own start
\* gave up on one (bolt/client.go, migrate): however many starts before it died.
THEOREM MigratedWhenServing == Spec => []ServedIsMigrated
<1>1. StartUpInv => ServedIsMigrated
  BY DEF StartUpInv, FileInv, RowsInv, ServedIsMigrated, Before, WithOrgBy, WithIdsBy, Has, Rows
<1> QED BY <1>1, InvInductive, PTL

\* The queries of a dashboard are wrapped once, and once more for each start that
\* left the rewriting unmarked (bolt/base.go, Migrate).
THEOREM RewrittenOnceAMark == Spec => []RewrittenOnce
<1>1. StartUpInv => RewrittenOnce
  <2> SUFFICES ASSUME StartUpInv PROVE RewrittenOnce
      OBVIOUS
  <2>1. unmarked \in Nat /\ \A r \in DOMAIN file.rows : file.rows[r].wraps \in Nat
    BY Counts DEF StartUpInv
  <2> QED BY <2>1 DEF StartUpInv, WrapsInv, RewrittenOnce, Has
<1> QED BY <1>1, InvInductive, PTL

\* What another version has left is in a complete backup (bolt/client.go, backup),
\* whatever happened to the starts in between.
THEOREM BackedUpBeforeServing == Spec => []BackedUp
<1>1. StartUpInv => BackedUp
  BY DEF StartUpInv, BackupInv, BackedUp, Good
<1> QED BY <1>1, InvInductive, PTL

===============================================================================
