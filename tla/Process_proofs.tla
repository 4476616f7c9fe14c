--------------------------- MODULE Process_proofs ---------------------------
(***************************************************************************)
(* Theorems about a process of the forum: how it starts, is upgraded and   *)
(* rolled back (Deployment), for every number of processes, releases and   *)
(* migrations; and the captcha table it holds in memory (Captcha), for     *)
(* every number of requests, ids and limits.  The two share no variable.   *)
(***************************************************************************)
EXTENDS Captcha, Deployment, TLAPS, FiniteSetTheorems

-----------------------------------------------------------------------------
(***************************************************************************)
(* Deployment: the invariant.                                              *)
(***************************************************************************)
\* The steps of a script by what it has done before them.
UpgradeSteps == {"backup", "snapshot", "stop", "binary", "clear", "copy", "start", "health"}
RestoreSteps == {"r_stop", "r_drop", "r_create", "r_load"}
BeforeSnapshot == {"idle", "backup", "snapshot"}
ServiceStopped ==
    {"binary", "clear", "copy", "start", "r_drop", "r_create", "r_load", "b_binary",
     "b_clear", "b_copy", "b_start"}

Both(release) == [bin |-> release, static |-> release]
PastMigrate(i) == proc[i].at \notin {"down", "migrate"}
WantedInv == ~wanted => At(Service, "down")

\* The script has put all files in place and started the service since it last
\* stopped it.
Settled == script.at \in {"health", "b_health"} \/ script.end \in {"done", "rolled_back"}

\* A process past a step of its start-up finds what that step left: nothing ever
\* takes an administrator or a migration away from under a process.
PhaseInv ==
    \A i \in Instances :
        /\ ~At(i, "down") => proc[i].release \in Releases
        /\ proc[i].at \in {"owner", "bind", "serving"} => db.admin
        /\ PastMigrate(i) => db.schema >= Migrations[proc[i].release]

\* An administrator who is no owner is about to become one, or was cut off.
OwnerInv == db.admin /\ ~db.owner => cut \/ \E i \in Instances : At(i, "owner")

\* Between the two commands that replace the database there is none, and no process
\* is past its migrations.
DropInv == On("r_create") => ~db.there /\ \A i \in Instances : ~PastMigrate(i)

\* A script under way has reported nothing, knows where it upgrades to, and has what
\* it may have to put back.
ScriptInv ==
    /\ ~On("idle") => script.end = "none"
    /\ script.at \in UpgradeSteps \/ script.end = "done" => script.to \in Releases
    /\ script.at \notin BeforeSnapshot => snapshot \in Trees
    /\ script.at \in RestoreSteps => dump \in Databases

\* Which files are whole, and of which release, before each step.
FilesInv ==
    /\ script.at \in {"clear", "copy"} => files.bin = script.to
    /\ script.at \in {"start", "health"} \/ script.end = "done" => files = Both(script.to)
    /\ script.at \in {"b_clear", "b_copy"} => files.bin = snapshot.bin
    /\ script.at \in {"b_start", "b_health"} \/ script.end = "rolled_back" => files = snapshot

\* No process of the service runs while the service is stopped, and it is stopped
\* while files are exchanged or the database is restored.
StoppedInv == WantedInv /\ (script.at \in ServiceStopped => ~wanted)

\* The process of the service was started from the files that are installed now.
InstalledInv ==
    Settled => wanted /\ (At(Service, "down") \/ proc[Service].release = files.bin)

\* The service runs with exactly the migrations it knows, unless another process
\* has applied the last one.
SchemaInv ==
    PastMigrate(Service) => db.schema = Migrations[proc[Service].release] \/ beside

\* What was reported of the database, on the answer of the service, stays so.
EndInv ==
    script.by = Service =>
        /\ script.end = "done" => db.schema >= Migrations[script.to]
        /\ script.end = "rolled_back" =>
               /\ files.bin \in Releases
               /\ db.schema > Migrations[files.bin] => beside

DeploymentInv == /\ PhaseInv /\ OwnerInv /\ DropInv /\ ScriptInv /\ FilesInv
                 /\ StoppedInv /\ InstalledInv /\ SchemaInv /\ EndInv

\* A script at one step goes on with another, ends, or rolls back.
LEMMA Moves ==
    ASSUME DeploymentTypeOK
    PROVE  /\ \A step \in Steps : Then(step) => /\ script' \in Scripts
                                                /\ script'.at = step
                                                /\ script'.to = script.to
                                                /\ script'.end = script.end
           /\ \A end \in Ends, by \in Instances \cup {Nothing} :
                  Finish(end, by) => /\ script' \in Scripts
                                     /\ script'.at = "idle"
                                     /\ end = "done" => script'.to = script.to
                                     /\ script'.end = end
                                     /\ script'.by = by
           /\ Die => /\ script' \in Scripts
                     /\ script'.at = "idle"
                     /\ script'.end = "died"
           /\ RollBack => /\ script' \in Scripts
                          /\ script'.at = "b_stop"
                          /\ script'.end = script.end
  <1> USE DEF DeploymentTypeOK, Scripts
  <1>1. ASSUME NEW step \in Steps, Then(step)
        PROVE  /\ script' \in Scripts /\ script'.at = step
               /\ script'.to = script.to /\ script'.end = script.end
    BY <1>1 DEF Then
  <1>2. ASSUME NEW end \in Ends, NEW by \in Instances \cup {Nothing}, Finish(end, by)
        PROVE  /\ script' \in Scripts /\ script'.at = "idle"
               /\ end = "done" => script'.to = script.to
               /\ script'.end = end /\ script'.by = by
    <2>1. script.to \in Releases \cup {Nothing} /\ "idle" \in Steps
      BY DEF Steps
    <2> QED
      BY <1>2, <2>1 DEF Finish
  <1>3. ASSUME RollBack
        PROVE  /\ script' \in Scripts /\ script'.at = "b_stop"
               /\ script'.end = script.end
    BY <1>3 DEF RollBack, Steps
  <1>4. ASSUME Die
        PROVE  script' \in Scripts /\ script'.at = "idle" /\ script'.end = "died"
    <2>1. "died" \in Ends
      BY DEF Ends
    <2> QED
      BY <1>2, <1>4, <2>1 DEF Die
  <1> QED
    BY <1>1, <1>2, <1>3, <1>4

-----------------------------------------------------------------------------
(***************************************************************************)
(* Processes that start.                                                   *)
(***************************************************************************)
\* Every step of a process that starts keeps the types.
LEMMA StartUpType ==
    ASSUME DeploymentTypeOK, NEW i \in Instances, StartUp(i)
    PROVE  DeploymentTypeOK'
  <1> USE DEF DeploymentTypeOK, Outside, At, Enter, Processes, Phases, Databases, Down
  <1>1. CASE Exec(i)
    BY <1>1, ReleasesAssumption DEF Exec
  <1>2. CASE Migrate(i)
    BY <1>2 DEF Migrate
  <1>3. CASE Migrated(i) \/ CountUsers(i) \/ Bind(i)
    BY <1>3 DEF Migrated, CountUsers, Bind
  <1>4. CASE InsertAdmin(i) \/ InsertOwner(i)
    <2>1. proc' \in [Instances -> Processes]
      BY <1>4 DEF InsertAdmin, InsertOwner
    <2>2. db' \in Databases
      BY <1>4 DEF InsertAdmin, InsertOwner
    <2> QED
      BY <1>4, <2>1, <2>2 DEF InsertAdmin, InsertOwner
  <1>5. CASE Fail(i)
    BY <1>5 DEF Fail, Kill
  <1> QED
    BY <1>1, <1>2, <1>3, <1>4, <1>5 DEF StartUp

\* A start-up changes the schema by a migration only.
LEMMA StartUpSchema ==
    ASSUME DeploymentTypeOK, NEW i \in Instances, StartUp(i)
    PROVE  \/ db'.schema = db.schema /\ beside' = beside
           \/ /\ db'.schema = db.schema + 1 /\ beside' = (i # Service)
              /\ proc' = proc /\ At(i, "migrate")
              /\ db.schema < Migrations[proc[i].release]
  <1> USE DEF DeploymentTypeOK, Databases
  <1>1. CASE Migrate(i)
    BY <1>1 DEF Migrate
  <1>2. CASE Exec(i) \/ Migrated(i) \/ CountUsers(i) \/ Bind(i) \/ Fail(i)
    BY <1>2 DEF Exec, Migrated, CountUsers, Bind, Fail
  <1>3. CASE InsertAdmin(i) \/ InsertOwner(i)
    BY <1>3 DEF InsertAdmin, InsertOwner
  <1> QED
    BY <1>1, <1>2, <1>3 DEF StartUp

\* What becomes of the process of the service: it stands still, ends, begins with
\* the installed binary, or goes on past its migrations.
LEMMA StartUpService ==
    ASSUME DeploymentTypeOK, NEW i \in Instances, StartUp(i)
    PROVE  \/ proc'[Service] = proc[Service]
           \/ At(Service, "down")'
           \/ /\ At(Service, "down") /\ wanted
              /\ proc'[Service] = [at |-> "migrate", release |-> files.bin]
           \/ /\ ~At(Service, "down") /\ PastMigrate(Service)'
              /\ proc'[Service].release = proc[Service].release
              /\ PastMigrate(Service) \/ UpToDate(Service)
  <1> USE ServiceAssumption
      DEF DeploymentTypeOK, Processes, At, Enter, PastMigrate
  <1>1. CASE i # Service
    BY <1>1 DEF StartUp, Exec, Migrate, Migrated, CountUsers, InsertAdmin, InsertOwner,
                Bind, Fail, Kill
  <1>2. CASE i = Service
    <2>1. CASE Exec(i)
      BY <1>2, <2>1 DEF Exec
    <2>2. CASE Fail(i)
      BY <1>2, <2>2 DEF Fail, Kill, Down
    <2>3. CASE Migrate(i) \/ Migrated(i)
      BY <1>2, <2>3 DEF Migrate, Migrated
    <2>4. CASE CountUsers(i) \/ Bind(i)
      BY <1>2, <2>4 DEF CountUsers, Bind
    <2>5. CASE InsertAdmin(i) \/ InsertOwner(i)
      BY <1>2, <2>5 DEF InsertAdmin, InsertOwner
    <2> QED
      BY <2>1, <2>2, <2>3, <2>4, <2>5 DEF StartUp
  <1> QED
    BY <1>1, <1>2

\* Every step of a process that starts keeps the invariant.
LEMMA StartUpKeeps ==
    ASSUME DeploymentTypeOK, DeploymentInv, NEW i \in Instances, StartUp(i)
    PROVE  DeploymentInv'
  <1> USE DEF DeploymentInv, At, Enter
  <1>1. UNCHANGED Outside
    BY DEF StartUp, Exec, Migrate, Migrated, CountUsers, InsertAdmin, InsertOwner,
           Bind, Fail
  <1>2. ScriptInv' /\ FilesInv'
    BY <1>1 DEF Outside, ScriptInv, FilesInv, On
  <1>3. PhaseInv'
    <2> USE DEF PhaseInv, PastMigrate, DeploymentTypeOK, Processes, Databases
    <2>1. CASE Exec(i)
      BY <2>1 DEF Exec
    <2>2. CASE Migrate(i)
      <3>1. \A j \in Instances : proc[j].release \in Releases
                => Migrations[proc[j].release] \in Nat
        BY ReleasesAssumption
      <3> QED
        BY <2>2, <3>1 DEF Migrate
    <2>3. CASE Migrated(i)
      <3>1. proc[i].release \in Releases => Migrations[proc[i].release] \in Nat
        BY ReleasesAssumption
      <3> QED
        BY <2>3, <3>1 DEF Migrated, UpToDate
    <2>4. CASE CountUsers(i) \/ Bind(i)
      BY <2>4 DEF CountUsers, Bind, NoUsers
    <2>5. CASE InsertAdmin(i) \/ InsertOwner(i)
      BY <2>5 DEF InsertAdmin, InsertOwner
    <2>6. CASE Fail(i)
      BY <2>6 DEF Fail, Kill, Down
    <2> QED
      BY <2>1, <2>2, <2>3, <2>4, <2>5, <2>6 DEF StartUp
  <1>4. OwnerInv'
    <2> USE DEF OwnerInv, DeploymentTypeOK, Processes, Databases
    <2>1. CASE Exec(i)
      BY <2>1 DEF Exec
    <2>2. CASE Migrate(i) \/ Migrated(i) \/ CountUsers(i) \/ Bind(i)
      BY <2>2 DEF Migrate, Migrated, CountUsers, Bind
    <2>3. CASE InsertAdmin(i) \/ InsertOwner(i)
      BY <2>3 DEF InsertAdmin, InsertOwner
    <2>4. CASE Fail(i)
      BY <2>4 DEF Fail, Kill, Down
    <2> QED
      BY <2>1, <2>2, <2>3, <2>4 DEF StartUp
  <1>5. wanted' = wanted /\ script' = script /\ files' = files
    BY <1>1 DEF Outside
  <1>14. DropInv'
    <2> SUFFICES ASSUME On("r_create")
                 PROVE  ~db'.there /\ \A j \in Instances : ~PastMigrate(j)'
      BY <1>5 DEF DropInv, On
    <2>1. ~db.there /\ \A j \in Instances : ~PastMigrate(j)
      BY DEF DropInv
    <2> USE <2>1 DEF PastMigrate, DeploymentTypeOK, Processes, Down
    <2>2. CASE Exec(i)
      BY <2>2 DEF Exec
    <2>3. CASE Migrate(i) \/ Migrated(i)
      BY <2>3 DEF Migrate, Migrated, UpToDate
    <2>4. CASE CountUsers(i) \/ InsertAdmin(i) \/ InsertOwner(i) \/ Bind(i)
      BY <2>4 DEF CountUsers, InsertAdmin, InsertOwner, Bind
    <2>5. CASE Fail(i)
      BY <2>5 DEF Fail, Kill
    <2> QED
      BY <2>2, <2>3, <2>4, <2>5 DEF StartUp
  <1>6. /\ db.schema \in Nat /\ beside \in BOOLEAN /\ Service \in Instances
        /\ \A v \in Releases : Migrations[v] \in Nat
    BY ReleasesAssumption, ServiceAssumption DEF DeploymentTypeOK, Databases
  <1>7. /\ script.end = "done" => script.to \in Releases
        /\ ~At(i, "down") => proc[i].release \in Releases
    BY DEF ScriptInv, PhaseInv
  <1>8. \/ proc'[Service] = proc[Service]
        \/ At(Service, "down")'
        \/ /\ At(Service, "down") /\ wanted
           /\ proc'[Service] = [at |-> "migrate", release |-> files.bin]
        \/ /\ ~At(Service, "down") /\ PastMigrate(Service)'
           /\ proc'[Service].release = proc[Service].release
           /\ PastMigrate(Service) \/ UpToDate(Service)
    BY StartUpService
  <1>9. \/ db'.schema = db.schema /\ beside' = beside
        \/ /\ db'.schema = db.schema + 1 /\ beside' = (i # Service)
           /\ proc' = proc /\ At(i, "migrate")
           /\ db.schema < Migrations[proc[i].release]
    BY StartUpSchema
  <1>10. StoppedInv'
    BY <1>5, <1>8 DEF StoppedInv, WantedInv
  <1>11. InstalledInv'
    <2> SUFFICES ASSUME Settled'
                 PROVE  wanted' /\ (At(Service, "down")' \/ proc'[Service].release = files'.bin)
      BY DEF InstalledInv
    <2>1. Settled
      BY <1>5 DEF Settled
    <2>2. wanted'
      BY <1>5, <2>1 DEF InstalledInv
    <2>3. At(Service, "down") \/ proc[Service].release = files'.bin
      BY <1>5, <2>1 DEF InstalledInv
    <2> QED
      BY <1>5, <1>8, <2>2, <2>3
  <1>12. SchemaInv'
    <2>1. CASE db'.schema = db.schema /\ beside' = beside
      BY <1>8, <2>1 DEF SchemaInv, PastMigrate, UpToDate
    <2>2. CASE proc' = proc /\ At(i, "migrate") /\ beside' = (i # Service)
      BY <2>2 DEF SchemaInv, PastMigrate
    <2> QED
      BY <1>9, <2>1, <2>2
  <1>13. EndInv'
    <2>1. CASE db'.schema = db.schema /\ beside' = beside
      BY <1>5, <2>1 DEF EndInv
    <2>2. CASE i # Service /\ beside' = (i # Service) /\ db'.schema = db.schema + 1
      <3>1. beside'
        BY <2>2
      <3>2. script'.by = Service /\ script'.end = "done"
                => db'.schema >= Migrations[script'.to]
        BY <1>5, <1>6, <1>7, <2>2 DEF EndInv
      <3> QED
        BY <1>5, <3>1, <3>2 DEF EndInv
    <2>3. CASE /\ i = Service /\ db'.schema = db.schema + 1 /\ At(i, "migrate")
               /\ db.schema < Migrations[proc[i].release]
      <3>1. script'.by = Service /\ script'.end = "done"
                => db'.schema >= Migrations[script'.to]
        BY <1>5, <1>6, <1>7, <2>3 DEF EndInv
      <3>2. script'.by = Service /\ script'.end = "rolled_back" =>
                files'.bin \in Releases /\ ~(db'.schema > Migrations[files'.bin])
        <4> HAVE script'.by = Service /\ script'.end = "rolled_back"
        <4>1. Settled /\ files.bin \in Releases
          BY <1>5 DEF Settled, EndInv
        <4>2. proc[Service].release = files.bin
          BY <2>3, <4>1 DEF InstalledInv
        <4>3. Migrations[files.bin] \in Nat /\ db.schema < Migrations[files.bin]
          BY <1>6, <2>3, <4>1, <4>2
        <4>4. db'.schema \in Nat /\ db'.schema <= Migrations[files.bin]
          BY <1>6, <2>3, <4>3
        <4> QED
          BY <1>5, <4>1, <4>3, <4>4
      <3> QED
        BY <3>1, <3>2 DEF EndInv
    <2> QED
      BY <1>9, <2>1, <2>2, <2>3
  <1> QED
    BY <1>2, <1>3, <1>4, <1>10, <1>11, <1>12, <1>13, <1>14

-----------------------------------------------------------------------------
(***************************************************************************)
(* Scripts.                                                                *)
(***************************************************************************)
\* A script writes the database only where it restores it, and of the processes
\* only that of the service.
LEMMA ScriptEffects ==
    ASSUME DeploymentTypeOK, DeploymentInv, Upgrade \/ Rollback
    PROVE  \/ UNCHANGED <<db, proc, cut, beside>>
           \/ Kill(Service) /\ UNCHANGED <<db, beside>>
           \/ Unused /\ Replace(Gone)
           \/ ~wanted /\ On("r_create") /\ Replace(Empty)
           \/ ~wanted /\ db = Empty /\ \E d \in Databases : Replace(d)
  <1> USE DEF Database, Stop, Stopped, StopNothing, Put, StartService, AwaitHealth
  <1>1. CASE Upgrade
    BY <1>1 DEF Upgrade, BeginScript, Backup, Snapshot, StopOld, PutBinary, Clear,
                Copy, Start, Health
  <1>2. CASE BackStop \/ BackBinary \/ BackClear \/ BackCopy \/ BackStart \/ BackHealth
    BY <1>2 DEF BackStop, BackBinary, BackClear, BackCopy, BackStart, BackHealth
  <1>3. CASE StartAnyway \/ StopForRestore \/ Drop \/ Interrupt
    BY <1>3 DEF StartAnyway, StopForRestore, Drop, Interrupt
  <1>4. CASE Load
    <2>1. On("r_load") /\ dump \in Databases /\ ~wanted
      BY <1>4 DEF Load, On, DeploymentInv, ScriptInv, RestoreSteps, StoppedInv, ServiceStopped
    <2>2. PartsOf(dump) \subseteq Databases
      <3>1. /\ Empty \in Databases /\ [dump EXCEPT !.owner = FALSE] \in Databases
            /\ [dump EXCEPT !.admin = FALSE, !.owner = FALSE] \in Databases
        BY <2>1 DEF Databases, Empty
      <3> QED
        BY <3>1 DEF PartsOf
    <2> QED
      BY <1>4, <2>1, <2>2 DEF Load
  <1>5. CASE Create
    BY <1>5 DEF Create, On, DeploymentInv, StoppedInv, ServiceStopped
  <1> QED
    BY <1>1, <1>2, <1>3, <1>4, <1>5 DEF Rollback

\* Every step of a script keeps the types.
LEMMA ScriptType ==
    ASSUME DeploymentTypeOK, DeploymentInv, Upgrade \/ Rollback
    PROVE  DeploymentTypeOK'
  <1>1. /\ db' \in Databases /\ proc' \in [Instances -> Processes]
        /\ cut' \in BOOLEAN /\ beside' \in BOOLEAN
    <2>1. CASE UNCHANGED <<db, proc, cut, beside>>
      BY <2>1 DEF DeploymentTypeOK
    <2>2. CASE Kill(Service) /\ UNCHANGED <<db, beside>>
      BY <2>2 DEF DeploymentTypeOK, Kill, Down, Processes, Phases
    <2>3. CASE Replace(Gone) \/ Replace(Empty)
      <3>1. Gone \in Databases /\ Empty \in Databases
        BY DEF Gone, Empty, Databases
      <3>2. (Gone.admin /\ ~Gone.owner) = FALSE /\ (Empty.admin /\ ~Empty.owner) = FALSE
        BY DEF Gone, Empty
      <3> QED
        BY <2>3, <3>1, <3>2 DEF DeploymentTypeOK, Replace
    <2>4. CASE \E d \in Databases : Replace(d)
      BY <2>4 DEF DeploymentTypeOK, Replace
    <2> QED
      BY <2>1, <2>2, <2>3, <2>4, ScriptEffects
  <1>2. /\ snapshot' \in Trees \cup {Nothing} /\ dump' \in Databases \cup {Nothing}
        /\ wanted' \in BOOLEAN
    BY DEF Upgrade, BeginScript, Backup, Snapshot, StopOld, PutBinary, Clear,
           Copy, Start, Health, Rollback, BackStop, BackBinary, BackClear, BackCopy,
           BackStart, BackHealth, StartAnyway, StopForRestore, Drop, Create, Load,
           Interrupt,
           Database, Stop, Stopped, StopNothing, Put, StartService, AwaitHealth, Replace,
           DeploymentTypeOK
  <1>3. files' \in Trees
    <2> USE DEF Put, DeploymentTypeOK, Trees, Contents
    <2>1. CASE PutBinary \/ Clear \/ Copy
      BY <2>1 DEF PutBinary, Clear, Copy, DeploymentInv, ScriptInv, UpgradeSteps, On
    <2>2. CASE BackBinary \/ BackClear \/ BackCopy
      BY <2>2 DEF BackBinary, BackClear, BackCopy, DeploymentInv, ScriptInv,
                  BeforeSnapshot, On
    <2> QED
      BY <2>1, <2>2 DEF Upgrade, BeginScript, Backup, Snapshot, StopOld,
           Start, Health, Rollback, BackStop, BackStart, BackHealth, StartAnyway,
           StopForRestore, Drop, Create, Load,
           Interrupt, Stop, StartService, AwaitHealth, Replace
  <1>4. script' \in Scripts
    <2> USE Moves DEF Steps, Ends
    <2>0. CASE BeginScript
      BY <2>0 DEF BeginScript, Scripts
    <2>1. CASE Upgrade
      BY <2>0, <2>1 DEF Upgrade, Backup, Snapshot, StopOld, PutBinary, Clear, Copy,
           Start, Health, Stop, Put, StartService, AwaitHealth
    <2>2. CASE Rollback
      BY <2>2 DEF Rollback, BackStop, BackBinary, BackClear, BackCopy,
           BackStart, BackHealth, StartAnyway, StopForRestore, Drop, Create, Load,
           Interrupt,
           BestEffort, OrIdentical, Stop, Put, StartService, AwaitHealth
    <2> QED
      BY <2>1, <2>2
  <1> QED
    BY <1>1, <1>2, <1>3, <1>4 DEF DeploymentTypeOK

\* The processes and the owner, whatever a script does.
LEMMA ScriptKeepsProcesses ==
    ASSUME DeploymentTypeOK, DeploymentInv, Upgrade \/ Rollback
    PROVE  PhaseInv' /\ OwnerInv' /\ SchemaInv'
  <1> USE ServiceAssumption
      DEF PhaseInv, OwnerInv, SchemaInv, PastMigrate, At
  <1>1. CASE UNCHANGED <<db, proc, cut, beside>>
    BY <1>1 DEF DeploymentInv
  <1>2. CASE Kill(Service) /\ UNCHANGED <<db, beside>>
    <2>1. /\ proc'[Service].at = "down"
          /\ \A i \in Instances \ {Service} : proc'[i] = proc[i]
      BY <1>2 DEF Kill, Down, DeploymentTypeOK
    <2> QED
      BY <1>2, <2>1 DEF DeploymentInv, Kill
  <1>3. CASE Unused /\ Replace(Gone)
    BY <1>3 DEF Unused, Replace, Gone, Empty
  <1>5. CASE ~wanted /\ On("r_create") /\ Replace(Empty)
    <2>1. \A i \in Instances : ~PastMigrate(i)
      BY <1>5 DEF DeploymentInv, DropInv
    <2> QED
      BY <1>5, <2>1 DEF Replace, Empty, DeploymentInv
  <1>4. CASE ~wanted /\ db = Empty /\ \E d \in Databases : Replace(d)
    <2>1. PICK d \in Databases : Replace(d)
      BY <1>4
    <2>2. /\ db' = d /\ d.schema \in Nat /\ proc' = proc /\ At(Service, "down")
          /\ cut' = (cut \/ (d.admin /\ ~d.owner))
      BY <1>4, <2>1 DEF Replace, DeploymentInv, StoppedInv, WantedInv, Databases
    <2>3. ~db.admin /\ db.schema = 0
      BY <1>4 DEF Empty
    <2>4. PhaseInv'
      <3> SUFFICES ASSUME NEW i \in Instances
                   PROVE  /\ ~At(i, "down") => proc[i].release \in Releases
                          /\ proc[i].at \notin {"owner", "bind", "serving"}
                          /\ PastMigrate(i) => d.schema >= Migrations[proc[i].release]
        BY <2>2
      <3>1. PastMigrate(i) => Migrations[proc[i].release] \in Nat
        BY ReleasesAssumption DEF DeploymentInv
      <3> QED
        BY <2>2, <2>3, <3>1 DEF DeploymentInv
    <2>5. OwnerInv' /\ SchemaInv'
      BY <2>2
    <2> QED
      BY <2>4, <2>5
  <1> QED
    BY <1>1, <1>2, <1>3, <1>4, <1>5, ScriptEffects

\* Whatever a script does, no process of a service that is to be down is up.
LEMMA ScriptWanted ==
    ASSUME DeploymentTypeOK, DeploymentInv, Upgrade \/ Rollback
    PROVE  WantedInv'
  <1>1. \/ UNCHANGED <<wanted, proc>>
        \/ Kill(Service)
        \/ wanted' = TRUE
    BY DEF Upgrade, BeginScript, Backup, Snapshot, StopOld, PutBinary, Clear,
           Copy, Start, Health, Rollback, BackStop, BackBinary, BackClear, BackCopy,
           BackStart, BackHealth, StartAnyway, StopForRestore, Drop, Create, Load,
           Interrupt,
           Database, Stop, Stopped, StopNothing, Put, StartService, AwaitHealth, Replace,
           DeploymentTypeOK
  <1>2. CASE UNCHANGED <<wanted, proc>>
    BY <1>2 DEF DeploymentInv, StoppedInv, WantedInv, At
  <1>3. CASE Kill(Service)
    BY <1>3, ServiceAssumption DEF Kill, Down, WantedInv, At, DeploymentTypeOK
  <1> QED
    BY <1>1, <1>2, <1>3 DEF WantedInv

\* A script that ends without a report, or goes on where nothing is known of the
\* files and the service.
LEMMA Retreat ==
    ASSUME DeploymentTypeOK, DeploymentInv, WantedInv',
           \/ Die
           \/ /\ ~On("idle") /\ snapshot' \in Trees
              /\ RollBack \/ Then("b_stop") \/ Then("b_best") \/ Then("idle")
    PROVE  /\ DropInv' /\ ScriptInv' /\ FilesInv' /\ StoppedInv'
           /\ InstalledInv' /\ EndInv'
  <1>1. /\ script'.at \in {"idle", "b_stop", "b_best"}
        /\ script'.end \in {"none", "died"}
        /\ script'.at # "idle" => script'.end = "none" /\ snapshot' \in Trees
    BY Moves DEF Steps, Ends, DeploymentInv, ScriptInv, On
  <1>2. DropInv' /\ ScriptInv'
    BY <1>1 DEF DropInv, ScriptInv, On, UpgradeSteps, BeforeSnapshot, RestoreSteps
  <1>3. FilesInv'
    BY <1>1 DEF FilesInv
  <1>4. StoppedInv'
    BY <1>1 DEF StoppedInv, WantedInv, ServiceStopped
  <1>5. InstalledInv' /\ EndInv'
    BY <1>1 DEF InstalledInv, EndInv, Settled
  <1> QED
    BY <1>2, <1>3, <1>4, <1>5

\* The files, the service and what is reported, at each step of upgrade.sh.
LEMMA UpgradeKeeps ==
    ASSUME DeploymentTypeOK, DeploymentInv, WantedInv', Upgrade
    PROVE  /\ DropInv' /\ ScriptInv' /\ FilesInv' /\ StoppedInv'
           /\ InstalledInv' /\ EndInv'
  <1> DEFINE Goal == /\ DropInv' /\ ScriptInv' /\ FilesInv' /\ StoppedInv'
                     /\ InstalledInv' /\ EndInv'
  <1>0. /\ ~On("idle") => script.end = "none"
        /\ script.at \in UpgradeSteps => script.to \in Releases
    BY DEF DeploymentInv, ScriptInv
  <1> USE DEF UpgradeSteps, On
  <1>1. CASE BeginScript
    <2>1. CASE \E r \in Releases : script' = [at |-> "backup", to |-> r, end |-> "none", by |-> Nothing]
      BY <2>1 DEF DropInv, ScriptInv, BeforeSnapshot, RestoreSteps, FilesInv, StoppedInv,
                  WantedInv, ServiceStopped, InstalledInv, EndInv, Settled
    <2>2. ASSUME NEW step \in {"b_stop", "r_stop"},
                 snapshot # Nothing, step = "r_stop" => dump # Nothing,
                 script' = [at |-> step, to |-> Nothing, end |-> "none", by |-> Nothing]
          PROVE  Goal
      <3>1. snapshot' \in Trees /\ (step = "r_stop" => dump' \in Databases)
        BY <1>1, <2>2 DEF BeginScript, Database, DeploymentTypeOK
      <3>2. script'.at = step /\ script'.end = "none"
        BY <2>2
      <3> QED
        BY <3>1, <3>2 DEF DropInv, ScriptInv, BeforeSnapshot, RestoreSteps, FilesInv, StoppedInv,
                          WantedInv, ServiceStopped, InstalledInv, EndInv, Settled
    <2> QED
      BY <1>1, <2>1, <2>2 DEF BeginScript
  <1>2. CASE Backup
    <2>1. CASE Die
      BY <2>1, Retreat
    <2>2. CASE Then("snapshot")
      <3>1. /\ script'.at = "snapshot" /\ script'.end = "none" /\ script'.to \in Releases
        BY <1>0, <1>2, <2>2, Moves DEF Backup, Steps
      <3> QED
        BY <3>1 DEF DropInv, ScriptInv, BeforeSnapshot, RestoreSteps, FilesInv, StoppedInv,
                    WantedInv, ServiceStopped, InstalledInv, EndInv, Settled
    <2> QED
      BY <1>2, <2>1, <2>2 DEF Backup
  <1>3. CASE Snapshot
    <2>1. CASE Die
      BY <2>1, Retreat
    <2>2. CASE Then("stop") /\ snapshot' = files
      <3>1. /\ script'.at = "stop" /\ script'.end = "none" /\ script'.to \in Releases
            /\ snapshot' \in Trees
        BY <1>0, <1>3, <2>2, Moves DEF Snapshot, Steps, DeploymentTypeOK
      <3> QED
        BY <3>1 DEF DropInv, ScriptInv, BeforeSnapshot, RestoreSteps, FilesInv, StoppedInv,
                    WantedInv, ServiceStopped, InstalledInv, EndInv, Settled
    <2> QED
      BY <1>3, <2>1, <2>2 DEF Snapshot
  <1>4. CASE StopOld \/ PutBinary \/ Clear \/ Copy \/ Start \/ Health
    <2>1. /\ script.end = "none" /\ script.to \in Releases /\ snapshot \in Trees
          /\ snapshot' = snapshot /\ ~On("idle")
          /\ script.at \in {"stop", "binary", "clear", "copy", "start", "health"}
      BY <1>0, <1>4 DEF StopOld, PutBinary, Clear, Copy, Start, Health, Stop, Put,
                        StartService, AwaitHealth, DeploymentInv, ScriptInv, BeforeSnapshot
    <2>2. CASE RollBack
      BY <2>1, <2>2, Retreat
    <2>3. CASE StopOld /\ ~RollBack
      <3>1. /\ script'.at = "binary" /\ script'.end = "none" /\ script'.to \in Releases
            /\ snapshot' \in Trees /\ wanted' = FALSE
        BY <2>1, <2>3, Moves DEF StopOld, Stop, Stopped, Steps
      <3> QED
        BY <3>1 DEF DropInv, ScriptInv, BeforeSnapshot, RestoreSteps, FilesInv, StoppedInv,
                    WantedInv, ServiceStopped, InstalledInv, EndInv, Settled
    <2>4. CASE PutBinary /\ ~RollBack
      <3>1. /\ script'.at = "clear" /\ script'.end = "none" /\ script'.to \in Releases
            /\ snapshot' \in Trees /\ wanted' = FALSE /\ files'.bin = script'.to
        BY <2>1, <2>4, Moves DEF PutBinary, Put, Steps, DeploymentTypeOK, Trees,
                    DeploymentInv, StoppedInv, ServiceStopped
      <3> QED
        BY <3>1 DEF DropInv, ScriptInv, BeforeSnapshot, RestoreSteps, FilesInv, StoppedInv,
                    WantedInv, ServiceStopped, InstalledInv, EndInv, Settled
    <2>5. CASE Clear /\ ~RollBack
      <3>1. /\ script'.at = "copy" /\ script'.end = "none" /\ script'.to \in Releases
            /\ snapshot' \in Trees /\ wanted' = FALSE /\ files'.bin = script'.to
        BY <2>1, <2>5, Moves DEF Clear, Put, Steps, DeploymentTypeOK, Trees,
                    DeploymentInv, StoppedInv, ServiceStopped, FilesInv
      <3> QED
        BY <3>1 DEF DropInv, ScriptInv, BeforeSnapshot, RestoreSteps, FilesInv, StoppedInv,
                    WantedInv, ServiceStopped, InstalledInv, EndInv, Settled
    <2>6. CASE Copy /\ ~RollBack
      <3>1. /\ script'.at = "start" /\ script'.end = "none" /\ script'.to \in Releases
            /\ snapshot' \in Trees /\ wanted' = FALSE /\ files' = Both(script'.to)
        BY <2>1, <2>6, Moves DEF Copy, Put, Steps, DeploymentTypeOK, Trees, Both,
                    DeploymentInv, StoppedInv, ServiceStopped, FilesInv
      <3> QED
        BY <3>1 DEF DropInv, ScriptInv, BeforeSnapshot, RestoreSteps, FilesInv, StoppedInv,
                    WantedInv, ServiceStopped, InstalledInv, EndInv, Settled
    <2>7. CASE Start /\ ~RollBack
      <3>1. /\ script'.at = "health" /\ script'.end = "none" /\ script'.to \in Releases
            /\ snapshot' \in Trees /\ wanted' = TRUE /\ files' = Both(script'.to)
            /\ At(Service, "down")'
        BY <2>1, <2>7, Moves DEF Start, StartService, Steps, At,
                    DeploymentInv, StoppedInv, WantedInv, ServiceStopped, FilesInv
      <3> QED
        BY <3>1 DEF DropInv, ScriptInv, BeforeSnapshot, RestoreSteps, FilesInv, StoppedInv,
                    WantedInv, ServiceStopped, InstalledInv, EndInv, Settled
    <2>8. CASE Health /\ ~RollBack
      <3>1. PICK i \in Instances : At(i, "serving") /\ Finish("done", i)
        BY <2>8 DEF Health, AwaitHealth
      <3>2. /\ script'.at = "idle" /\ script'.end = "done" /\ script'.to = script.to
            /\ script'.by = i /\ On("health")
            /\ UNCHANGED <<db, proc, wanted, files>>
        BY <2>1, <2>8, <3>1, Moves DEF Health, AwaitHealth, Ends, Database
      <3>3. /\ files = Both(script.to) /\ wanted
            /\ At(Service, "down") \/ proc[Service].release = files.bin
        BY <3>2 DEF DeploymentInv, FilesInv, InstalledInv, Settled
      <3>4. script'.by = Service => db'.schema >= Migrations[script'.to]
        <4> SUFFICES ASSUME i = Service
                     PROVE  db.schema >= Migrations[script.to]
          BY <3>2
        <4> QED
          BY <3>1, <3>3, ServiceAssumption DEF DeploymentInv, PhaseInv, PastMigrate, At, Both
      <3>5. InstalledInv' /\ FilesInv'
        BY <3>2, <3>3 DEF InstalledInv, Settled, At, FilesInv
      <3> QED
        BY <2>1, <3>2, <3>3, <3>4, <3>5 DEF DropInv, ScriptInv, BeforeSnapshot,
                    RestoreSteps, StoppedInv, WantedInv, ServiceStopped, EndInv
    <2> QED
      BY <1>4, <2>2, <2>3, <2>4, <2>5, <2>6, <2>7, <2>8
  <1> QED
    BY <1>1, <1>2, <1>3, <1>4 DEF Upgrade

\* The same at each step of rollback.sh, run by upgrade.sh or by itself.
LEMMA RollbackKeeps ==
    ASSUME DeploymentTypeOK, DeploymentInv, WantedInv', Rollback
    PROVE  /\ DropInv' /\ ScriptInv' /\ FilesInv' /\ StoppedInv'
           /\ InstalledInv' /\ EndInv'
  <1> USE DEF On
  <1>1. CASE Interrupt
    BY <1>1, Retreat DEF Interrupt
  <1>2. CASE StartAnyway
    <2>1. ~On("idle") /\ snapshot' \in Trees
      BY <1>2 DEF StartAnyway, StartService, DeploymentInv, ScriptInv, BeforeSnapshot
    <2> QED
      BY <1>2, <2>1, Retreat DEF StartAnyway, StartService
  <1>3. CASE StopForRestore \/ Drop \/ Create \/ Load
    <2>1. /\ script.end = "none" /\ dump' \in Databases /\ snapshot' \in Trees
          /\ ~On("idle")
      BY <1>3 DEF StopForRestore, Stop, Drop, Create, Load, Replace, Database,
                  DeploymentInv, ScriptInv, BeforeSnapshot, RestoreSteps
    <2>2. CASE Die \/ BestEffort \/ Then("b_stop")
      BY <2>1, <2>2, Retreat DEF BestEffort
    <2>3. CASE StopForRestore /\ ~Die
      <3>1. script'.at = "r_drop" /\ script'.end = "none" /\ wanted' = FALSE
        BY <2>1, <2>3, Moves DEF StopForRestore, Stop, Stopped, Steps
      <3> QED
        BY <2>1, <3>1 DEF DropInv, ScriptInv, UpgradeSteps, BeforeSnapshot, RestoreSteps, FilesInv,
                StoppedInv, WantedInv, ServiceStopped, InstalledInv, EndInv, Settled
    <2>4. CASE Drop /\ ~BestEffort
      <3>1. script'.at = "r_create" /\ script'.end = "none" /\ wanted' = FALSE
        BY <2>1, <2>4, Moves DEF Drop, Replace, Steps, DeploymentTypeOK, DeploymentInv,
                StoppedInv, ServiceStopped
      <3>2. DropInv'
        BY <2>4 DEF Drop, Replace, Gone, Empty, Unused, At, DropInv, PastMigrate
      <3> QED
        BY <2>1, <3>1, <3>2 DEF ScriptInv, UpgradeSteps, BeforeSnapshot, RestoreSteps, FilesInv,
                StoppedInv, WantedInv, ServiceStopped, InstalledInv, EndInv, Settled
    <2>5. CASE Create /\ ~BestEffort
      <3>1. script'.at = "r_load" /\ script'.end = "none" /\ wanted' = FALSE
        BY <2>1, <2>5, Moves DEF Create, Replace, Steps, DeploymentTypeOK, DeploymentInv,
                StoppedInv, ServiceStopped
      <3> QED
        BY <2>1, <3>1 DEF DropInv, ScriptInv, UpgradeSteps, BeforeSnapshot, RestoreSteps, FilesInv,
                StoppedInv, WantedInv, ServiceStopped, InstalledInv, EndInv, Settled
    <2> QED
      BY <1>3, <2>2, <2>3, <2>4, <2>5 DEF StopForRestore, Stop, Drop, Create, Load
  <1>4. CASE BackStop \/ BackBinary \/ BackClear \/ BackCopy \/ BackStart \/ BackHealth
    <2>1. /\ script.end = "none" /\ snapshot \in Trees /\ snapshot' = snapshot
          /\ ~On("idle")
      BY <1>4 DEF BackStop, BackBinary, BackClear, BackCopy, BackStart, BackHealth, Stop,
                  Put, StartService, AwaitHealth, DeploymentInv, ScriptInv, BeforeSnapshot
    <2>2. CASE Die \/ BestEffort
      BY <2>1, <2>2, Retreat DEF BestEffort
    <2>3. CASE BackStop /\ ~Die
      <3>1. /\ script'.at = "b_binary" /\ script'.end = "none" /\ snapshot' \in Trees
            /\ wanted' = FALSE
        BY <2>1, <2>3, Moves DEF BackStop, Stop, Stopped, Steps
      <3> QED
        BY <3>1 DEF DropInv, ScriptInv, UpgradeSteps, BeforeSnapshot, RestoreSteps, FilesInv,
                StoppedInv, WantedInv, ServiceStopped, InstalledInv, EndInv, Settled
    <2>4. CASE BackBinary /\ ~BestEffort
      <3>1. Then("b_clear") /\ files'.bin = snapshot.bin
        BY <2>1, <2>4 DEF BackBinary, Put, OrIdentical, DeploymentTypeOK, Trees
      <3>2. /\ script'.at = "b_clear" /\ script'.end = "none" /\ snapshot' \in Trees
            /\ wanted' = FALSE /\ files'.bin = snapshot'.bin
        BY <2>1, <2>4, <3>1, Moves DEF BackBinary, Put, Steps, DeploymentTypeOK,
                DeploymentInv, StoppedInv, ServiceStopped
      <3> QED
        BY <3>2 DEF DropInv, ScriptInv, UpgradeSteps, BeforeSnapshot, RestoreSteps, FilesInv,
                StoppedInv, WantedInv, ServiceStopped, InstalledInv, EndInv, Settled
    <2>5. CASE BackClear /\ ~BestEffort
      <3>1. /\ script'.at = "b_copy" /\ script'.end = "none" /\ snapshot' \in Trees
            /\ wanted' = FALSE /\ files'.bin = snapshot'.bin
        BY <2>1, <2>5, Moves DEF BackClear, Put, Steps, DeploymentTypeOK, Trees,
                DeploymentInv, StoppedInv, ServiceStopped, FilesInv
      <3> QED
        BY <3>1 DEF DropInv, ScriptInv, UpgradeSteps, BeforeSnapshot, RestoreSteps, FilesInv,
                StoppedInv, WantedInv, ServiceStopped, InstalledInv, EndInv, Settled
    <2>6. CASE BackCopy /\ ~BestEffort
      <3>1. /\ script'.at = "b_start" /\ script'.end = "none" /\ snapshot' \in Trees
            /\ wanted' = FALSE /\ files' = snapshot'
        <4>1. files.bin = snapshot.bin /\ files' = [files EXCEPT !.static = snapshot.static]
          BY <2>6 DEF BackCopy, Put, DeploymentInv, FilesInv
        <4>2. files' = snapshot
          BY <2>1, <4>1 DEF DeploymentTypeOK, Trees
        <4> QED
          BY <2>1, <2>6, <4>2, Moves DEF BackCopy, Put, Steps, DeploymentTypeOK,
                DeploymentInv, StoppedInv, ServiceStopped
      <3> QED
        BY <3>1 DEF DropInv, ScriptInv, UpgradeSteps, BeforeSnapshot, RestoreSteps, FilesInv,
                StoppedInv, WantedInv, ServiceStopped, InstalledInv, EndInv, Settled
    <2>7. CASE BackStart /\ ~Die
      <3>1. /\ script'.at = "b_health" /\ script'.end = "none" /\ snapshot' \in Trees
            /\ wanted' = TRUE /\ files' = snapshot' /\ At(Service, "down")'
        BY <2>1, <2>7, Moves DEF BackStart, StartService, Steps, At,
                DeploymentInv, StoppedInv, WantedInv, ServiceStopped, FilesInv
      <3> QED
        BY <3>1 DEF DropInv, ScriptInv, UpgradeSteps, BeforeSnapshot, RestoreSteps, FilesInv,
                StoppedInv, WantedInv, ServiceStopped, InstalledInv, EndInv, Settled
    <2>8. CASE BackHealth /\ ~Die
      <3>1. PICK i \in Instances : At(i, "serving") /\ Finish("rolled_back", i)
        BY <2>8 DEF BackHealth, AwaitHealth
      <3>2. /\ script'.at = "idle" /\ script'.end = "rolled_back"
            /\ script'.by = i /\ On("b_health")
            /\ UNCHANGED <<db, beside, proc, wanted, files>>
        BY <2>8, <3>1, Moves DEF BackHealth, AwaitHealth, Ends, Database
      <3>3. /\ files = snapshot /\ wanted
            /\ At(Service, "down") \/ proc[Service].release = files.bin
        BY <3>2 DEF DeploymentInv, FilesInv, InstalledInv, Settled
      <3>4. EndInv'
        <4> SUFFICES ASSUME i = Service
                     PROVE  files.bin \in Releases /\ (db.schema > Migrations[files.bin] => beside)
          BY <3>2 DEF EndInv
        <4>1. /\ files.bin \in Releases
              /\ db.schema = Migrations[files.bin] \/ beside
          BY <3>1, <3>3, ServiceAssumption
             DEF DeploymentInv, PhaseInv, SchemaInv, PastMigrate, At
        <4>2. db.schema \in Nat /\ Migrations[files.bin] \in Nat
          BY <4>1, ReleasesAssumption DEF DeploymentTypeOK, Databases
        <4> QED
          BY <4>1, <4>2
      <3>5. InstalledInv' /\ FilesInv'
        BY <2>1, <3>2, <3>3 DEF InstalledInv, Settled, At, FilesInv
      <3> QED
        BY <2>1, <3>2, <3>3, <3>4, <3>5 DEF DropInv, ScriptInv, UpgradeSteps, BeforeSnapshot,
                RestoreSteps, StoppedInv, WantedInv, ServiceStopped
    <2> QED
      BY <1>4, <2>2, <2>3, <2>4, <2>5, <2>6, <2>7, <2>8
  <1> QED
    BY <1>1, <1>2, <1>3, <1>4 DEF Rollback

-----------------------------------------------------------------------------
(***************************************************************************)
(* What is so in every reachable state.                                    *)
(***************************************************************************)
\* The invariant holds in every reachable state.
LEMMA DeploymentInvariant == DeploymentSpec => [](DeploymentTypeOK /\ DeploymentInv)
  <1>1. DeploymentInit => DeploymentTypeOK /\ DeploymentInv
    <2> SUFFICES ASSUME DeploymentInit
                 PROVE  DeploymentTypeOK /\ DeploymentInv
      OBVIOUS
    <2> USE ReleasesAssumption, ServiceAssumption DEF DeploymentInit
    <2>1. DeploymentTypeOK
      BY DEF DeploymentTypeOK, Databases, Empty, Processes, Phases, Down, Trees, Contents,
             Scripts, Steps, Ends
    <2>2. PhaseInv /\ OwnerInv /\ DropInv /\ SchemaInv
      BY DEF On, DropInv, PhaseInv, OwnerInv, SchemaInv, PastMigrate, At, Down, Empty
    <2>3. ScriptInv /\ FilesInv /\ StoppedInv /\ InstalledInv /\ EndInv
      BY DEF ScriptInv, FilesInv, StoppedInv, WantedInv, InstalledInv, EndInv, Settled, On,
             UpgradeSteps, BeforeSnapshot, RestoreSteps, ServiceStopped
    <2> QED
      BY <2>1, <2>2, <2>3 DEF DeploymentInv
  <1>2. DeploymentTypeOK /\ DeploymentInv /\ [DeploymentNext]_deploymentVars
            => DeploymentTypeOK' /\ DeploymentInv'
    <2> SUFFICES ASSUME DeploymentTypeOK, DeploymentInv, [DeploymentNext]_deploymentVars
                 PROVE  DeploymentTypeOK' /\ DeploymentInv'
      OBVIOUS
    <2>1. CASE \E i \in Instances : StartUp(i)
      BY <2>1, StartUpType, StartUpKeeps
    <2>2. CASE Upgrade
      BY <2>2, ScriptType, ScriptKeepsProcesses, ScriptWanted, UpgradeKeeps
         DEF DeploymentInv
    <2>3. CASE Rollback
      BY <2>3, ScriptType, ScriptKeepsProcesses, ScriptWanted, RollbackKeeps
         DEF DeploymentInv
    <2>4. CASE UNCHANGED deploymentVars
      BY <2>4 DEF deploymentVars, DeploymentTypeOK, DeploymentInv, PhaseInv, OwnerInv, DropInv,
                  SchemaInv, PastMigrate, ScriptInv, FilesInv, StoppedInv, WantedInv, InstalledInv,
                  EndInv, Settled, On, At
    <2> QED
      BY <2>1, <2>2, <2>3, <2>4 DEF DeploymentNext
  <1> QED
    BY <1>1, <1>2, PTL DEF DeploymentSpec

\* Every reachable state of database, processes, files and scripts is well typed.
THEOREM DeploymentTypeCorrect == DeploymentSpec => []DeploymentTypeOK
  BY DeploymentInvariant, PTL

\* The first administrator is the owner, however many processes start at once and
\* whichever of them dies or fails, unless one was cut off between the two statements
\* of ensure_admin (src/auth.rs); nobody serves without an administrator.
THEOREM OwnerSafe == DeploymentSpec => []OwnerUnlessCut
  <1>1. DeploymentInv => OwnerUnlessCut
    BY DEF DeploymentInv, OwnerInv, PhaseInv, OwnerUnlessCut, At
  <1> QED
    BY <1>1, DeploymentInvariant, PTL

\* What upgrade.sh and rollback.sh report holds until the next script begins, whatever
\* failed before and whatever the processes do meanwhile: the files are those of the new
\* release or of the snapshot, and the service is to be up; and if it was the service
\* that answered the health check, the schema fits its binary (veil_wait_healthz takes
\* the answer of any process on the address, scripts/lib.sh).
THEOREM ReportSafe == DeploymentSpec => []EndsAsReported
  <1>1. DeploymentInv => EndsAsReported
    BY DEF DeploymentInv, FilesInv, InstalledInv, Settled, EndInv, Both, EndsAsReported
  <1> QED
    BY <1>1, DeploymentInvariant, PTL

-----------------------------------------------------------------------------
(***************************************************************************)
(* Captcha: the table and the requests on their way to it.                 *)
(***************************************************************************)
Step(r) == \/ Generate(r) \/ Insert(r) \/ Submit(r)
           \/ Missing(r) \/ Wrong(r) \/ Right(r)

\* An id is inserted by the request that drew it and by no other; a record in
\* the table is of a drawn id that is not being inserted any more, was never
\* accepted and has guesses left; an id that has no record yet was never
\* accepted.
CaptchaInv ==
    /\ \A r \in Requests : pc[r] # "idle" => loc[r] \in drawn
    /\ \A r, q \in Requests :
           pc[r] = "insert" /\ pc[q] = "insert" /\ loc[r] = loc[q] => r = q
    /\ \A i \in challenges : i \in drawn \ Inserting /\ attempts[i] < MaxAttempts
    /\ \A i \in challenges \cup Inserting \cup (Ids \ drawn) : accepted[i] = 0
    /\ \A i \in Ids : attempts[i] <= MaxAttempts

\* The ids that are being inserted, after a step of request r.
LEMMA InsertingStep ==
    ASSUME TypeOK, CaptchaInv, NEW r \in Requests
    PROVE  /\ Generate(r) => Inserting' = Inserting \cup {loc'[r]}
           /\ Insert(r) => Inserting' = Inserting \ {loc[r]} /\ loc[r] \in Inserting
           /\ Submit(r) \/ Missing(r) \/ Wrong(r) \/ Right(r)
                  => Inserting' = Inserting
  <1> USE DEF TypeOK, Inserting, Goto, Done
  <1>1. Generate(r) => Inserting' = Inserting \cup {loc'[r]}
    BY DEF Generate
  <1>2. Insert(r) => Inserting' = Inserting \ {loc[r]} /\ loc[r] \in Inserting
    BY DEF Insert, CaptchaInv
  <1>3. Submit(r) \/ Missing(r) \/ Wrong(r) \/ Right(r) => Inserting' = Inserting
    BY DEF Submit, Missing, Wrong, Right
  <1> QED
    BY <1>1, <1>2, <1>3

\* Making room only removes records.
LEMMA RoomInSubset ==
    ASSUME NEW S, NEW kept, RoomIn(S, kept)
    PROVE  kept \subseteq S
  BY DEF RoomIn, Oldest

\* Every step of a request keeps the types and the invariant.
LEMMA StepInv ==
    ASSUME TypeOK, CaptchaInv, NEW r \in Requests, Step(r)
    PROVE  TypeOK' /\ CaptchaInv'
  <1> USE LimitsAssumption, NoneAssumption DEF Goto, Done
  <1>1. CASE Generate(r)
    <2>1. PICK i \in Ids \ drawn :
              /\ drawn' = drawn \cup {i} /\ signed' = signed \cup {i}
              /\ expires' = [expires EXCEPT ![i] = Expiry]
              /\ Goto(r, "insert", i)
      BY <1>1 DEF Generate
    <2>2. Inserting' = Inserting \cup {i}
      BY <1>1, <2>1, InsertingStep DEF TypeOK
    <2>3. Expiry \in Nat
      BY DEF Expiry, TypeOK
    <2>4. TypeOK'
      BY <1>1, <2>1, <2>3 DEF Generate, TypeOK
    <2> QED
      BY <1>1, <2>1, <2>2, <2>4 DEF Generate, TypeOK, CaptchaInv
  <1>2. CASE Insert(r)
    <2>1. PICK kept \in SUBSET challenges : challenges' = kept \cup {loc[r]}
      BY <1>2 DEF Insert
    <2>2. Inserting' = Inserting \ {loc[r]} /\ loc[r] \in Inserting
      BY <1>2, InsertingStep
    <2>3. loc[r] \in Ids /\ loc[r] \in drawn
      BY <1>2 DEF Insert, CaptchaInv, TypeOK
    <2>4. TypeOK'
      BY <1>2, <2>1, <2>3 DEF Insert, TypeOK
    <2> QED
      BY <1>2, <2>1, <2>2, <2>3, <2>4 DEF Insert, TypeOK, CaptchaInv
  <1>3. CASE Submit(r) \/ Missing(r)
    <2>1. Inserting' = Inserting
      BY <1>3, InsertingStep
    <2> QED
      BY <1>3, <2>1 DEF Submit, Missing, TypeOK, CaptchaInv, Published
  <1>4. CASE Wrong(r)
    <2>1. Inserting' = Inserting
      BY <1>4, InsertingStep
    <2>2. TypeOK'
      BY <1>4 DEF Wrong, TypeOK
    <2> QED
      BY <1>4, <2>1, <2>2 DEF Wrong, Exhausted, TypeOK, CaptchaInv
  <1>5. CASE Right(r)
    <2>1. Inserting' = Inserting
      BY <1>5, InsertingStep
    <2>2. TypeOK'
      BY <1>5 DEF Right, Removed, TypeOK
    <2> QED
      BY <1>5, <2>1, <2>2 DEF Right, Removed, TypeOK, CaptchaInv
  <1> QED
    BY <1>1, <1>2, <1>3, <1>4, <1>5 DEF Step

\* The types and the invariant hold in every reachable state.
LEMMA CaptchaInvariant == Spec => [](TypeOK /\ CaptchaInv)
  <1>1. Init => TypeOK /\ CaptchaInv
    BY LimitsAssumption DEF Init, TypeOK, CaptchaInv, Inserting
  <1>2. TypeOK /\ CaptchaInv /\ [Next]_vars => TypeOK' /\ CaptchaInv'
    <2> SUFFICES ASSUME TypeOK, CaptchaInv, [Next]_vars
                 PROVE  TypeOK' /\ CaptchaInv'
      OBVIOUS
    <2>1. CASE \E r \in Requests : Step(r)
      BY <2>1, StepInv
    <2>2. CASE Restart
      BY <2>2 DEF Restart, TypeOK, CaptchaInv, Inserting
    <2>3. CASE Tick
      BY <2>3, LimitsAssumption DEF Tick, TypeOK, CaptchaInv, Inserting
    <2>4. CASE UNCHANGED vars
      BY <2>4 DEF vars, TypeOK, CaptchaInv, Inserting
    <2> QED
      BY <2>1, <2>2, <2>3, <2>4 DEF Next, Step
  <1> QED
    BY <1>1, <1>2, PTL DEF Spec

\* Every reachable state of the captcha table is well typed.
THEOREM CaptchaTypeCorrect == Spec => []TypeOK
  BY CaptchaInvariant, PTL

\* No captcha takes more than MAX_ATTEMPTS wrong answers, and one that took as
\* many is gone (verify counts and removes under one lock).
THEOREM GuessesSafe == Spec => []GuessesBounded
  <1>1. TypeOK /\ CaptchaInv => GuessesBounded
    BY DEF TypeOK, CaptchaInv, GuessesBounded
  <1> QED
    BY <1>1, CaptchaInvariant, PTL

-----------------------------------------------------------------------------
(***************************************************************************)
(* The size of the table.                                                  *)
(***************************************************************************)
TableInv == IsFiniteSet(challenges) /\ Cardinality(challenges) <= MaxChallenges

\* What is left after making room is at least one short of the limit.
LEMMA RoomForOne ==
    ASSUME TableInv, NEW kept, RoomIn(Retained, kept)
    PROVE  IsFiniteSet(kept) /\ Cardinality(kept) <= MaxChallenges - 1
  <1>1. /\ IsFiniteSet(Retained) /\ Cardinality(Retained) <= MaxChallenges
        /\ Cardinality(Retained) \in Nat /\ MaxChallenges \in Nat
    BY FS_Subset, FS_CardinalityType, LimitsAssumption DEF TableInv, Retained
  <1>2. CASE Cardinality(Retained) >= MaxChallenges
    <2>1. PICK i \in Oldest(Retained) : kept = Retained \ {i}
      BY <1>2 DEF RoomIn
    <2>2. i \in Retained
      BY DEF Oldest
    <2>3. IsFiniteSet(kept) /\ Cardinality(kept) = Cardinality(Retained) - 1
      BY <1>1, <2>1, <2>2, FS_RemoveElement
    <2> QED
      BY <1>1, <2>3
  <1>3. CASE ~(Cardinality(Retained) >= MaxChallenges)
    BY <1>1, <1>3 DEF RoomIn
  <1> QED
    BY <1>2, <1>3

\* The table never holds more than MAX_CHALLENGES records.
THEOREM TableSafe == Spec => []TableBounded
  <1>1. Init => TableInv
    BY FS_EmptySet, LimitsAssumption DEF Init, TableInv
  <1>2. TableInv /\ [Next]_vars => TableInv'
    <2> SUFFICES ASSUME TableInv, [Next]_vars
                 PROVE  TableInv'
      OBVIOUS
    <2>1. ASSUME NEW r \in Requests, Insert(r)
          PROVE  TableInv'
      <3>1. PICK kept : RoomIn(Retained, kept) /\ challenges' = kept \cup {loc[r]}
        BY <2>1 DEF Insert
      <3>2. IsFiniteSet(kept) /\ Cardinality(kept) <= MaxChallenges - 1
        BY <3>1, RoomForOne
      <3>3. /\ IsFiniteSet(challenges')
            /\ Cardinality(challenges') <= Cardinality(kept) + 1
        BY <3>1, <3>2, FS_AddElement, FS_CardinalityType
      <3>4. /\ Cardinality(challenges') \in Nat /\ Cardinality(kept) \in Nat
            /\ MaxChallenges \in Nat
        BY <3>2, <3>3, FS_CardinalityType, LimitsAssumption
      <3> QED
        BY <3>2, <3>3, <3>4 DEF TableInv
    <2>2. ASSUME challenges' \subseteq challenges
          PROVE  TableInv'
      <3>1. /\ IsFiniteSet(challenges')
            /\ Cardinality(challenges') <= Cardinality(challenges)
            /\ Cardinality(challenges') \in Nat /\ Cardinality(challenges) \in Nat
        BY <2>2, FS_Subset, FS_CardinalityType DEF TableInv
      <3> QED
        BY <3>1, LimitsAssumption DEF TableInv
    <2>3. \/ \E r \in Requests : Insert(r)
          \/ challenges' \subseteq challenges
      BY DEF Next, Generate, Submit, Missing, Wrong, Right, Removed, Restart,
             Tick, vars
    <2> QED
      BY <2>1, <2>2, <2>3
  <1>3. TableInv => TableBounded
    BY DEF TableInv, TableBounded
  <1> QED
    BY <1>1, <1>2, <1>3, PTL DEF Spec

-----------------------------------------------------------------------------
(***************************************************************************)
(* The table implements tokens that are used once.                         *)
(***************************************************************************)

\* A step that withdraws records (and ids on their way into the table) and
\* inserts at most one is a renewal of the tokens.
LEMMA RenewStep ==
    ASSUME TypeOK, CaptchaInv, accepted' = accepted,
           NEW issue \in SUBSET Ids, NEW withdraw \in SUBSET Ids,
           issue \subseteq Inserting,
           withdraw \subseteq challenges \cup Inserting,
           issue \cap withdraw = {},
           challenges' = (challenges \ withdraw) \cup issue,
           Inserting' = Inserting \ (issue \cup withdraw),
           drawn' = drawn
    PROVE  Token!Next
  <1>1. \A i \in Inserting : i \in drawn /\ i \notin challenges
    BY DEF CaptchaInv, Inserting
  <1>2. \A t \in issue : TokenState[t] = "unissued"
    BY <1>1 DEF TokenState, CaptchaInv
  <1>3. \A t \in withdraw : TokenState[t] \in {"unissued", "live"}
    BY <1>1 DEF TokenState, CaptchaInv
  <1>4. ASSUME NEW i \in Ids
        PROVE  TokenState'[i] = IF i \in issue THEN "live"
                                ELSE IF i \in withdraw THEN "void"
                                ELSE TokenState[i]
    <2>1. CASE i \in issue
      BY <2>1 DEF TokenState
    <2>2. CASE i \in withdraw
      BY <1>1, <2>2 DEF TokenState, CaptchaInv
    <2>3. CASE i \notin issue \cup withdraw
      BY <2>3 DEF TokenState
    <2> QED
      BY <2>1, <2>2, <2>3
  <1>5. TokenState' = [i \in Ids |-> IF i \in issue THEN "live"
                                     ELSE IF i \in withdraw THEN "void"
                                     ELSE TokenState[i]]
    BY <1>4 DEF TokenState
  <1>6. Token!Renew(issue, withdraw)
    BY <1>2, <1>3, <1>5 DEF Token!Renew
  <1> QED
    BY <1>6 DEF Token!Next

\* Every step of the table is a step of the tokens or leaves them alone.
LEMMA TokenStep ==
    ASSUME TypeOK, CaptchaInv, [Next]_vars
    PROVE  [Token!Next]_(Token!vars)
  <1>1. ASSUME NEW r \in Requests, Generate(r)
        PROVE  [Token!Next]_(Token!vars)
    <2>1. PICK i \in Ids \ drawn : drawn' = drawn \cup {i} /\ loc'[r] = i
      BY <1>1 DEF Generate, Goto, TypeOK
    <2>2. Inserting' = Inserting \cup {i}
      BY <1>1, <2>1, InsertingStep
    <2>3. i \notin challenges /\ accepted[i] = 0
      BY <2>1 DEF CaptchaInv
    <2>4. TokenState' = TokenState
      BY <1>1, <2>1, <2>2, <2>3 DEF Generate, TokenState
    <2> QED
      BY <1>1, <2>4 DEF Generate, Token!vars
  <1>2. ASSUME NEW r \in Requests, Insert(r)
        PROVE  [Token!Next]_(Token!vars)
    <2>1. PICK kept \in SUBSET challenges : challenges' = kept \cup {loc[r]}
      BY <1>2 DEF Insert
    <2>2. Inserting' = Inserting \ {loc[r]} /\ loc[r] \in Inserting
      BY <1>2, InsertingStep
    <2>3. loc[r] \in Ids /\ loc[r] \notin challenges
      BY <2>2 DEF CaptchaInv, Inserting, TypeOK
    <2> DEFINE gone == challenges \ kept
    <2>4. /\ gone \subseteq challenges /\ gone \cap Inserting = {}
          /\ challenges' = (challenges \ gone) \cup {loc[r]}
          /\ Inserting' = Inserting \ ({loc[r]} \cup gone)
          /\ gone \in SUBSET Ids
      BY <2>1, <2>2, <2>3 DEF CaptchaInv, TypeOK
    <2> DEFINE new == {loc[r]}
    <2>5. /\ new \in SUBSET Ids /\ new \subseteq Inserting /\ new \cap gone = {}
          /\ gone \subseteq challenges \cup Inserting
          /\ challenges' = (challenges \ gone) \cup new
          /\ Inserting' = Inserting \ (new \cup gone)
      BY <2>2, <2>3, <2>4
    <2>6. accepted' = accepted /\ drawn' = drawn
      BY <1>2 DEF Insert
    <2> HIDE DEF gone, new
    <2>7. Token!Next
      BY <2>4, <2>5, <2>6, RenewStep
    <2> QED
      BY <2>7
  <1>3. ASSUME NEW r \in Requests, Submit(r) \/ Missing(r)
        PROVE  [Token!Next]_(Token!vars)
    <2>1. Inserting' = Inserting
      BY <1>3, InsertingStep
    <2> QED
      BY <1>3, <2>1 DEF Submit, Missing, TokenState, Token!vars
  <1>4. ASSUME NEW r \in Requests, Wrong(r)
        PROVE  [Token!Next]_(Token!vars)
    <2>1. Inserting' = Inserting /\ loc[r] \notin Inserting
      BY <1>4, InsertingStep DEF Wrong, CaptchaInv
    <2>2. loc[r] \in challenges /\ challenges \in SUBSET Ids
      BY <1>4 DEF Wrong, TypeOK
    <2>3. CASE challenges' = challenges \ {loc[r]}
      <3> DEFINE gone == {loc[r]}
                 new == {}
      <3>1. /\ new \in SUBSET Ids /\ gone \in SUBSET Ids /\ new \subseteq Inserting
            /\ new \cap gone = {} /\ gone \subseteq challenges \cup Inserting
            /\ challenges' = (challenges \ gone) \cup new
            /\ Inserting' = Inserting \ (new \cup gone)
        BY <2>1, <2>2, <2>3
      <3>2. accepted' = accepted /\ drawn' = drawn
        BY <1>4 DEF Wrong
      <3> HIDE DEF gone, new
      <3>3. Token!Next
        BY <3>1, <3>2, RenewStep
      <3> QED
        BY <3>3
    <2>4. CASE challenges' = challenges
      BY <1>4, <2>1, <2>4 DEF Wrong, TokenState, Token!vars
    <2> QED
      BY <1>4, <2>3, <2>4 DEF Wrong
  <1>5. ASSUME NEW r \in Requests, Right(r)
        PROVE  [Token!Next]_(Token!vars)
    <2>1. Inserting' = Inserting
      BY <1>5, InsertingStep
    <2>2. loc[r] \in challenges /\ loc[r] \in Ids /\ accepted[loc[r]] = 0
      BY <1>5 DEF Right, TypeOK, CaptchaInv
    <2>3. TokenState[loc[r]] = "live"
      BY <2>2 DEF TokenState
    <2>4. accepted' = [accepted EXCEPT ![loc[r]] = @ + 1] /\ drawn' = drawn
          /\ challenges' = challenges \ {loc[r]}
      BY <1>5 DEF Right, Removed
    <2>5. TokenState' = [TokenState EXCEPT ![loc[r]] = "spent"]
      <3>1. ASSUME NEW i \in Ids
            PROVE  TokenState'[i] = IF i = loc[r] THEN "spent" ELSE TokenState[i]
        <4>1. CASE i = loc[r]
          <5>1. accepted'[i] = 1 /\ i \notin challenges'
            BY <2>2, <2>4, <4>1 DEF TypeOK
          <5> QED
            BY <4>1, <5>1 DEF TokenState
        <4>2. CASE i # loc[r]
          <5>1. /\ accepted'[i] = accepted[i]
                /\ i \in challenges' <=> i \in challenges
            BY <2>4, <4>2 DEF TypeOK
          <5> QED
            BY <2>1, <2>4, <4>2, <5>1 DEF TokenState
        <4> QED
          BY <4>1, <4>2
      <3> QED
        BY <2>2, <3>1 DEF TokenState
    <2>6. Token!Accept(loc[r])
      BY <2>3, <2>4, <2>5 DEF Token!Accept
    <2> QED
      BY <2>2, <2>6 DEF Token!Next
  <1>6. CASE Restart
    <2>1. /\ Inserting' = {} /\ Inserting \in SUBSET Ids /\ challenges \in SUBSET Ids
      BY <1>6 DEF Restart, Inserting, CaptchaInv, TypeOK
    <2> DEFINE gone == challenges \cup Inserting
               new == {}
    <2>2. /\ new \in SUBSET Ids /\ gone \in SUBSET Ids /\ new \subseteq Inserting
          /\ new \cap gone = {} /\ gone \subseteq challenges \cup Inserting
          /\ challenges' = (challenges \ gone) \cup new
          /\ Inserting' = Inserting \ (new \cup gone)
      BY <1>6, <2>1 DEF Restart
    <2>3. accepted' = accepted /\ drawn' = drawn
      BY <1>6 DEF Restart
    <2> HIDE DEF gone, new
    <2>4. Token!Next
      BY <2>2, <2>3, RenewStep
    <2> QED
      BY <2>4
  <1>7. CASE Tick \/ UNCHANGED vars
    BY <1>7 DEF Tick, vars, TokenState, Inserting, Token!vars
  <1> QED
    BY <1>1, <1>2, <1>3, <1>4, <1>5, <1>6, <1>7 DEF Next

\* Every behaviour of the table is a behaviour of tokens that are accepted at
\* most once and only while they are live (src/captcha.rs, verify).
THEOREM CaptchaRefinement == Spec => SingleUse
  <1>1. Init => Token!Init
    BY DEF Init, Token!Init, TokenState, Inserting
  <1>2. TypeOK /\ CaptchaInv /\ [Next]_vars => [Token!Next]_(Token!vars)
    BY TokenStep
  <1> QED
    BY <1>1, <1>2, CaptchaInvariant, PTL DEF Spec, SingleUse, Token!Spec

=============================================================================
