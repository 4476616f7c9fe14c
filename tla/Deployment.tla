----------------------------- MODULE Deployment -----------------------------
(***************************************************************************)
(* From an empty database to a serving forum, and from one release to the  *)
(* next: main of src/main.rs with Store::connect and ensure_admin, and the *)
(* scripts upgrade.sh and rollback.sh around it.                           *)
(*                                                                         *)
(* A process migrates the database, one transaction for each migration,    *)
(* makes the first administrator, a statement each, binds the address and  *)
(* serves; it is killed or fails at any of these steps, and another        *)
(* process may do the same on the same database and the same address.  The *)
(* service manager runs one of them and starts it again after a failure.   *)
(* Every step of a script may fail, in which case it goes on with the      *)
(* rollback, and a script may be interrupted.                              *)
(*                                                                         *)
(* The settings and the board that a start inserts where none is left are  *)
(* left out: an administrator may delete the last board at any time.       *)
(*                                                                         *)
(* Init, Next, Spec and TypeOK carry the module's name, so that a module   *)
(* can extend it beside a component of the process it starts.              *)
(***************************************************************************)
EXTENDS Integers

CONSTANTS
    Releases,
    Migrations,     \* how many migrations a release has embedded
    First,          \* the release that install.sh has put in place
    Instances,      \* processes
    Service,        \* the one the service manager runs; others are started by hand
    Nothing

ASSUME ReleasesAssumption ==
    /\ First \in Releases
    /\ Migrations \in [Releases -> Nat]
    /\ Releases \cap {"none", "part"} = {} /\ Nothing \notin Releases
ASSUME ServiceAssumption == Service \in Instances

VARIABLES
    db,         \* what of the database matters here
    proc,       \* [Instances -> Processes]
    files,      \* the installed binary and static/
    snapshot,   \* the newest one, or Nothing
    dump,       \* the newest backup of the database, or Nothing
    wanted,     \* is the service to be up?
    script,     \* the script under way, and how the last one ended
    cut,        \* history: a process died between the two statements of
                \* ensure_admin, or a database from between them was restored
    beside      \* history: the last migration was not applied by the service

deploymentVars == <<db, proc, files, snapshot, dump, wanted, script, cut, beside>>

\* Is there a database at all?  schema counts the migrations applied; admin and
\* owner are the rows that the first start inserts.
Databases == [there : BOOLEAN, schema : Nat, admin : BOOLEAN, owner : BOOLEAN]
Empty == [there |-> TRUE, schema |-> 0, admin |-> FALSE, owner |-> FALSE]
Gone == [Empty EXCEPT !.there = FALSE]

\* The statement a process executes next.
Phases == {"down", "migrate", "users", "admin", "owner", "bind", "serving"}
Processes == [at : Phases, release : Releases \cup {Nothing}]
Down == [at |-> "down", release |-> Nothing]

\* A file that could not be written is partly there, and so is a static/ that was
\* made but not filled; only a whole binary runs.
Contents == Releases \cup {"none", "part"}
Trees == [bin : Contents, static : Contents]

\* The step a script executes next: of upgrade.sh to a release, then of
\* rollback.sh, from "r_" for the database and "b_" for the files.
Steps == {"idle", "backup", "snapshot", "stop", "binary", "clear", "copy", "start",
          "health", "r_stop", "r_drop", "r_create", "r_load", "b_stop", "b_binary",
          "b_clear", "b_copy", "b_start", "b_health", "b_best"}
Ends == {"none", "done", "rolled_back", "died"}
\* by is the process whose answer a script took for the health of the service.
Scripts == [at : Steps, to : Releases \cup {Nothing}, end : Ends,
            by : Instances \cup {Nothing}]

DeploymentTypeOK ==
    /\ db \in Databases
    /\ proc \in [Instances -> Processes]
    /\ files \in Trees
    /\ snapshot \in Trees \cup {Nothing}
    /\ dump \in Databases \cup {Nothing}
    /\ wanted \in BOOLEAN
    /\ script \in Scripts
    /\ cut \in BOOLEAN
    /\ beside \in BOOLEAN

DeploymentInit ==
    /\ db = Empty
    /\ proc = [i \in Instances |-> Down]
    /\ files = [bin |-> First, static |-> First]
    /\ snapshot = Nothing
    /\ dump = Nothing
    /\ wanted = TRUE
    /\ script = [at |-> "idle", to |-> Nothing, end |-> "none", by |-> Nothing]
    /\ cut = FALSE
    /\ beside = FALSE

-----------------------------------------------------------------------------
(***************************************************************************)
(* A process starts.                                                       *)
(***************************************************************************)

At(i, phase) == proc[i].at = phase
Enter(i, phase) == proc' = [proc EXCEPT ![i].at = phase]
Outside == <<files, snapshot, dump, wanted, script>>

\* The process ends.
Kill(i) ==
    /\ proc' = [proc EXCEPT ![i] = Down]
    /\ cut' = (cut \/ At(i, "owner"))

\* The service manager, or somebody, runs the installed binary.
Exec(i) ==
    /\ At(i, "down")
    /\ files.bin \in Releases
    /\ i = Service => wanted
    /\ proc' = [proc EXCEPT ![i] = [at |-> "migrate", release |-> files.bin]]
    /\ UNCHANGED <<db, Outside, cut, beside>>

\* Store::connect: the database must be there; sqlx::migrate! applies what is missing,
\* one transaction each, under a lock, and refuses a migration it does not know.
RunsAny(i) == db.there /\ db.schema >= Migrations[proc[i].release]
UpToDate(i) == db.there /\ db.schema = Migrations[proc[i].release]
Migrate(i) ==
    /\ At(i, "migrate")
    /\ db.there
    /\ db.schema < Migrations[proc[i].release]
    /\ db' = [db EXCEPT !.schema = @ + 1]
    /\ beside' = (i # Service)
    /\ UNCHANGED <<proc, Outside, cut>>
Migrated(i) ==
    /\ At(i, "migrate")
    /\ UpToDate(i)
    /\ Enter(i, "users")
    /\ UNCHANGED <<db, Outside, cut, beside>>

\* ensure_admin: COUNT, the INSERT of the user, whose name is unique, and the
\* INSERT of the role.
NoUsers == ~db.admin
CountUsers(i) ==
    /\ At(i, "users")
    /\ Enter(i, IF NoUsers THEN "admin" ELSE "bind")
    /\ UNCHANGED <<db, Outside, cut, beside>>
InsertAdminAlone(i) ==
    /\ At(i, "admin")
    /\ ~db.admin
    /\ db' = [db EXCEPT !.admin = TRUE]
    /\ Enter(i, "bind")
    /\ UNCHANGED <<Outside, cut, beside>>
InsertAdmin(i) ==
    /\ At(i, "admin")
    /\ ~db.admin
    /\ db' = [db EXCEPT !.admin = TRUE]
    /\ Enter(i, "owner")
    /\ UNCHANGED <<Outside, cut, beside>>
InsertOwner(i) ==
    /\ At(i, "owner")
    /\ db' = [db EXCEPT !.owner = TRUE]
    /\ Enter(i, "bind")
    /\ UNCHANGED <<Outside, cut, beside>>

\* main binds the address and serves.  All processes are given the same address.
Bind(i) ==
    /\ At(i, "bind")
    /\ \A j \in Instances : ~At(j, "serving")
    /\ Enter(i, "serving")
    /\ UNCHANGED <<db, Outside, cut, beside>>

\* A statement fails (there is no database, the user of another process is there
\* already, the schema is newer, no password is given), the address is in use, or the
\* process dies.
Fail(i) ==
    /\ ~At(i, "down")
    /\ Kill(i)
    /\ UNCHANGED <<db, Outside, beside>>

-----------------------------------------------------------------------------
(***************************************************************************)
(* upgrade.sh and rollback.sh.                                             *)
(***************************************************************************)

On(step) == script.at = step
Then(step) == script' = [script EXCEPT !.at = step]
\* A rollback, and a script that died, is about no release.
Finish(end, by) ==
    script' = [at |-> "idle", to |-> IF end = "done" THEN script.to ELSE Nothing,
               end |-> end, by |-> by]
Die == Finish("died", Nothing)
Database == <<db, dump, beside>>

\* upgrade.sh verifies the archive and looks for an installed binary; rollback.sh
\* is also run by itself, with --restore-db or without.
BeginScript ==
    /\ On("idle")
    /\ \/ \E r \in Releases :
            /\ files.bin # "none"
            /\ script' = [at |-> "backup", to |-> r, end |-> "none", by |-> Nothing]
       \/ \E step \in {"b_stop", "r_stop"} :
            /\ snapshot # Nothing
            /\ step = "r_stop" => dump # Nothing
            /\ script' = [at |-> step, to |-> Nothing, end |-> "none", by |-> Nothing]
    /\ UNCHANGED <<Database, proc, files, snapshot, wanted, cut>>

\* Before the service is stopped a failure ends the script.  With --no-backup there is
\* no new backup.
Backup ==
    /\ On("backup")
    /\ \/ db.there /\ dump' = db /\ Then("snapshot")
       \/ UNCHANGED dump /\ Then("snapshot")
       \/ UNCHANGED dump /\ Die
    /\ UNCHANGED <<db, beside, proc, files, snapshot, wanted, cut>>
Snapshot ==
    /\ On("snapshot")
    /\ \/ files.static # "none" /\ snapshot' = files /\ Then("stop")
       \/ UNCHANGED snapshot /\ Die
    /\ UNCHANGED <<Database, proc, files, wanted, cut>>

\* veil_service_stop.
Stopped == wanted' = FALSE /\ Kill(Service)
StopNothing == UNCHANGED <<wanted, proc, cut>>
Stop(step, next, otherwise) ==
    /\ On(step)
    /\ \/ Stopped /\ Then(next)
       \/ (Stopped \/ StopNothing) /\ otherwise
    /\ UNCHANGED <<Database, files, snapshot>>

\* The binary, then static/, which is removed, and made and filled.  A step that fails
\* leaves the file as it was or in part.
Put(step, file, whole, next, otherwise) ==
    /\ On(step)
    /\ \/ files' = [files EXCEPT ![file] = whole] /\ Then(next)
       \/ files' \in {files, [files EXCEPT ![file] = "part"]} /\ otherwise
    /\ UNCHANGED <<Database, proc, snapshot, wanted, cut>>

\* veil_service_start.
StartService(step, next, otherwise) ==
    /\ On(step)
    /\ \/ wanted' = TRUE /\ Then(next)
       \/ wanted' \in {wanted, TRUE} /\ otherwise
    /\ UNCHANGED <<Database, proc, files, snapshot, cut>>

\* veil_wait_healthz: some process on the address answers in time, or none does.
AwaitHealth(step, end, otherwise) ==
    /\ On(step)
    /\ \/ \E i \in Instances : At(i, "serving") /\ Finish(end, i)
       \/ otherwise
    /\ UNCHANGED <<Database, proc, files, snapshot, wanted, cut>>

\* rollback_and_die; "every step below must either succeed or trigger the rollback".
RollBack == script' = [script EXCEPT !.at = "b_stop", !.to = Nothing]
StopOld == Stop("stop", "binary", RollBack)
PutBinary == Put("binary", "bin", script.to, "clear", RollBack)
Clear == Put("clear", "static", "none", "copy", RollBack)
Copy == Put("copy", "static", script.to, "start", RollBack)
Start == StartService("start", "health", RollBack)
Health == AwaitHealth("health", "done", RollBack)

\* rollback.sh: a file that could not be restored leads to a start at best effort.
BestEffort == Then("b_best")
\* _restore_binary goes on if the identical binary is in place.
OrIdentical == IF files'.bin = snapshot.bin THEN Then("b_clear") ELSE BestEffort
BackStop == Stop("b_stop", "b_binary", Die)
BackNew == Put("b_binary", "bin", script.to, "b_clear", OrIdentical)
BackBinary == Put("b_binary", "bin", snapshot.bin, "b_clear", OrIdentical)
BackClear == Put("b_clear", "static", "none", "b_copy", BestEffort)
BackCopy == Put("b_copy", "static", snapshot.static, "b_start", BestEffort)
BackStart == StartService("b_start", "b_health", Die)
BackHealth == AwaitHealth("b_health", "rolled_back", Die)
StartAnyway == StartService("b_best", "idle", Die)

\* --restore-db: the database is dropped, which PostgreSQL refuses while a process
\* uses it, created again, and loaded from the dump, which stops at what a process
\* started by hand has created meanwhile.  A failure half-way leaves no database or a
\* part of the dump, and the service is started at best effort.
PartsOf(d) == {Empty, [d EXCEPT !.owner = FALSE],
               [d EXCEPT !.admin = FALSE, !.owner = FALSE]}
Replace(d) ==
    /\ db' = d
    /\ beside' = FALSE
    /\ cut' = (cut \/ (d.admin /\ ~d.owner))
    /\ UNCHANGED <<dump, proc, files, snapshot, wanted>>
Unused == \A i \in Instances : At(i, "down")
StopForRestore == Stop("r_stop", "r_drop", Die)
Drop ==
    /\ On("r_drop")
    /\ \/ db.there /\ Unused /\ Replace(Gone) /\ Then("r_create")
       \/ BestEffort /\ UNCHANGED <<Database, proc, files, snapshot, wanted, cut>>
Create ==
    /\ On("r_create")
    /\ \/ Replace(Empty) /\ Then("r_load")
       \/ BestEffort /\ UNCHANGED <<Database, proc, files, snapshot, wanted, cut>>
Load ==
    /\ On("r_load")
    /\ \/ db = Empty /\ Replace(dump) /\ Then("b_stop")
       \/ db = Empty /\ (\E d \in PartsOf(dump) : Replace(d)) /\ BestEffort
       \/ BestEffort /\ UNCHANGED <<Database, proc, files, snapshot, wanted, cut>>

\* The script is killed.
Interrupt ==
    /\ ~On("idle")
    /\ Die
    /\ UNCHANGED <<Database, proc, files, snapshot, wanted, cut>>

StartUp(i) ==
    \/ Exec(i) \/ Migrate(i) \/ Migrated(i) \/ CountUsers(i) \/ InsertAdmin(i)
    \/ InsertOwner(i) \/ Bind(i) \/ Fail(i)

Upgrade ==
    \/ BeginScript \/ Backup \/ Snapshot \/ StopOld \/ PutBinary \/ Clear \/ Copy
    \/ Start \/ Health

Rollback ==
    \/ BackStop \/ BackBinary \/ BackClear \/ BackCopy \/ BackStart \/ BackHealth
    \/ StartAnyway \/ StopForRestore \/ Drop \/ Create \/ Load \/ Interrupt

DeploymentNext == (\E i \in Instances : StartUp(i)) \/ Upgrade \/ Rollback

DeploymentSpec == DeploymentInit /\ [][DeploymentNext]_deploymentVars

-----------------------------------------------------------------------------
(***************************************************************************)
(* Properties.                                                             *)
(***************************************************************************)

\* The first administrator is the owner, however many processes start at once and
\* however often they fail, unless one died just between the two statements that
\* insert the user and the role, or a backup from between them was restored; and
\* no process serves a forum without an administrator ("the bootstrap account must
\* be an owner", src/auth.rs).
OwnerUnlessCut ==
    /\ db.admin /\ ~db.owner => cut \/ \E i \in Instances : At(i, "owner")
    /\ \A i \in Instances : At(i, "serving") => db.admin

\* What a script reports is so until the next one begins.  An upgrade is done when
\* all files are of the new release, and after a rollback all files are those of the
\* snapshot.  The rest depends on who answered on the address.  If it was the service,
\* the database has the migrations of the new release; or, after a rollback, the
\* restored binary is whole and knows every migration in the database, unless a
\* process beside the service applied one: a service that had applied one would not
\* have come up again ("rollback succeeded; the forum runs $OLD_VERSION again",
\* scripts/upgrade.sh).
EndsAsReported ==
    /\ script.end = "done" =>
        /\ files = [bin |-> script.to, static |-> script.to]
        /\ wanted
        /\ script.by = Service => db.schema >= Migrations[script.to]
    /\ script.end = "rolled_back" =>
        /\ files = snapshot
        /\ wanted
        /\ script.by = Service =>
            /\ files.bin \in Releases
            /\ db.schema > Migrations[files.bin] => beside

=============================================================================
