--------------------------- MODULE DaemonBootstrap ---------------------------
(***************************************************************************)
(* Installing, starting and removing the daemon from the desktop, beside   *)
(* its updates: the short-lived bootstrap commands                         *)
(* (crates/daemon/src/update/bootstrap.rs), the desktop that runs them     *)
(* (application/src-tauri/src/daemon/manager.rs), and the purge of         *)
(* cleanup.rs. They share with DaemonUpdate the service manager, the       *)
(* committed release, the journal and the two locks.                       *)
(*                                                                         *)
(* Left out: development and remote daemons, a daemon in the foreground,   *)
(* the handoff of desktops older than the supervisor. Removal takes no     *)
(* lock: updates are asked for and resumed beside it.                      *)
(***************************************************************************)
EXTENDS DaemonUpdate

VARIABLES
  \* files
  marks,   \* service-installed-v1 and bootstrap-activation-pending-v1
  saved,   \* the releases in bootstrap-target and bootstrap-previous
  phase,   \* the desktop's daemon-cleanup-pending-v1
  \* processes
  boot,    \* the bootstrap command the desktop has spawned
  remover, \* how far the desktop is with removing the daemon
  \* kept for the properties only
  lost,    \* an uncommitted executable was left registered
  cleared  \* the supervisor was removed, and no update or command asked for since

bootVars == <<marks, saved, phase, boot, remover, lost, cleared>>
allVars == <<vars, bootVars>>

MaybeRelease == Release \cup {NoRelease}

NoMarks == [installed |-> FALSE, activating |-> FALSE]
NoHandoff == [target |-> NoRelease, previous |-> NoRelease]

BootStep == {"off", "wait", "lock", "load", "choose", "keep previous", "keep target", "mark",
             "register", "restart", "health", "commit", "note", "unmark",
             "look", "start", "answer", "ready"}

\* A command: where it is and which one it is; whether it recovers a handoff or
\* installs, to which release, on the way forth or back to the previous one; and
\* the job it waits for.
Command == [at : BootStep, mode : {"ensure", "install"}, work : {"recover", "install"},
            way : {"forth", "back"}, to : MaybeRelease, back : MaybeRelease, id : Nat]
NoCommand == [at |-> "off", mode |-> "ensure", work |-> "recover", way |-> "forth",
              to |-> NoRelease, back |-> NoRelease, id |-> 0]
Goes(at) == boot' = [boot EXCEPT !.at = at]

RemoveStep == {"off", "updater", "stop", "unregister", "check", "data", "cache", "rest", "clear"}

\* A new machine, or one whose daemon an earlier desktop has installed.
BootstrapInit ==
  /\ \/ release = NoRelease /\ marks = NoMarks
     \/ release = 0 /\ marks = [NoMarks EXCEPT !.installed = TRUE]
  /\ unit = release /\ running = release /\ healthy = {release} \ {NoRelease}
  /\ job = Blank /\ shown = "absent" /\ updater = {}
  /\ sup = NoSupervisor /\ req = NoRequest /\ owner = "nobody" /\ crashes = 0
  /\ saved = NoHandoff /\ phase = "none"
  /\ boot = NoCommand /\ remover = "off" /\ lost = FALSE /\ cleared = FALSE

-----------------------------------------------------------------------------
(* ensure: recover what was cut off, start what is installed. *)

\* A working command holds request.lock and supervisor.lock.
RequestLocked == req.at \notin {"idle", "verified"} \/ owner = "bootstrap"

Update == UNCHANGED <<job, shown, updater, sup, req, crashes>>
Removal == UNCHANGED <<phase, remover>>

\* An unfinished job's supervisor is started and waited for. The desktop runs one
\* command at a time, and none while it removes the daemon.
Ensure ==
  /\ boot.at = "off" /\ remover = "off" /\ ~RequestLocked
  /\ \/ Pending /\ Started /\ boot' = [NoCommand EXCEPT !.at = "wait", !.id = job.id]
     \/ Pending /\ MaybeEnabled /\ UNCHANGED boot
     \/ ~Pending /\ boot' = [NoCommand EXCEPT !.at = "lock"] /\ UNCHANGED updater
  /\ UNCHANGED <<files, unit, running, sup, req, owner, healthy, crashes, marks, saved>>
  /\ Removal

\* wait_for_job, for five minutes.
Wait ==
  /\ boot.at = "wait"
  /\ \/ (Pending => job.id # boot.id) /\ Goes("lock")
     \/ boot' = NoCommand
  /\ UNCHANGED <<vars, marks, saved>> /\ Removal

\* Between the two the journal is not read again.
Lock ==
  /\ boot.at = "lock"
  /\ IF RequestLocked \/ owner # "nobody"
       THEN boot' = NoCommand /\ UNCHANGED owner
       ELSE Goes(IF marks.activating THEN "load" ELSE "look") /\ owner' = "bootstrap"
  /\ UNCHANGED <<release, unit, running, healthy, marks, saved>> /\ Update /\ Removal

Leaves == boot' = NoCommand /\ owner' = "nobody"
Goes_on(at) == Goes(at) /\ UNCHANGED owner

\* An installation goes on after a recovery that failed; everything else ends.
Stops ==
  IF boot.work = "recover" /\ boot.mode = "install"
    THEN boot' = [NoCommand EXCEPT !.at = "choose", !.mode = "install"] /\ UNCHANGED owner
    ELSE Leaves

\* recover: the handoff an earlier command has left.
Load ==
  /\ boot.at = "load"
  /\ \/ /\ saved.target # NoRelease
        /\ boot' = [boot EXCEPT !.at = "register", !.to = saved.target]
        /\ UNCHANGED owner
     \/ Stops
  /\ UNCHANGED <<release, unit, running, healthy, marks, saved>> /\ Update /\ Removal

\* A service that is installed and whole is started, unless it runs; otherwise
\* the desktop is told to install it.
LookAround ==
  /\ boot.at = "look"
  /\ \/ /\ marks.installed /\ release # NoRelease /\ unit # NoRelease
        /\ Goes_on(IF running = NoRelease THEN "start" ELSE "answer")
     \/ Leaves
  /\ UNCHANGED <<release, unit, running, healthy, marks, saved>> /\ Update /\ Removal

StartService ==
  /\ boot.at = "start"
  /\ \/ running' = unit /\ Goes_on("answer")
     \/ running' \in {running, unit} /\ Leaves
  /\ UNCHANGED <<release, unit, healthy, marks, saved>> /\ Update /\ Removal

\* It must answer as the committed release.
Answer ==
  /\ boot.at = "answer"
  /\ \/ running = release /\ healthy' = healthy \cup {release} /\ Goes_on("ready")
     \/ UNCHANGED healthy /\ Leaves
  /\ UNCHANGED <<release, unit, running, marks, saved>> /\ Update /\ Removal

-----------------------------------------------------------------------------
(* install: from the bundle of the desktop, also offline. *)

\* Mutant of InstallBundle: the journal is not asked.
InstallAtOnce ==
  /\ boot.at = "off" /\ remover = "off" /\ ~RequestLocked /\ owner = "nobody"
  /\ boot' = [NoCommand EXCEPT !.at = IF marks.activating THEN "load" ELSE "choose",
                               !.mode = "install"]
  /\ owner' = "bootstrap"
  /\ UNCHANGED <<release, unit, running, healthy, marks, saved>> /\ Update /\ Removal

\* install_with_bundle: refused while a job is pending.
InstallBundle ==
  /\ boot.at = "off" /\ remover = "off" /\ ~RequestLocked /\ owner = "nobody" /\ ~Pending
  /\ boot' = [NoCommand EXCEPT !.at = IF marks.activating THEN "load" ELSE "choose",
                               !.mode = "install"]
  /\ owner' = "bootstrap"
  /\ UNCHANGED <<release, unit, running, healthy, marks, saved>> /\ Update /\ Removal

\* What is installed, if it is whole, is kept where it is newer than the bundle,
\* whose release is any.
Choose ==
  /\ boot.at = "choose"
  /\ \/ \E bundle \in Release, back \in {release, NoRelease} :
          LET newer == back # NoRelease /\ back > bundle
          IN  boot' = [boot EXCEPT !.at = "keep previous", !.work = "install",
                                   !.to = IF newer THEN back ELSE bundle, !.back = back]
        /\ UNCHANGED owner
     \/ Leaves
  /\ UNCHANGED <<release, unit, running, healthy, marks, saved>> /\ Update /\ Removal

\* install_release, up to the activation: a handoff another command can finish.
KeepPrevious ==
  /\ boot.at = "keep previous"
  /\ \/ saved' = [saved EXCEPT !.previous = boot.back] /\ Goes_on("keep target")
     \/ saved' \in {[saved EXCEPT !.previous = p] : p \in {saved.previous, NoRelease, boot.back}}
        /\ Leaves
  /\ UNCHANGED <<release, unit, running, healthy, marks>> /\ Update /\ Removal

KeepTarget ==
  /\ boot.at = "keep target"
  /\ \/ saved' = [saved EXCEPT !.target = boot.to] /\ Goes_on("mark")
     \/ saved' \in {saved, [saved EXCEPT !.target = boot.to]} /\ Leaves
  /\ UNCHANGED <<release, unit, running, healthy, marks>> /\ Update /\ Removal

\* Mutant of SetMark: nothing says that an activation is under way.
Unmarked ==
  /\ boot.at = "mark" /\ Goes_on("register")
  /\ UNCHANGED <<release, unit, running, healthy, marks, saved>> /\ Update /\ Removal

SetMark ==
  /\ boot.at = "mark"
  /\ \/ marks' = [marks EXCEPT !.activating = TRUE] /\ Goes_on("register")
     \/ marks' \in {marks, [marks EXCEPT !.activating = TRUE]} /\ Leaves
  /\ UNCHANGED <<release, unit, running, healthy, saved>> /\ Update /\ Removal

-----------------------------------------------------------------------------
(* The activation and its end, of a recovery and of an installation. *)

Fallback == IF boot.work = "recover" THEN saved.previous ELSE boot.back

\* An activation that fails is followed by that of the previous release, if there
\* is one.
Fails ==
  \/ /\ boot.way = "forth" /\ Fallback # NoRelease
     /\ boot' = [boot EXCEPT !.at = "register", !.way = "back", !.to = Fallback]
     /\ UNCHANGED owner
  \/ /\ boot.way = "back" \/ boot.work = "recover" \/ Fallback = NoRelease
     /\ Stops

\* The old unit is deleted before the new one takes its name.
WriteUnit ==
  /\ boot.at = "register"
  /\ \/ unit # NoRelease /\ unit' = NoRelease /\ UNCHANGED <<boot, owner>>
     \/ unit = NoRelease /\ unit' = boot.to /\ Goes_on("restart")
     \/ unit' = unit /\ Fails
     \/ unit = NoRelease /\ unit' = boot.to /\ Fails
  /\ UNCHANGED <<release, running, healthy, marks, saved>> /\ Update /\ Removal

StartUnit ==
  /\ boot.at = "restart"
  /\ \/ running' = unit /\ Goes_on("health")
     \/ running' \in {running, NoRelease, unit} /\ Fails
  /\ UNCHANGED <<release, unit, healthy, marks, saved>> /\ Update /\ Removal

\* Mutant of AwaitHealth: a daemon that was started is good.
AwaitNothing ==
  /\ boot.at = "health"
  /\ Goes_on("commit")
  /\ UNCHANGED <<release, unit, running, healthy, marks, saved>> /\ Update /\ Removal

AwaitHealth ==
  /\ boot.at = "health"
  /\ \/ running = boot.to /\ healthy' = healthy \cup {boot.to} /\ Goes_on("commit")
     \/ UNCHANGED healthy /\ Fails
  /\ UNCHANGED <<release, unit, running, marks, saved>> /\ Update /\ Removal

SaveRelease ==
  /\ boot.at = "commit"
  /\ \/ release' = boot.to /\ Goes_on(IF boot.way = "forth" THEN "note" ELSE "unmark")
     \/ release' \in {release, boot.to} /\ Stops
  /\ UNCHANGED <<unit, running, healthy, marks, saved>> /\ Update /\ Removal

NoteInstalled ==
  /\ boot.at = "note"
  /\ \/ marks' = [marks EXCEPT !.installed = TRUE] /\ Goes_on("unmark")
     \/ marks' \in {marks, [marks EXCEPT !.installed = TRUE]} /\ Stops
  /\ UNCHANGED <<release, unit, running, healthy, saved>> /\ Update /\ Removal

\* A recovery goes on with its command; an installation that had to go back ends
\* in an error.
DropMark ==
  /\ boot.at = "unmark"
  /\ \/ /\ marks' = [marks EXCEPT !.activating = FALSE]
        /\ \/ boot.mode = "ensure" /\ Goes_on("look")
           \/ boot.mode = "install" /\ boot.work = "recover" /\ Stops
           \/ boot.work = "install" /\ boot.way = "forth" /\ Goes_on("ready")
           \/ boot.work = "install" /\ boot.way = "back" /\ Leaves
     \/ UNCHANGED marks /\ Stops
  /\ UNCHANGED <<release, unit, running, healthy, saved>> /\ Update /\ Removal

\* The desktop is told, and the locks are dropped.
Return ==
  /\ boot.at = "ready" /\ Leaves
  /\ UNCHANGED <<release, unit, running, healthy, marks, saved>> /\ Update /\ Removal

\* The desktop quits, or its six minutes are over.
CommandDies ==
  /\ boot.at # "off"
  /\ boot' = NoCommand
  /\ owner' = IF owner = "bootstrap" THEN "nobody" ELSE owner
  /\ UNCHANGED <<release, unit, running, healthy, marks, saved>> /\ Update /\ Removal

CommandStep ==
  \/ Ensure \/ Wait \/ Lock \/ Load \/ LookAround \/ StartService \/ Answer
  \/ InstallBundle \/ Choose \/ KeepPrevious \/ KeepTarget \/ SetMark
  \/ WriteUnit \/ StartUnit \/ AwaitHealth \/ SaveRelease \/ NoteInstalled \/ DropMark
  \/ Return \/ CommandDies

-----------------------------------------------------------------------------
(* remove_local_daemon. *)

Steps(to) == remover' = to
Kept == UNCHANGED <<req, healthy, crashes, boot>>

\* The daemon is purged, unless an earlier removal got as far as that. The marker
\* is replaced by deleting it first. No command runs beside it; updates may.
Remove ==
  /\ remover = "off" /\ boot.at = "off"
  /\ \/ phase = "purged" /\ Steps("rest") /\ UNCHANGED phase
     \/ phase # "purged" /\ phase' = "started" /\ Steps("updater")
     \/ phase # "purged" /\ phase' = "none" /\ UNCHANGED remover
  /\ UNCHANGED <<files, services, sup, owner, marks, saved>> /\ Kept

\* Mutant of RemoveUpdater: the purge leaves the supervisor alone.
LeaveUpdater ==
  /\ remover = "updater" /\ Steps("stop")
  /\ UNCHANGED <<files, services, sup, owner, marks, saved, phase>> /\ Kept

\* remove_update_supervisor, before anything else: it would register the daemon
\* again.
RemoveUpdater ==
  /\ remover = "updater"
  /\ \/ updater' = {} /\ KillSupervisor /\ Steps("stop")
     \/ updater' \in {updater, updater \ {"enabled"}} /\ UNCHANGED <<sup, owner>> /\ Steps("off")
     \/ updater' = {} /\ KillSupervisor /\ Steps("off")
  /\ UNCHANGED <<files, unit, running, marks, saved, phase>> /\ Kept

\* uninstall: stop, disable, delete the unit; nothing where there is none.
StopService ==
  /\ remover = "stop"
  /\ \/ unit = NoRelease /\ Steps("check") /\ UNCHANGED running
     \/ unit # NoRelease /\ running' = NoRelease /\ Steps("unregister")
     \/ unit # NoRelease /\ running' \in {running, NoRelease} /\ Steps("off")
  /\ UNCHANGED <<files, unit, updater, sup, owner, marks, saved, phase>> /\ Kept

Unregister ==
  /\ remover = "unregister"
  /\ \/ unit' = NoRelease /\ Steps("check")
     \/ unit' \in {unit, NoRelease} /\ Steps("off")
  /\ UNCHANGED <<files, running, updater, sup, owner, marks, saved, phase>> /\ Kept

\* The service is gone, and no daemon holds the lock of the database.
Check ==
  /\ remover = "check"
  /\ \/ unit = NoRelease /\ running = NoRelease /\ Steps("data")
     \/ Steps("off")
  /\ UNCHANGED <<files, services, sup, owner, marks, saved, phase>> /\ Kept

\* The daemon's data is deleted, and the desktop notes it.
DeleteData ==
  /\ remover = "data"
  /\ \/ phase' = "purged" /\ Steps("cache")
     \/ phase' \in {phase, "none", "purged"} /\ Steps("off")
  /\ UNCHANGED <<files, services, sup, owner, marks, saved>> /\ Kept

\* remove_install_root may fail half way. It deletes the two locks as well: followed
\* only while nobody holds one.
RemoveCache ==
  /\ remover \in {"cache", "rest"} /\ owner = "nobody" /\ ~RequestLocked
  /\ \/ /\ release' = NoRelease /\ job' = Blank /\ shown' = "absent"
        /\ marks' = NoMarks /\ saved' = NoHandoff
        /\ Steps("clear")
     \/ /\ release' \in {release, NoRelease}
        /\ marks' \in {marks, NoMarks} /\ saved' \in {saved, NoHandoff}
        /\ \/ UNCHANGED <<job, shown>>
           \/ job' = Blank /\ shown' = "absent"
        /\ Steps("off")
  /\ UNCHANGED <<services, sup, owner, phase>> /\ Kept

ClearPhase ==
  /\ remover = "clear"
  /\ phase' \in {"none", phase} /\ Steps("off")
  /\ UNCHANGED <<files, services, sup, owner, marks, saved>> /\ Kept

RemoverDies ==
  /\ remover # "off" /\ Steps("off")
  /\ UNCHANGED <<files, services, sup, owner, marks, saved, phase>> /\ Kept

RemovalStep ==
  \/ Remove \/ RemoveUpdater \/ StopService \/ Unregister \/ Check \/ DeleteData
  \/ RemoveCache \/ ClearPhase \/ RemoverDies

-----------------------------------------------------------------------------

Others == UNCHANGED <<marks, saved, phase, boot, remover>>

\* What DaemonUpdate says, where a command may hold request.lock.
UpdateStep ==
  \/ /\ SupervisorStep \/ DaemonRestarts \/ SupervisorDies \/ RequesterDies
        \/ Request \/ ReadJournal \/ Publish \/ Refused \/ Conclude
     /\ Others
  \/ LockRequest /\ owner # "bootstrap" /\ Others
  \/ /\ Reboot
     /\ boot' = NoCommand /\ remover' = "off" /\ UNCHANGED <<marks, saved, phase>>

\* The steps that enable and start the supervisor.
SupervisorCalled ==
  /\ Resume \/ Launch \/ (Rediscover /\ owner # "bootstrap")
  /\ Others

\* An update whose supervisor reports an end other than a rollback, and a cache
\* removed from under its service, may leave behind what nothing has committed.
Loses ==
  /\ unit' \notin {release', NoRelease}
  /\ \/ lost
     \/ Pending /\ job'.outcome \in {"ready", "gave up", "unlaunched"}
     \/ /\ remover \in {"cache", "rest"} /\ remover' \in {"clear", "off"}
        /\ <<release', job', marks'>> # <<release, job, marks>>

BootstrapNext ==
  /\ \/ UpdateStep /\ UNCHANGED cleared
     \/ (SupervisorCalled \/ CommandStep) /\ cleared' = FALSE
     \/ RemovalStep /\ cleared' = (cleared \/ remover' = "stop")
  /\ lost' = Loses

BootstrapSpec == BootstrapInit /\ [][BootstrapNext]_allVars

-----------------------------------------------------------------------------
(* Properties. *)

\* Every variable holds a value of its kind.
BootstrapTypeOK ==
  /\ TypeOK
  /\ marks \in [installed : BOOLEAN, activating : BOOLEAN]
  /\ saved \in [target : MaybeRelease, previous : MaybeRelease]
  /\ phase \in {"none", "started", "purged"}
  /\ boot \in Command /\ remover \in RemoveStep /\ lost \in BOOLEAN /\ cleared \in BOOLEAN

\* An executable that is registered without being committed is on record, for
\* whoever comes next to finish or undo: an installation that was cut off at any
\* point has its marker, an update its journal.
NothingUnrecorded ==
  \/ unit \in {release, NoRelease} \/ marks.activating
  \/ job.phase \in Interrupted \/ lost

\* An installation the desktop is told to be ready is complete: registered,
\* committed and noted, nothing left to recover, and no update has begun meanwhile.
ReadyIsInstalled == boot.at = "ready" =>
  /\ marks.installed /\ ~marks.activating
  /\ boot.mode = "install" => unit = release /\ release = boot.to /\ ~Pending

\* Data and cache are deleted when nothing uses them and nothing will bring the
\* daemon back: no service, no process, no supervisor now or after the next login.
\* A removal that takes up an earlier one finds it still so, whatever jobs,
\* requests and processes the earlier one overtook: unless since its supervisor
\* was removed a request, a daemon or the desktop has called for one, or a command
\* was run.
RemovedIsGone == remover \in {"data", "cache", "rest", "clear"} /\ cleared =>
  unit = NoRelease /\ running = NoRelease /\ updater = {} /\ sup.at = "off"
==============================================================================
