----------------------------- MODULE DaemonUpdate -----------------------------
(***************************************************************************)
(* The daemon replacing itself: crates/daemon/src/update/mod.rs (the       *)
(* request), supervisor.rs (the transaction) and journal.rs (its durable   *)
(* record), with the systemd units of service_control.rs.                  *)
(*                                                                         *)
(* The supervisor is a process of its own: it stages the new release,      *)
(* registers it as the daemon's executable, restarts the daemon, waits for *)
(* it to answer a health check, and commits by replacing one file; each    *)
(* step is an action, a failure of it a disjunct, and a crash may come     *)
(* between any two. The requester, a daemon or the desktop's command line, *)
(* holds request.lock from LockRequest on, so that one is enough here.     *)
(***************************************************************************)
EXTENDS Naturals

CONSTANTS Newest,      \* releases are 0 .. Newest, later ones are newer
          NoRelease,   \* no daemon runs, is registered or is installed
          MaxJobs,     \* bound: update jobs published
          MaxCrashes   \* bound: processes killed and machines rebooted

ASSUME UpdateAssumption ==
  /\ Newest \in Nat \ {0} /\ NoRelease \notin 0..Newest
  /\ MaxJobs \in Nat /\ MaxCrashes \in Nat

VARIABLES
  \* files and the service manager's state, which outlive every process
  release,   \* current-release.json: the committed release
  unit,      \* the executable registered for the daemon's service
  running,   \* the release of the daemon process
  job,       \* job.json of the job updates/latest names
  shown,     \* the outcome in that job's status.json
  updater,   \* the supervisor's unit: "enabled" at login, "due" to be run now
  \* processes
  sup,       \* the update supervisor
  req,       \* the process a user's request for an update runs in
  owner,     \* who holds supervisor.lock
  \* kept for the properties only
  healthy,   \* releases that have answered a health check
  crashes    \* crashes so far

files == <<release, job, shown>>
services == <<unit, running, updater>>
vars == <<files, services, sup, req, owner, healthy, crashes>>

Release == 0..Newest

\* Failed recoveries that end a job. The count of a job given up is not kept:
\* nothing reads it.
GiveUpAfter == 3

Verdict == {"ready", "failed", "restored", "gave up", "unlaunched"}
Outcome == Verdict \cup {"absent", "pending"}
Phase == {"queued", "staging", "installing", "restarting", "rollingBack", "finished"}

\* Mutant of Interrupted: a rollback that was cut off starts the job over.
InterruptedForward == {"installing", "restarting"}

\* Phases in which a supervisor may have touched the service.
Interrupted == {"installing", "restarting", "rollingBack"}

\* A journal record. Before the first job there is none.
Record == [id : Nat, target : Release, previous : Release, phase : Phase,
           failures : 0 .. GiveUpAfter - 1, outcome : Outcome]
Blank == [id |-> 0, target |-> 0, previous |-> 0, phase |-> "finished",
          failures |-> 0, outcome |-> "absent"]
Queued(id, target, previous) ==
  [id |-> id, target |-> target, previous |-> previous, phase |-> "queued",
   failures |-> 0, outcome |-> "pending"]

Pending == job.outcome = "pending"

SupStep == {"off", "stage", "install", "register", "restart", "mark", "health",
            "commit", "roll back", "recover", "error", "finish", "show"}

\* The supervisor process: where it is, the job it read, the release it is
\* activating and the verdict it has reached.
Supervisor == [at : SupStep, id : Nat, to : Release, verdict : Verdict]
NoSupervisor == [at |-> "off", id |-> 0, to |-> 0, verdict |-> "failed"]
Reaches(at) == sup' = [sup EXCEPT !.at = at]
Concludes(v) == sup' = [sup EXCEPT !.at = "finish", !.verdict = v]

\* The requester: the release it verified as installed and the one it wants.
ReqStep == {"idle", "verified", "locked", "resume", "publish", "launch", "refused", "conclude"}
Requester == [at : ReqStep, previous : Release, version : Release]
NoRequest == [at |-> "idle", previous |-> 0, version |-> 0]
Moves(at) == req' = [req EXCEPT !.at = at]

Init ==
  /\ release = 0 /\ unit = 0 /\ running = 0
  /\ job = Blank /\ shown = "absent"
  /\ updater = {}
  /\ sup = NoSupervisor /\ req = NoRequest /\ owner = "nobody"
  /\ healthy = {0} /\ crashes = 0

-----------------------------------------------------------------------------
(* The supervisor. *)

\* It is run: it takes the lock, or fails and is run again. With nothing to do
\* it exits successfully, which the service manager does not answer.
Boot ==
  /\ "due" \in updater /\ sup.at = "off" /\ owner = "nobody"
  /\ IF Pending
       THEN /\ owner' = "supervisor"
            /\ sup' = [sup EXCEPT
                         !.at = IF job.phase \in Interrupted THEN "recover" ELSE "stage",
                         !.id = job.id]
            /\ UNCHANGED updater
       ELSE updater' = updater \ {"due"} /\ UNCHANGED <<sup, owner>>
  /\ UNCHANGED <<files, unit, running, req, healthy, crashes>>

\* Downloads, verifies and probes the target, or ends the job having touched
\* nothing.
Stage ==
  /\ sup.at = "stage"
  /\ \/ /\ job' = [job EXCEPT !.phase = "staging"]
        /\ Reaches("install")
     \/ /\ job' \in {job, [job EXCEPT !.phase = "staging"]}
        /\ Concludes("failed")
  /\ UNCHANGED <<release, shown, services, req, owner, healthy, crashes>>

Install ==
  /\ sup.at = "install"
  /\ job' = [job EXCEPT !.phase = "installing"]
  /\ sup' = [sup EXCEPT !.at = "register", !.to = job.target]
  /\ UNCHANGED <<release, shown, services, req, owner, healthy, crashes>>

\* A failed activation rolls back; a failed rollback is tried again.
Abort == Reaches(IF sup.to = job.target THEN "roll back" ELSE "error")

\* Host::activate writes the unit, deleting the old one before the new one takes
\* its name, and reloads it ...
Register ==
  /\ sup.at = "register"
  /\ \/ unit # NoRelease /\ unit' = NoRelease /\ UNCHANGED sup
     \/ unit = NoRelease /\ unit' = sup.to /\ Reaches("restart")
     \/ unit' = unit /\ Abort
     \/ unit = NoRelease /\ unit' = sup.to /\ Abort
  /\ UNCHANGED <<files, running, updater, req, owner, healthy, crashes>>

\* ... and restarts the service on it.
Restart ==
  /\ sup.at = "restart"
  /\ \/ /\ unit # NoRelease /\ running' = unit
        /\ Reaches(IF sup.to = job.target THEN "mark" ELSE "health")
     \/ /\ running' \in {running, NoRelease, unit}
        /\ Abort
  /\ UNCHANGED <<files, unit, updater, req, owner, healthy, crashes>>

Mark ==
  /\ sup.at = "mark"
  /\ job' = [job EXCEPT !.phase = "restarting"]
  /\ Reaches("health")
  /\ UNCHANGED <<release, shown, services, req, owner, healthy, crashes>>

\* Host::health: an answer of exactly this release within 30 seconds, which
\* even a good release may miss.
CheckHealth ==
  /\ sup.at = "health"
  /\ \/ /\ running = sup.to
        /\ healthy' = healthy \cup {sup.to}
        /\ Reaches("commit")
     \/ Abort /\ UNCHANGED healthy
  /\ UNCHANGED <<files, services, req, owner, crashes>>

\* save_as_current: the rename of current-release.json is the commit, and the
\* sync after it may still fail.
Commit ==
  /\ sup.at = "commit"
  /\ \/ /\ release' = sup.to
        /\ Concludes(IF sup.to = job.target THEN "ready" ELSE "restored")
     \/ release' \in {release, sup.to} /\ Abort
  /\ UNCHANGED <<job, shown, services, req, owner, healthy, crashes>>

\* rollback_with, up to its own activation; the previous executable may be
\* gone or damaged.
Rollback ==
  /\ sup.at = "roll back"
  /\ job' = [job EXCEPT !.phase = "rollingBack"]
  /\ sup' \in {[sup EXCEPT !.at = at, !.to = job.previous] : at \in {"register", "error"}}
  /\ UNCHANGED <<release, shown, services, req, owner, healthy, crashes>>

\* Mutant of Recover: a healthy target is ready, committed or not.
RecoverRunning ==
  /\ sup.at = "recover"
  /\ \/ /\ running = job.target
        /\ healthy' = healthy \cup {job.target}
        /\ Concludes("ready")
     \/ Reaches("roll back") /\ UNCHANGED healthy
  /\ UNCHANGED <<files, services, req, owner, crashes>>

\* After an interruption the committed release decides, not the phase.
Recover ==
  /\ sup.at = "recover"
  /\ \/ /\ release = job.target /\ running = job.target
        /\ healthy' = healthy \cup {job.target}
        /\ Concludes("ready")
     \/ Reaches("roll back") /\ UNCHANGED healthy
  /\ UNCHANGED <<files, services, req, owner, crashes>>

\* Record::finish writes job.json, then status.json, and the process exits.
Finish ==
  /\ sup.at = "finish"
  /\ job' = [job EXCEPT !.phase = "finished", !.outcome = sup.verdict]
  /\ Reaches("show")
  /\ UNCHANGED <<release, shown, services, req, owner, healthy, crashes>>

\* By now a newer job may be the latest, with a status of its own.
Show ==
  /\ sup.at = "show"
  /\ shown' = IF job.id = sup.id THEN sup.verdict ELSE shown
  /\ sup' = NoSupervisor /\ owner' = "nobody"
  /\ updater' = updater \ {"due"}
  /\ UNCHANGED <<release, job, unit, running, req, healthy, crashes>>

\* Mutant of Error: a recovery that fails is tried for ever.
ErrorForever ==
  /\ sup.at = "error"
  /\ sup' = NoSupervisor /\ owner' = "nobody"
  /\ UNCHANGED <<files, services, req, healthy, crashes>>

\* recovery_error: count it and exit unsuccessfully, to be run again, or give
\* the job up.
Error ==
  /\ sup.at = "error"
  /\ IF job.failures + 1 >= GiveUpAfter
       THEN Concludes("gave up") /\ UNCHANGED <<job, owner>>
       ELSE /\ job' = [job EXCEPT !.failures = @ + 1]
            /\ sup' = NoSupervisor /\ owner' = "nobody"
  /\ UNCHANGED <<release, shown, services, req, healthy, crashes>>

SupervisorStep ==
  \/ Boot \/ Stage \/ Install \/ Register \/ Restart \/ Mark \/ CheckHealth
  \/ Commit \/ Rollback \/ Recover \/ Finish \/ Show \/ Error

-----------------------------------------------------------------------------
(* The request. *)

\* installed(), or bootstrap's check of an older daemon: the daemon that runs
\* is the committed release. The version comes from the user.
Request ==
  /\ req.at = "idle" /\ running = release /\ running # NoRelease
  /\ \E v \in Release :
       req' = [at |-> "verified", previous |-> release, version |-> v]
  /\ UNCHANGED <<files, services, sup, owner, healthy, crashes>>

\* start_managed takes request.lock and compares the release again.
LockRequest ==
  /\ req.at = "verified"
  /\ IF release = req.previous THEN Moves("locked") ELSE req' = NoRequest
  /\ UNCHANGED <<files, services, sup, owner, healthy, crashes>>

\* It reads the journal: the wanted job may be done or under way, another one
\* may be under way, and the version may be no newer.
ReadJournal ==
  /\ req.at = "locked"
  /\ \/ Pending /\ job.target = req.version /\ Moves("resume")
     \/ Pending /\ job.target # req.version /\ req' = NoRequest
     \/ ~Pending /\ req.version > req.previous /\ Moves("publish")
     \/ ~Pending /\ req.version <= req.previous /\ req' = NoRequest
  /\ UNCHANGED <<files, services, sup, owner, healthy, crashes>>

\* With the target fetched and both releases pinned, the job becomes the latest;
\* nothing is published where one of that fails.
Publish ==
  /\ req.at = "publish"
  /\ \/ /\ job.id < MaxJobs
        /\ job' = Queued(job.id + 1, req.version, req.previous)
        /\ shown' = "pending"
        /\ Moves("launch")
     \/ req' = NoRequest /\ UNCHANGED <<job, shown>>
  /\ UNCHANGED <<release, services, sup, owner, healthy, crashes>>

\* launch_update_supervisor writes and enables the supervisor's unit and starts
\* it; an error may come before or after any of that took effect.
MaybeEnabled == updater' \in {updater, updater \cup {"enabled"}}
Started == updater' = {"enabled", "due"}

\* A killed supervisor leaves its lock.
KillSupervisor ==
  /\ sup' = NoSupervisor
  /\ owner' = IF owner = "supervisor" THEN "nobody" ELSE owner

\* An unfinished job is started again: nothing happens where its supervisor runs.
Resume ==
  /\ req.at = "resume"
  /\ Started \/ MaybeEnabled
  /\ req' = NoRequest
  /\ UNCHANGED <<files, unit, running, sup, owner, healthy, crashes>>

\* A new job's supervisor replaces whichever runs; a restart that fails may have
\* stopped that one.
Launch ==
  /\ req.at = "launch"
  /\ \/ /\ Started /\ KillSupervisor
        /\ req' \in {NoRequest, [req EXCEPT !.at = "refused"]}
     \/ MaybeEnabled /\ UNCHANGED <<sup, owner>> /\ Moves("refused")
     \/ updater' = {"enabled"} /\ KillSupervisor /\ Moves("refused")
  /\ UNCHANGED <<files, unit, running, healthy, crashes>>

\* Mutant of Refused: it does not look whether the job has ended.
RefusedBlindly ==
  /\ req.at = "refused"
  /\ IF owner = "nobody"
       THEN /\ job' = [job EXCEPT !.phase = "finished", !.failures = 0,
                                   !.outcome = "unlaunched"]
            /\ owner' = "request"
            /\ Moves("conclude")
       ELSE req' = NoRequest /\ UNCHANGED <<job, owner>>
  /\ UNCHANGED <<release, shown, services, sup, healthy, crashes>>

\* Launch reported an error. A supervisor that holds the lock was started all
\* the same; otherwise the request ends the job, unless it has ended.
Refused ==
  /\ req.at = "refused"
  /\ IF owner = "nobody" /\ Pending
       THEN /\ job' = [job EXCEPT !.phase = "finished", !.failures = 0,
                                   !.outcome = "unlaunched"]
            /\ owner' = "request"
            /\ Moves("conclude")
       ELSE req' = NoRequest /\ UNCHANGED <<job, owner>>
  /\ UNCHANGED <<release, shown, services, sup, healthy, crashes>>

Conclude ==
  /\ req.at = "conclude"
  /\ shown' = "unlaunched"
  /\ owner' = "nobody" /\ req' = NoRequest
  /\ UNCHANGED <<release, job, services, sup, healthy, crashes>>

\* A daemon that starts, or the desktop, has found an unfinished job, finished
\* since perhaps, and starts its supervisor, holding request.lock.
Rediscover ==
  /\ job.outcome # "absent" /\ req.at \in {"idle", "verified"}
  /\ Started \/ MaybeEnabled
  /\ UNCHANGED <<files, unit, running, sup, req, owner, healthy, crashes>>

RequesterStep ==
  \/ Request \/ LockRequest \/ ReadJournal \/ Publish \/ Resume \/ Launch \/ Refused \/ Conclude

-----------------------------------------------------------------------------
(* The machine. *)

\* The daemon dies, or is started again by its service manager.
DaemonRestarts ==
  /\ running' \in {NoRelease, unit}
  /\ UNCHANGED <<files, unit, updater, sup, req, owner, healthy, crashes>>

\* Restart=on-failure: the supervisor is still due.
SupervisorDies ==
  /\ crashes < MaxCrashes /\ sup.at # "off"
  /\ KillSupervisor
  /\ crashes' = crashes + 1
  /\ UNCHANGED <<files, services, req, healthy>>

ReleaseRequestLocks ==
  /\ req' = NoRequest
  /\ owner' = IF owner = "request" THEN "nobody" ELSE owner

\* The desktop quits, or the daemon the request runs in is replaced.
RequesterDies ==
  /\ req.at # "idle"
  /\ ReleaseRequestLocks
  /\ UNCHANGED <<files, services, sup, healthy, crashes>>

\* A reboot: what is enabled runs at the next login.
Reboot ==
  /\ crashes < MaxCrashes
  /\ sup' = NoSupervisor /\ req' = NoRequest /\ owner' = "nobody"
  /\ updater' = IF "enabled" \in updater THEN {"enabled", "due"} ELSE {}
  /\ running' = unit
  /\ crashes' = crashes + 1
  /\ UNCHANGED <<files, unit, healthy>>

Machine == DaemonRestarts \/ SupervisorDies \/ RequesterDies \/ Reboot

Next == SupervisorStep \/ RequesterStep \/ Rediscover \/ Machine

Spec == Init /\ [][Next]_vars

\* The service manager runs what is due, and a supervisor that runs goes on.
FairSpec == Spec /\ WF_vars(SupervisorStep)

-----------------------------------------------------------------------------
(* Properties. *)

\* Every variable holds a value of its kind.
TypeOK ==
  /\ release \in Release \cup {NoRelease}
  /\ unit \in Release \cup {NoRelease} /\ running \in Release \cup {NoRelease}
  /\ job \in Record /\ shown \in Outcome
  /\ updater \subseteq {"enabled", "due"}
  /\ sup \in Supervisor /\ req \in Requester
  /\ owner \in {"nobody", "supervisor", "request", "bootstrap"}
  /\ healthy \subseteq Release /\ crashes \in Nat

\* Whatever crashes and fails on the way, the daemon's committed release is one
\* that has answered a health check: an update whose daemon never came up is
\* never what later starts, updates and rollbacks build on.
CommittedWasHealthy == release \in healthy \cup {NoRelease}

\* A verdict says what became of the committed release: "ready" means the
\* target, "previous daemon restored" means the previous release, committed
\* and registered.
VerdictIsTrue ==
  /\ job.outcome = "ready" => release = job.target
  /\ job.outcome = "restored" => release = job.previous /\ unit = job.previous

\* A finished job stays as it finished, whoever wakes up late: a supervisor
\* started once more, a request whose launch reported an error.
FinishedIsFinal ==
  [][job.outcome \in Verdict /\ job'.id = job.id => job' = job]_vars

\* Once a job has begun to roll back it ends or rolls back, after any crash or
\* reboot: no later attempt starts it over or registers another executable than
\* the previous release's, whose unit the old one is deleted for.
RollbackSticks ==
  [][job.phase = "rollingBack" /\ job'.id = job.id =>
       /\ job'.phase \in {"rollingBack", "finished"}
       /\ unit' \in {unit, job.previous, NoRelease}]_vars

\* The status a client reads while the daemon is down never runs ahead of the
\* journal: a verdict it shows is the job's.
ShownIsTrue == shown \in Verdict => shown = job.outcome

\* A job whose supervisor is due, and neither still ending the job before nor
\* being launched, is finished, with whichever verdict: failing activations and
\* rollbacks are given up, crashes are recovered from.
JobsEnd == \A n \in 1..MaxJobs :
  /\ job.id = n /\ Pending
  /\ "due" \in updater /\ sup.at = "off" /\ req.at # "launch"
  ~> job.id > n \/ job.outcome \in Verdict
==============================================================================
