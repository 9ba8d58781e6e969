-------------------------- MODULE DaemonUpdateProofs --------------------------
(***************************************************************************)
(* Proofs about DaemonUpdate, for any number of releases, jobs and crashes. *)
(* The invariant says what the supervisor has established at each of its   *)
(* steps, and that nobody takes it away meanwhile: the locks, and the job  *)
(* it works on, which no request replaces before it has finished.          *)
(***************************************************************************)
EXTENDS DaemonBootstrap, TLAPS

\* supervisor.lock is held by whoever is between taking and dropping it.
LocksHeld ==
  /\ owner = "supervisor" <=> sup.at # "off"
  /\ owner = "request" <=> req.at = "conclude"

\* The supervisor works on the latest job, which is not over; a request only
\* publishes over one that is.
OneJobAtATime ==
  /\ sup.at \notin {"off", "show"} => Pending /\ sup.id = job.id
  /\ sup.at # "off" => sup.id <= job.id
  /\ req.at = "publish" => ~Pending /\ req.version > req.previous
  /\ Pending => job.target # job.previous
  /\ ~Pending => job.phase = "finished"

Activating == {"register", "restart", "mark", "health", "commit"}

\* What has been done for the release that is being activated.
Activated ==
  /\ sup.at \in Activating => sup.to \in {job.target, job.previous}
  /\ sup.at \in Activating \ {"register"} => unit \in {sup.to, NoRelease}
  /\ sup.at = "mark" => sup.to = job.target
  /\ sup.at = "commit" => sup.to \in healthy

\* A verdict that has been reached and not written yet is true.
Decided == sup.at = "finish" =>
  /\ sup.verdict = "ready" => release = job.target
  /\ sup.verdict = "restored" => release = job.previous /\ unit \in {job.previous, NoRelease}

\* Where nobody removes the daemon meanwhile, what was registered stays so.
Registered ==
  /\ sup.at \in Activating \ {"register"} => unit = sup.to
  /\ sup.at = "finish" /\ sup.verdict = "restored" => unit = job.previous

\* A verdict written to the journal and not shown yet is the one that will be.
ToShow ==
  /\ sup.at = "show" /\ sup.id = job.id => sup.verdict = job.outcome
  /\ req.at = "conclude" => job.outcome = "unlaunched"

\* While a job rolls back only its previous release is activated.
OnlyBack ==
  job.phase = "rollingBack" =>
    /\ sup.at \notin {"stage", "install", "mark"}
    /\ sup.at \in Activating => sup.to = job.previous

\* What holds also where the desktop installs and removes the daemon beside.
Core == /\ TypeOK /\ LocksHeld /\ OneJobAtATime /\ Activated /\ Decided
        /\ ToShow /\ ShownIsTrue /\ CommittedWasHealthy /\ OnlyBack
Inv == Core /\ Registered /\ VerdictIsTrue

\* The empty processes are processes, and versions are numbers.
LEMMA Values ==
  /\ NoSupervisor \in Supervisor /\ NoRequest \in Requester
  /\ 0 \in Release /\ Release \subseteq Nat
BY UpdateAssumption DEF UpdateAssumption, NoSupervisor, Supervisor, SupStep, Verdict,
   NoRequest, Requester, ReqStep, Release

\* The record a request writes when its launch failed is one.
LEMMA EndedRecord ==
  ASSUME job \in Record
  PROVE  [job EXCEPT !.phase = "finished", !.failures = 0, !.outcome = "unlaunched"] \in Record
<1>1. /\ 0 \in 0 .. GiveUpAfter - 1
      /\ "finished" \in Phase /\ "unlaunched" \in Outcome
  BY DEF GiveUpAfter, Phase, Outcome, Verdict
<1> QED
  BY <1>1 DEF Record

\* The invariant holds before the first update.
LEMMA InitInv == Init => Inv
BY UpdateAssumption
   DEF UpdateAssumption, Release, Pending, Record, Supervisor, Requester, Init, Inv, Core,
       TypeOK, LocksHeld, OneJobAtATime, Activating, Activated, Decided, ToShow,
       ShownIsTrue, Registered, VerdictIsTrue, CommittedWasHealthy, OnlyBack, Blank,
       NoSupervisor, NoRequest, SupStep, ReqStep, Phase, Verdict, Outcome, GiveUpAfter

\* Every step keeps the types; Error must not count past the third failure.
LEMMA StepTyped == Core /\ [Next]_vars => TypeOK'
<1> SUFFICES ASSUME Core, [Next]_vars PROVE TypeOK'
  OBVIOUS
<1> USE DEF Core, TypeOK, files, services
<1>1. CASE Boot
  BY <1>1 DEF Boot, Interrupted, Record, Supervisor, SupStep
<1>2. CASE Stage
  BY <1>2 DEF Stage, Reaches, Concludes, Record, Phase, Supervisor, SupStep,
     Verdict
<1>3. CASE Install
  BY <1>3 DEF Install, Record, Phase, Supervisor, SupStep
<1>4. CASE Register
  BY <1>4 DEF Register, Reaches, Abort, Supervisor, SupStep
<1>5. CASE Restart
  BY <1>5 DEF Restart, Reaches, Abort, Supervisor, SupStep
<1>6. CASE Mark
  BY <1>6 DEF Mark, Reaches, Record, Phase, Supervisor, SupStep
<1>7. CASE CheckHealth
  BY <1>7 DEF CheckHealth, Reaches, Abort, Supervisor, SupStep
<1>8. CASE Commit
  BY <1>8 DEF Commit, Concludes, Reaches, Abort, Supervisor, SupStep, Verdict
<1>9. CASE Rollback
  BY <1>9 DEF Rollback, Record, Phase, Supervisor, SupStep
<1>10. CASE Recover
  BY <1>10 DEF Recover, Reaches, Concludes, Record, Supervisor, SupStep,
     Verdict
<1>11. CASE Finish
  BY <1>11 DEF Finish, Reaches, Record, Phase, Outcome, Supervisor, SupStep
<1>12. CASE Show
  BY <1>12, Values DEF Show, Supervisor, Outcome
<1>13. CASE Error
  <2>1. CASE job.failures + 1 >= GiveUpAfter
    BY <1>13, <2>1 DEF Error, Concludes, Supervisor, SupStep, Verdict
  <2>2. CASE ~(job.failures + 1 >= GiveUpAfter)
    <3>1. job' = [job EXCEPT !.failures = @ + 1] /\ sup' = NoSupervisor /\ owner' = "nobody"
      BY <1>13, <2>2 DEF Error
    <3>2. job' \in Record
      BY <3>1, <2>2 DEF Record, GiveUpAfter
    <3> QED
      BY <1>13, <3>1, <3>2, Values DEF Error
  <2> QED
    BY <2>1, <2>2
<1>14. CASE Request
  BY <1>14 DEF Request, Requester, ReqStep
<1>15. CASE LockRequest
  BY <1>15, Values DEF LockRequest, Moves, Requester, ReqStep
<1>16. CASE ReadJournal
  BY <1>16, Values DEF ReadJournal, Moves, Requester, ReqStep
<1>17. CASE Publish
  BY <1>17, Values DEF Publish, Moves, Queued, Record, Phase, Outcome,
     GiveUpAfter, Requester, ReqStep
<1>18. CASE Resume
  BY <1>18, Values DEF Resume, Started, MaybeEnabled
<1>19. CASE Launch
  BY <1>19, Values DEF Launch, Started, MaybeEnabled, KillSupervisor, Moves,
     Requester, ReqStep
<1>20. CASE Refused
  <2>1. CASE owner = "nobody" /\ Pending
    <3>1. job' = [job EXCEPT !.phase = "finished", !.failures = 0, !.outcome = "unlaunched"]
      BY <1>20, <2>1 DEF Refused
    <3>2. job' \in Record
      BY <3>1, EndedRecord
    <3> QED
      BY <1>20, <2>1, <3>2 DEF Refused, Moves, Requester, ReqStep
  <2>2. CASE ~(owner = "nobody" /\ Pending)
    BY <1>20, <2>2, Values DEF Refused
  <2> QED
    BY <2>1, <2>2
<1>21. CASE Conclude
  BY <1>21, Values DEF Conclude, Outcome, Verdict
<1>22. CASE Rediscover
  BY <1>22 DEF Rediscover, Started, MaybeEnabled
<1>23. CASE DaemonRestarts
  BY <1>23 DEF DaemonRestarts
<1>24. CASE SupervisorDies
  BY <1>24, Values DEF SupervisorDies, KillSupervisor
<1>25. CASE RequesterDies
  BY <1>25, Values DEF RequesterDies, ReleaseRequestLocks
<1>26. CASE Reboot
  BY <1>26, Values DEF Reboot
<1>27. CASE UNCHANGED vars
  BY <1>27 DEF vars
<1> QED
  BY <1>1, <1>2, <1>3, <1>4, <1>5, <1>6, <1>7, <1>8, <1>9, <1>10, <1>11,
     <1>12, <1>13, <1>14, <1>15, <1>16, <1>17, <1>18, <1>19, <1>20, <1>21,
     <1>22, <1>23, <1>24, <1>25, <1>26, <1>27
     DEF Next, SupervisorStep, RequesterStep, Machine

\* Every step keeps the locks: who takes one finds it free, who dies drops it.
LEMMA StepLocks == Core /\ [Next]_vars => LocksHeld'
<1> SUFFICES ASSUME Core, [Next]_vars PROVE LocksHeld'
  OBVIOUS
<1>a. job \in Record /\ sup \in Supervisor /\ req \in Requester
  BY DEF Core, TypeOK
<1> USE DEF Core, Pending, Record, Supervisor, Requester, LocksHeld,
     OneJobAtATime, files, services
<1>1. CASE Boot
  BY <1>1, <1>a DEF Boot, Interrupted
<1>2. CASE Stage
  BY <1>2, <1>a DEF Stage, Reaches, Concludes
<1>3. CASE Install
  BY <1>3, <1>a DEF Install
<1>4. CASE Register
  BY <1>4, <1>a DEF Register, Reaches, Abort
<1>5. CASE Restart
  BY <1>5, <1>a DEF Restart, Reaches, Abort
<1>6. CASE Mark
  BY <1>6, <1>a DEF Mark, Reaches
<1>7. CASE CheckHealth
  BY <1>7, <1>a DEF CheckHealth, Reaches, Abort
<1>8. CASE Commit
  BY <1>8, <1>a DEF Commit, Concludes, Reaches, Abort
<1>9. CASE Rollback
  BY <1>9, <1>a DEF Rollback
<1>10. CASE Recover
  BY <1>10, <1>a DEF Recover, Reaches, Concludes
<1>11. CASE Finish
  BY <1>11, <1>a DEF Finish, Reaches
<1>12. CASE Show
  BY <1>12, <1>a DEF Show, NoSupervisor
<1>13. CASE Error
  <2>1. CASE sup' = [sup EXCEPT !.at = "finish", !.verdict = "gave up"] /\ UNCHANGED <<job, owner>>
    BY <1>13, <2>1, <1>a DEF Error
  <2>2. CASE /\ job' = [job EXCEPT !.failures = @ + 1]
             /\ sup' = NoSupervisor /\ owner' = "nobody"
    BY <1>13, <2>2, <1>a DEF Error, NoSupervisor
  <2> QED
    BY <1>13, <2>1, <2>2 DEF Error, Concludes
<1>14. CASE Request
  BY <1>14, <1>a DEF Request
<1>15. CASE LockRequest
  BY <1>15, <1>a DEF LockRequest, Moves, NoRequest
<1>16. CASE ReadJournal
  BY <1>16, <1>a DEF ReadJournal, Moves, NoRequest
<1>17. CASE Publish
  BY <1>17, <1>a DEF Publish, Moves, NoRequest, Queued
<1>18. CASE Resume
  BY <1>18, <1>a DEF Resume, Started, MaybeEnabled, NoRequest
<1>19. CASE Launch
  BY <1>19, <1>a DEF Launch, Started, MaybeEnabled, KillSupervisor,
     NoSupervisor, Moves, NoRequest
<1>20. CASE Refused
  <2>1. CASE owner = "nobody" /\ Pending
    BY <1>20, <2>1, <1>a DEF Refused, Moves
  <2>2. CASE ~(owner = "nobody" /\ Pending)
    BY <1>20, <2>2, <1>a DEF Refused, NoRequest
  <2> QED
    BY <2>1, <2>2
<1>21. CASE Conclude
  BY <1>21, <1>a DEF Conclude, NoRequest
<1>22. CASE Rediscover
  BY <1>22, <1>a DEF Rediscover, Started, MaybeEnabled
<1>23. CASE DaemonRestarts
  BY <1>23, <1>a DEF DaemonRestarts
<1>24. CASE SupervisorDies
  BY <1>24, <1>a DEF SupervisorDies, KillSupervisor, NoSupervisor
<1>25. CASE RequesterDies
  BY <1>25, <1>a DEF RequesterDies, ReleaseRequestLocks, NoRequest
<1>26. CASE Reboot
  BY <1>26, <1>a DEF Reboot, NoSupervisor, NoRequest
<1>27. CASE UNCHANGED vars
  BY <1>27, <1>a DEF vars
<1> QED
  BY <1>1, <1>2, <1>3, <1>4, <1>5, <1>6, <1>7, <1>8, <1>9, <1>10, <1>11,
     <1>12, <1>13, <1>14, <1>15, <1>16, <1>17, <1>18, <1>19, <1>20, <1>21,
     <1>22, <1>23, <1>24, <1>25, <1>26, <1>27
     DEF Next, SupervisorStep, RequesterStep, Machine

\* No step puts another job, or a finished one, under the supervisor.
LEMMA StepJob == Core /\ [Next]_vars => OneJobAtATime'
<1> SUFFICES ASSUME Core, [Next]_vars PROVE OneJobAtATime'
  OBVIOUS
<1>a. job \in Record /\ sup \in Supervisor /\ req \in Requester
  BY DEF Core, TypeOK
<1> USE DEF Core, Pending, Record, Supervisor, Requester, LocksHeld,
     OneJobAtATime, files, services
<1>1. CASE Boot
  <2>1. CASE Pending
    <3>1. PICK at \in {"recover", "stage"} : sup' = [sup EXCEPT !.at = at, !.id = job.id]
      BY <1>1, <2>1 DEF Boot
    <3>2. sup'.at = at /\ sup'.id = job.id
      BY <3>1, <1>a
    <3>3. UNCHANGED <<job, req>>
      BY <1>1 DEF Boot
    <3> QED
      BY <2>1, <3>2, <3>3, <1>a
  <2>2. CASE ~Pending
    BY <1>1, <2>2, <1>a DEF Boot
  <2> QED
    BY <2>1, <2>2
<1>2. CASE Stage
  BY <1>2, <1>a, ZenonT(60) DEF Stage, Reaches, Concludes
<1>3. CASE Install
  BY <1>3, <1>a DEF Install
<1>4. CASE Register
  BY <1>4, <1>a DEF Register, Reaches, Abort
<1>5. CASE Restart
  BY <1>5, <1>a DEF Restart, Reaches, Abort
<1>6. CASE Mark
  BY <1>6, <1>a DEF Mark, Reaches
<1>7. CASE CheckHealth
  BY <1>7, <1>a DEF CheckHealth, Reaches, Abort
<1>8. CASE Commit
  BY <1>8, <1>a DEF Commit, Concludes, Reaches, Abort
<1>9. CASE Rollback
  BY <1>9, <1>a DEF Rollback
<1>10. CASE Recover
  BY <1>10, <1>a DEF Recover, Reaches, Concludes
<1>11. CASE Finish
  BY <1>11, <1>a DEF Finish, Reaches
<1>12. CASE Show
  BY <1>12, <1>a DEF Show, NoSupervisor
<1>13. CASE Error
  <2>1. CASE sup' = [sup EXCEPT !.at = "finish", !.verdict = "gave up"] /\ UNCHANGED <<job, owner>>
    BY <1>13, <2>1, <1>a DEF Error
  <2>2. CASE /\ job' = [job EXCEPT !.failures = @ + 1]
             /\ sup' = NoSupervisor /\ owner' = "nobody"
    BY <1>13, <2>2, <1>a DEF Error, NoSupervisor
  <2> QED
    BY <1>13, <2>1, <2>2 DEF Error, Concludes
<1>14. CASE Request
  BY <1>14, <1>a DEF Request
<1>15. CASE LockRequest
  BY <1>15, <1>a DEF LockRequest, Moves, NoRequest
<1>16. CASE ReadJournal
  BY <1>16, <1>a DEF ReadJournal, Moves, NoRequest
<1>17. CASE Publish
  <2>1. CASE UNCHANGED job
    BY <1>17, <2>1, <1>a DEF Publish, Moves, NoRequest
  <2>2. CASE job' = Queued(job.id + 1, req.version, req.previous) /\ Moves("launch")
    <3>1. req' = [req EXCEPT !.at = "launch"] /\ UNCHANGED sup
      BY <1>17, <2>2 DEF Publish, Moves
    <3>2. sup.at # "off" => sup.at = "show" /\ sup.id <= job.id
      BY <1>17 DEF Publish
    <3>3. /\ job'.id = job.id + 1 /\ job'.outcome = "pending"
          /\ job'.target = req.version /\ job'.previous = req.previous
          /\ req.version > req.previous
      BY <1>17, <2>2 DEF Publish, Queued
    <3> QED
      BY <3>1, <3>2, <3>3, <1>a, Values
  <2> QED
    BY <1>17, <2>1, <2>2 DEF Publish
<1>18. CASE Resume
  BY <1>18, <1>a DEF Resume, Started, MaybeEnabled, NoRequest
<1>19. CASE Launch
  BY <1>19, <1>a DEF Launch, Started, MaybeEnabled, KillSupervisor,
     NoSupervisor, Moves, NoRequest
<1>20. CASE Refused
  <2>1. CASE owner = "nobody" /\ Pending
    BY <1>20, <2>1, <1>a DEF Refused, Moves
  <2>2. CASE ~(owner = "nobody" /\ Pending)
    BY <1>20, <2>2, <1>a DEF Refused, NoRequest
  <2> QED
    BY <2>1, <2>2
<1>21. CASE Conclude
  BY <1>21, <1>a DEF Conclude, NoRequest
<1>22. CASE Rediscover
  BY <1>22, <1>a DEF Rediscover, Started, MaybeEnabled
<1>23. CASE DaemonRestarts
  BY <1>23, <1>a DEF DaemonRestarts
<1>24. CASE SupervisorDies
  BY <1>24, <1>a DEF SupervisorDies, KillSupervisor, NoSupervisor
<1>25. CASE RequesterDies
  BY <1>25, <1>a DEF RequesterDies, ReleaseRequestLocks, NoRequest
<1>26. CASE Reboot
  BY <1>26, <1>a DEF Reboot, NoSupervisor, NoRequest
<1>27. CASE UNCHANGED vars
  BY <1>27, <1>a DEF vars
<1> QED
  BY <1>1, <1>2, <1>3, <1>4, <1>5, <1>6, <1>7, <1>8, <1>9, <1>10, <1>11,
     <1>12, <1>13, <1>14, <1>15, <1>16, <1>17, <1>18, <1>19, <1>20, <1>21,
     <1>22, <1>23, <1>24, <1>25, <1>26, <1>27
     DEF Next, SupervisorStep, RequesterStep, Machine

\* Each step of an activation finds what the one before has established.
LEMMA StepActivated == Core /\ [Next]_vars => (Activated /\ Decided)'
<1> SUFFICES ASSUME Core, [Next]_vars PROVE (Activated /\ Decided)'
  OBVIOUS
<1>a. job \in Record /\ sup \in Supervisor /\ req \in Requester
  BY DEF Core, TypeOK
<1> USE DEF Core, Pending, Record, Supervisor, Requester, LocksHeld,
     OneJobAtATime, Activating, Activated, Decided, files, services
<1>1. CASE Boot
  BY <1>1, <1>a, ZenonT(60) DEF Boot, Interrupted
<1>2. CASE Stage
  BY <1>2, <1>a DEF Stage, Reaches, Concludes
<1>3. CASE Install
  BY <1>3, <1>a DEF Install
<1>4. CASE Register
  BY <1>4, <1>a, ZenonT(60) DEF Register, Reaches, Abort
<1>5. CASE Restart
  BY <1>5, <1>a DEF Restart, Reaches, Abort
<1>6. CASE Mark
  BY <1>6, <1>a DEF Mark, Reaches
<1>7. CASE CheckHealth
  BY <1>7, <1>a DEF CheckHealth, Reaches, Abort
<1>8. CASE Commit
  BY <1>8, <1>a DEF Commit, Concludes, Reaches, Abort
<1>9. CASE Rollback
  BY <1>9, <1>a DEF Rollback
<1>10. CASE Recover
  BY <1>10, <1>a DEF Recover, Reaches, Concludes
<1>11. CASE Finish
  BY <1>11, <1>a DEF Finish, Reaches
<1>12. CASE Show
  BY <1>12, <1>a DEF Show, NoSupervisor
<1>13. CASE Error
  <2>1. CASE sup' = [sup EXCEPT !.at = "finish", !.verdict = "gave up"] /\ UNCHANGED <<job, owner>>
    BY <1>13, <2>1, <1>a DEF Error
  <2>2. CASE /\ job' = [job EXCEPT !.failures = @ + 1]
             /\ sup' = NoSupervisor /\ owner' = "nobody"
    BY <1>13, <2>2, <1>a DEF Error, NoSupervisor
  <2> QED
    BY <1>13, <2>1, <2>2 DEF Error, Concludes
<1>14. CASE Publish
  BY <1>14, <1>a DEF Publish, Moves, NoRequest, Queued
<1>15. CASE Launch
  BY <1>15, <1>a DEF Launch, Started, MaybeEnabled, KillSupervisor,
     NoSupervisor, Moves, NoRequest
<1>16. CASE Refused
  <2>1. CASE owner = "nobody" /\ Pending
    BY <1>16, <2>1, <1>a DEF Refused, Moves
  <2>2. CASE ~(owner = "nobody" /\ Pending)
    BY <1>16, <2>2, <1>a DEF Refused, NoRequest
  <2> QED
    BY <2>1, <2>2
<1>17. CASE SupervisorDies
  BY <1>17, <1>a DEF SupervisorDies, KillSupervisor, NoSupervisor
<1>18. CASE Reboot
  BY <1>18, <1>a DEF Reboot, NoSupervisor, NoRequest
<1>19. CASE Request \/ LockRequest \/ ReadJournal \/ Resume \/ Conclude \/ Rediscover \/
     DaemonRestarts \/ RequesterDies \/ UNCHANGED vars
  BY <1>19, <1>a DEF Request, LockRequest, Moves, NoRequest, ReadJournal,
     Resume, Started, MaybeEnabled, Conclude, Rediscover, DaemonRestarts,
     RequesterDies, ReleaseRequestLocks, vars
<1> QED
  BY <1>1, <1>2, <1>3, <1>4, <1>5, <1>6, <1>7, <1>8, <1>9, <1>10, <1>11,
     <1>12, <1>13, <1>14, <1>15, <1>16, <1>17, <1>18, <1>19
     DEF Next, SupervisorStep, RequesterStep, Machine

\* A release is committed by whoever has seen it answer.
LEMMA StepHealthy == Core /\ [Next]_vars => CommittedWasHealthy'
<1> SUFFICES ASSUME Core, [Next]_vars PROVE CommittedWasHealthy'
  OBVIOUS
<1>a. job \in Record /\ sup \in Supervisor /\ req \in Requester
  BY DEF Core, TypeOK
<1> USE DEF Core, Pending, Record, Supervisor, Requester, LocksHeld,
     OneJobAtATime, Activating, Activated, CommittedWasHealthy, files, services
<1>1. CASE Boot
  BY <1>1, <1>a DEF Boot, Interrupted
<1>2. CASE Stage
  BY <1>2, <1>a DEF Stage, Reaches, Concludes
<1>3. CASE Install
  BY <1>3, <1>a DEF Install
<1>4. CASE Register
  BY <1>4, <1>a DEF Register, Reaches, Abort
<1>5. CASE Restart
  BY <1>5, <1>a DEF Restart, Reaches, Abort
<1>6. CASE Mark
  BY <1>6, <1>a DEF Mark, Reaches
<1>7. CASE CheckHealth
  BY <1>7, <1>a DEF CheckHealth, Reaches, Abort
<1>8. CASE Commit
  BY <1>8, <1>a DEF Commit, Concludes, Reaches, Abort
<1>9. CASE Rollback
  BY <1>9, <1>a DEF Rollback
<1>10. CASE Recover
  BY <1>10, <1>a DEF Recover, Reaches, Concludes
<1>11. CASE Finish
  BY <1>11, <1>a DEF Finish, Reaches
<1>12. CASE Show
  BY <1>12, <1>a DEF Show, NoSupervisor
<1>13. CASE Error
  <2>1. CASE sup' = [sup EXCEPT !.at = "finish", !.verdict = "gave up"] /\ UNCHANGED <<job, owner>>
    BY <1>13, <2>1, <1>a DEF Error
  <2>2. CASE /\ job' = [job EXCEPT !.failures = @ + 1]
             /\ sup' = NoSupervisor /\ owner' = "nobody"
    BY <1>13, <2>2, <1>a DEF Error, NoSupervisor
  <2> QED
    BY <1>13, <2>1, <2>2 DEF Error, Concludes
<1>14. CASE Publish
  BY <1>14, <1>a DEF Publish, Moves, NoRequest, Queued
<1>15. CASE Launch
  BY <1>15, <1>a DEF Launch, Started, MaybeEnabled, KillSupervisor,
     NoSupervisor, Moves, NoRequest
<1>16. CASE Refused
  <2>1. CASE owner = "nobody" /\ Pending
    BY <1>16, <2>1, <1>a DEF Refused, Moves
  <2>2. CASE ~(owner = "nobody" /\ Pending)
    BY <1>16, <2>2, <1>a DEF Refused, NoRequest
  <2> QED
    BY <2>1, <2>2
<1>17. CASE SupervisorDies
  BY <1>17, <1>a DEF SupervisorDies, KillSupervisor, NoSupervisor
<1>18. CASE Reboot
  BY <1>18, <1>a DEF Reboot, NoSupervisor, NoRequest
<1>19. CASE Request \/ LockRequest \/ ReadJournal \/ Resume \/ Conclude \/ Rediscover \/
     DaemonRestarts \/ RequesterDies \/ UNCHANGED vars
  BY <1>19, <1>a DEF Request, LockRequest, Moves, NoRequest, ReadJournal,
     Resume, Started, MaybeEnabled, Conclude, Rediscover, DaemonRestarts,
     RequesterDies, ReleaseRequestLocks, vars
<1> QED
  BY <1>1, <1>2, <1>3, <1>4, <1>5, <1>6, <1>7, <1>8, <1>9, <1>10, <1>11,
     <1>12, <1>13, <1>14, <1>15, <1>16, <1>17, <1>18, <1>19
     DEF Next, SupervisorStep, RequesterStep, Machine

\* What Finish writes stays true, since later commits belong to later jobs.
LEMMA StepVerdict == Inv /\ [Next]_vars => (Registered /\ VerdictIsTrue)'
<1> SUFFICES ASSUME Inv, [Next]_vars PROVE (Registered /\ VerdictIsTrue)'
  OBVIOUS
<1>a. job \in Record /\ sup \in Supervisor /\ req \in Requester
  BY DEF Inv, Core, TypeOK
<1> USE DEF Inv, Core, Pending, Record, Supervisor, Requester, LocksHeld,
     OneJobAtATime, Activating, Activated, Decided, Registered, VerdictIsTrue, files, services
<1>1. CASE Boot
  BY <1>1, <1>a DEF Boot, Interrupted
<1>2. CASE Stage
  BY <1>2, <1>a DEF Stage, Reaches, Concludes
<1>3. CASE Install
  BY <1>3, <1>a DEF Install
<1>4. CASE Register
  BY <1>4, <1>a DEF Register, Reaches, Abort
<1>5. CASE Restart
  BY <1>5, <1>a DEF Restart, Reaches, Abort
<1>6. CASE Mark
  BY <1>6, <1>a DEF Mark, Reaches
<1>7. CASE CheckHealth
  BY <1>7, <1>a DEF CheckHealth, Reaches, Abort
<1>8. CASE Commit
  BY <1>8, <1>a DEF Commit, Concludes, Reaches, Abort
<1>9. CASE Rollback
  BY <1>9, <1>a DEF Rollback
<1>10. CASE Recover
  BY <1>10, <1>a DEF Recover, Reaches, Concludes
<1>11. CASE Finish
  BY <1>11, <1>a DEF Finish, Reaches
<1>12. CASE Show
  BY <1>12, <1>a DEF Show, NoSupervisor
<1>13. CASE Error
  <2>1. CASE sup' = [sup EXCEPT !.at = "finish", !.verdict = "gave up"] /\ UNCHANGED <<job, owner>>
    BY <1>13, <2>1, <1>a DEF Error
  <2>2. CASE /\ job' = [job EXCEPT !.failures = @ + 1]
             /\ sup' = NoSupervisor /\ owner' = "nobody"
    BY <1>13, <2>2, <1>a DEF Error, NoSupervisor
  <2> QED
    BY <1>13, <2>1, <2>2 DEF Error, Concludes
<1>14. CASE Publish
  BY <1>14, <1>a DEF Publish, Moves, NoRequest, Queued
<1>15. CASE Launch
  BY <1>15, <1>a DEF Launch, Started, MaybeEnabled, KillSupervisor,
     NoSupervisor, Moves, NoRequest
<1>16. CASE Refused
  <2>1. CASE owner = "nobody" /\ Pending
    BY <1>16, <2>1, <1>a DEF Refused, Moves
  <2>2. CASE ~(owner = "nobody" /\ Pending)
    BY <1>16, <2>2, <1>a DEF Refused, NoRequest
  <2> QED
    BY <2>1, <2>2
<1>17. CASE SupervisorDies
  BY <1>17, <1>a DEF SupervisorDies, KillSupervisor, NoSupervisor
<1>18. CASE Reboot
  BY <1>18, <1>a DEF Reboot, NoSupervisor, NoRequest
<1>19. CASE Request \/ LockRequest \/ ReadJournal \/ Resume \/ Conclude \/ Rediscover \/
     DaemonRestarts \/ RequesterDies \/ UNCHANGED vars
  BY <1>19, <1>a DEF Request, LockRequest, Moves, NoRequest, ReadJournal,
     Resume, Started, MaybeEnabled, Conclude, Rediscover, DaemonRestarts,
     RequesterDies, ReleaseRequestLocks, vars
<1> QED
  BY <1>1, <1>2, <1>3, <1>4, <1>5, <1>6, <1>7, <1>8, <1>9, <1>10, <1>11,
     <1>12, <1>13, <1>14, <1>15, <1>16, <1>17, <1>18, <1>19
     DEF Next, SupervisorStep, RequesterStep, Machine

\* A verdict between job.json and status.json is not replaced.
LEMMA StepShown == Core /\ [Next]_vars => ToShow'
<1> SUFFICES ASSUME Core, [Next]_vars PROVE ToShow'
  OBVIOUS
<1>a. job \in Record /\ sup \in Supervisor /\ req \in Requester
  BY DEF Core, TypeOK
<1> USE DEF Core, Pending, Record, Supervisor, Requester, LocksHeld,
     OneJobAtATime, ToShow, files, services
<1>1. CASE Boot
  BY <1>1, <1>a DEF Boot, Interrupted
<1>2. CASE Stage
  BY <1>2, <1>a DEF Stage, Reaches, Concludes
<1>3. CASE Install
  BY <1>3, <1>a DEF Install
<1>4. CASE Register
  BY <1>4, <1>a DEF Register, Reaches, Abort
<1>5. CASE Restart
  BY <1>5, <1>a DEF Restart, Reaches, Abort
<1>6. CASE Mark
  BY <1>6, <1>a DEF Mark, Reaches
<1>7. CASE CheckHealth
  BY <1>7, <1>a DEF CheckHealth, Reaches, Abort
<1>8. CASE Commit
  BY <1>8, <1>a DEF Commit, Concludes, Reaches, Abort
<1>9. CASE Rollback
  BY <1>9, <1>a DEF Rollback
<1>10. CASE Recover
  BY <1>10, <1>a DEF Recover, Reaches, Concludes
<1>11. CASE Finish
  BY <1>11, <1>a DEF Finish, Reaches
<1>12. CASE Show
  BY <1>12, <1>a DEF Show, NoSupervisor
<1>13. CASE Error
  <2>1. CASE sup' = [sup EXCEPT !.at = "finish", !.verdict = "gave up"] /\ UNCHANGED <<job, owner>>
    BY <1>13, <2>1, <1>a DEF Error
  <2>2. CASE /\ job' = [job EXCEPT !.failures = @ + 1]
             /\ sup' = NoSupervisor /\ owner' = "nobody"
    BY <1>13, <2>2, <1>a DEF Error, NoSupervisor
  <2> QED
    BY <1>13, <2>1, <2>2 DEF Error, Concludes
<1>14. CASE Request
  BY <1>14, <1>a DEF Request
<1>15. CASE LockRequest
  BY <1>15, <1>a DEF LockRequest, Moves, NoRequest
<1>16. CASE ReadJournal
  BY <1>16, <1>a DEF ReadJournal, Moves, NoRequest
<1>17. CASE Publish
  BY <1>17, <1>a DEF Publish, Moves, NoRequest, Queued
<1>18. CASE Resume
  BY <1>18, <1>a DEF Resume, Started, MaybeEnabled, NoRequest
<1>19. CASE Launch
  BY <1>19, <1>a DEF Launch, Started, MaybeEnabled, KillSupervisor,
     NoSupervisor, Moves, NoRequest
<1>20. CASE Refused
  <2>1. CASE owner = "nobody" /\ Pending
    BY <1>20, <2>1, <1>a DEF Refused, Moves
  <2>2. CASE ~(owner = "nobody" /\ Pending)
    BY <1>20, <2>2, <1>a DEF Refused, NoRequest
  <2> QED
    BY <2>1, <2>2
<1>21. CASE Conclude
  BY <1>21, <1>a DEF Conclude, NoRequest
<1>22. CASE SupervisorDies
  BY <1>22, <1>a DEF SupervisorDies, KillSupervisor, NoSupervisor
<1>23. CASE RequesterDies
  BY <1>23, <1>a DEF RequesterDies, ReleaseRequestLocks, NoRequest
<1>24. CASE Reboot
  BY <1>24, <1>a DEF Reboot, NoSupervisor, NoRequest
<1>25. CASE Rediscover \/ DaemonRestarts \/ UNCHANGED vars
  BY <1>25, <1>a DEF Rediscover, Started, MaybeEnabled, DaemonRestarts, vars
<1> QED
  BY <1>1, <1>2, <1>3, <1>4, <1>5, <1>6, <1>7, <1>8, <1>9, <1>10, <1>11,
     <1>12, <1>13, <1>14, <1>15, <1>16, <1>17, <1>18, <1>19, <1>20, <1>21,
     <1>22, <1>23, <1>24, <1>25
     DEF Next, SupervisorStep, RequesterStep, Machine

\* Only Show and Conclude write a verdict, the one in the journal.
LEMMA StepStatus == Core /\ [Next]_vars => ShownIsTrue'
<1> SUFFICES ASSUME Core, [Next]_vars PROVE ShownIsTrue'
  OBVIOUS
<1>a. job \in Record /\ sup \in Supervisor /\ req \in Requester
  BY DEF Core, TypeOK
<1> USE DEF Core, Pending, Record, Supervisor, Requester, LocksHeld,
     OneJobAtATime, ToShow, ShownIsTrue, Verdict, files, services
<1>1. CASE Boot
  BY <1>1, <1>a DEF Boot, Interrupted
<1>2. CASE Stage
  BY <1>2, <1>a DEF Stage, Reaches, Concludes
<1>3. CASE Install
  BY <1>3, <1>a DEF Install
<1>4. CASE Register
  BY <1>4, <1>a DEF Register, Reaches, Abort
<1>5. CASE Restart
  BY <1>5, <1>a DEF Restart, Reaches, Abort
<1>6. CASE Mark
  BY <1>6, <1>a DEF Mark, Reaches
<1>7. CASE CheckHealth
  BY <1>7, <1>a DEF CheckHealth, Reaches, Abort
<1>8. CASE Commit
  BY <1>8, <1>a DEF Commit, Concludes, Reaches, Abort
<1>9. CASE Rollback
  BY <1>9, <1>a DEF Rollback
<1>10. CASE Recover
  BY <1>10, <1>a DEF Recover, Reaches, Concludes
<1>11. CASE Finish
  BY <1>11, <1>a DEF Finish, Reaches
<1>12. CASE Show
  BY <1>12, <1>a DEF Show, NoSupervisor
<1>13. CASE Error
  <2>1. CASE sup' = [sup EXCEPT !.at = "finish", !.verdict = "gave up"] /\ UNCHANGED <<job, owner>>
    BY <1>13, <2>1, <1>a DEF Error
  <2>2. CASE /\ job' = [job EXCEPT !.failures = @ + 1]
             /\ sup' = NoSupervisor /\ owner' = "nobody"
    BY <1>13, <2>2, <1>a DEF Error, NoSupervisor
  <2> QED
    BY <1>13, <2>1, <2>2 DEF Error, Concludes
<1>14. CASE Request
  BY <1>14, <1>a DEF Request
<1>15. CASE LockRequest
  BY <1>15, <1>a DEF LockRequest, Moves, NoRequest
<1>16. CASE ReadJournal
  BY <1>16, <1>a DEF ReadJournal, Moves, NoRequest
<1>17. CASE Publish
  BY <1>17, <1>a DEF Publish, Moves, NoRequest, Queued
<1>18. CASE Resume
  BY <1>18, <1>a DEF Resume, Started, MaybeEnabled, NoRequest
<1>19. CASE Launch
  BY <1>19, <1>a DEF Launch, Started, MaybeEnabled, KillSupervisor,
     NoSupervisor, Moves, NoRequest
<1>20. CASE Refused
  <2>1. CASE owner = "nobody" /\ Pending
    BY <1>20, <2>1, <1>a DEF Refused, Moves
  <2>2. CASE ~(owner = "nobody" /\ Pending)
    BY <1>20, <2>2, <1>a DEF Refused, NoRequest
  <2> QED
    BY <2>1, <2>2
<1>21. CASE Conclude
  BY <1>21, <1>a DEF Conclude, NoRequest
<1>22. CASE SupervisorDies
  BY <1>22, <1>a DEF SupervisorDies, KillSupervisor, NoSupervisor
<1>23. CASE RequesterDies
  BY <1>23, <1>a DEF RequesterDies, ReleaseRequestLocks, NoRequest
<1>24. CASE Reboot
  BY <1>24, <1>a DEF Reboot, NoSupervisor, NoRequest
<1>25. CASE Rediscover \/ DaemonRestarts \/ UNCHANGED vars
  BY <1>25, <1>a DEF Rediscover, Started, MaybeEnabled, DaemonRestarts, vars
<1> QED
  BY <1>1, <1>2, <1>3, <1>4, <1>5, <1>6, <1>7, <1>8, <1>9, <1>10, <1>11,
     <1>12, <1>13, <1>14, <1>15, <1>16, <1>17, <1>18, <1>19, <1>20, <1>21,
     <1>22, <1>23, <1>24, <1>25
     DEF Next, SupervisorStep, RequesterStep, Machine

\* From the first step of a rollback on nothing leads forward again.
LEMMA StepOnlyBack == Core /\ [Next]_vars => OnlyBack'
<1> SUFFICES ASSUME Core, [Next]_vars PROVE OnlyBack'
  OBVIOUS
<1>a. job \in Record /\ sup \in Supervisor /\ req \in Requester
  BY DEF Core, TypeOK
<1> USE DEF Core, Pending, Record, Supervisor, Requester, LocksHeld,
     OneJobAtATime, Activating, Activated, OnlyBack, files, services
<1>1. CASE Boot
  BY <1>1, <1>a, ZenonT(60) DEF Boot, Interrupted
<1>2. CASE Stage
  BY <1>2, <1>a DEF Stage, Reaches, Concludes
<1>3. CASE Install
  BY <1>3, <1>a DEF Install
<1>4. CASE Register
  BY <1>4, <1>a, ZenonT(60) DEF Register, Reaches, Abort
<1>5. CASE Restart
  BY <1>5, <1>a DEF Restart, Reaches, Abort
<1>6. CASE Mark
  BY <1>6, <1>a DEF Mark, Reaches
<1>7. CASE CheckHealth
  BY <1>7, <1>a DEF CheckHealth, Reaches, Abort
<1>8. CASE Commit
  BY <1>8, <1>a, ZenonT(60) DEF Commit, Concludes, Reaches, Abort
<1>9. CASE Rollback
  BY <1>9, <1>a DEF Rollback
<1>10. CASE Recover
  BY <1>10, <1>a, ZenonT(60) DEF Recover, Reaches, Concludes
<1>11. CASE Finish
  BY <1>11, <1>a DEF Finish, Reaches
<1>12. CASE Show
  BY <1>12, <1>a DEF Show, NoSupervisor
<1>13. CASE Error
  <2>1. CASE sup' = [sup EXCEPT !.at = "finish", !.verdict = "gave up"] /\ UNCHANGED <<job, owner>>
    BY <1>13, <2>1, <1>a DEF Error
  <2>2. CASE /\ job' = [job EXCEPT !.failures = @ + 1]
             /\ sup' = NoSupervisor /\ owner' = "nobody"
    BY <1>13, <2>2, <1>a DEF Error, NoSupervisor
  <2> QED
    BY <1>13, <2>1, <2>2 DEF Error, Concludes
<1>14. CASE Publish
  BY <1>14, <1>a DEF Publish, Moves, NoRequest, Queued
<1>15. CASE Launch
  BY <1>15, <1>a DEF Launch, Started, MaybeEnabled, KillSupervisor,
     NoSupervisor, Moves, NoRequest
<1>16. CASE Refused
  <2>1. CASE owner = "nobody" /\ Pending
    BY <1>16, <2>1, <1>a DEF Refused, Moves
  <2>2. CASE ~(owner = "nobody" /\ Pending)
    BY <1>16, <2>2, <1>a DEF Refused, NoRequest
  <2> QED
    BY <2>1, <2>2
<1>17. CASE SupervisorDies
  BY <1>17, <1>a DEF SupervisorDies, KillSupervisor, NoSupervisor
<1>18. CASE Reboot
  BY <1>18, <1>a DEF Reboot, NoSupervisor, NoRequest
<1>19. CASE Request \/ LockRequest \/ ReadJournal \/ Resume \/ Conclude \/ Rediscover \/
     DaemonRestarts \/ RequesterDies \/ UNCHANGED vars
  BY <1>19, <1>a DEF Request, LockRequest, Moves, NoRequest, ReadJournal,
     Resume, Started, MaybeEnabled, Conclude, Rediscover, DaemonRestarts,
     RequesterDies, ReleaseRequestLocks, vars
<1> QED
  BY <1>1, <1>2, <1>3, <1>4, <1>5, <1>6, <1>7, <1>8, <1>9, <1>10, <1>11,
     <1>12, <1>13, <1>14, <1>15, <1>16, <1>17, <1>18, <1>19
     DEF Next, SupervisorStep, RequesterStep, Machine


\* One step of DaemonUpdate keeps the part that does not need it to be alone.
LEMMA StepCore == Core /\ [Next]_vars => Core'
<1> SUFFICES ASSUME Core, [Next]_vars PROVE Core'
  OBVIOUS
<1> QED
  BY StepTyped, StepLocks, StepJob, StepActivated, StepHealthy, StepShown,
     StepStatus, StepOnlyBack DEF Core

\* The invariant of every behaviour.
LEMMA Invariant == Spec => []Inv
<1>1. Inv /\ [Next]_vars => Inv'
  <2> SUFFICES ASSUME Inv, [Next]_vars PROVE Inv'
    OBVIOUS
  <2> QED
    BY StepCore, StepVerdict DEF Inv
<1> QED
  BY InitInv, <1>1, PTL DEF Spec

\* Files, service, processes and locks keep their shape, and a job is never
\* kept after a third failure, for any releases, jobs and crashes.
THEOREM Typed == Spec => []TypeOK
<1>1. Inv => TypeOK
  BY DEF Inv, Core
<1> QED
  BY Invariant, <1>1, PTL

\* Whatever fails or dies between two steps of an update, the committed release
\* has answered a health check.
THEOREM OnlyHealthyIsCommitted == Spec => []CommittedWasHealthy
<1>1. Inv => CommittedWasHealthy
  BY DEF Inv, Core
<1> QED
  BY Invariant, <1>1, PTL

\* "Ready" and "previous daemon restored" are true of the committed release,
\* and of the registered one where the previous daemon was restored.
THEOREM VerdictsAreTrue == Spec => []VerdictIsTrue
<1>1. Inv => VerdictIsTrue
  BY DEF Inv, Core
<1> QED
  BY Invariant, <1>1, PTL

\* The status file never shows a verdict the journal does not hold.
THEOREM StatusFollowsJournal == Spec => []ShownIsTrue
<1>1. Inv => ShownIsTrue
  BY DEF Inv, Core
<1> QED
  BY Invariant, <1>1, PTL

\* No supervisor or request that wakes up late changes a finished job.
THEOREM NothingReopensAJob == Spec => FinishedIsFinal
<1>1. Inv /\ [Next]_vars => [job.outcome \in Verdict /\ job'.id = job.id => job' = job]_vars
  <2> SUFFICES ASSUME Inv, Next, job.outcome \in Verdict, job'.id = job.id
               PROVE  job' = job
    BY DEF vars
  <2>1. /\ sup.at \in {"off", "show"} /\ ~Pending
        /\ job \in Record
    BY DEF Inv, Core, TypeOK, OneJobAtATime, Pending, Verdict
  <2>2. CASE SupervisorStep
    BY <2>1, <2>2 DEF SupervisorStep, files, Boot, Stage, Install, Register, Restart,
         Mark, CheckHealth, Commit, Rollback, Recover, Finish, Show, Error
  <2>3. CASE Publish
    <3>1. job' # Queued(job.id + 1, req.version, req.previous)
      BY <2>1 DEF Queued, Record
    <3> QED
      BY <2>3, <3>1 DEF Publish
  <2>4. CASE Request \/ LockRequest \/ ReadJournal \/ Resume \/ Launch \/ Refused \/ Conclude
    BY <2>1, <2>4 DEF files, Request, LockRequest, ReadJournal, Resume, Launch, Refused, Conclude
  <2>5. CASE Rediscover \/ Machine
    BY <2>5 DEF files, Rediscover, Machine, DaemonRestarts, SupervisorDies, RequesterDies, Reboot
  <2> QED
    BY <2>2, <2>3, <2>4, <2>5 DEF Next, RequesterStep
<1> QED
  BY Invariant, <1>1, PTL DEF Spec, FinishedIsFinal

\* A rollback that was begun is never turned into an activation again, through
\* any number of crashes and reboots.
THEOREM RollbacksAreNotUndone == Spec => RollbackSticks
<1> DEFINE Sticks == job.phase = "rollingBack" /\ job'.id = job.id =>
             /\ job'.phase \in {"rollingBack", "finished"}
             /\ unit' \in {unit, job.previous, NoRelease}
<1>1. Inv /\ [Next]_vars => [Sticks]_vars
  <2> SUFFICES ASSUME Inv, Next, job.phase = "rollingBack", job'.id = job.id
               PROVE  /\ job'.phase \in {"rollingBack", "finished"}
                      /\ unit' \in {unit, job.previous, NoRelease}
    BY DEF vars
  <2>1. /\ sup.at \notin {"stage", "install", "mark"}
        /\ sup.at = "register" => sup.to = job.previous
        /\ job \in Record
    BY DEF Inv, Core, TypeOK, OnlyBack, Activating
  <2>2. CASE Rollback \/ Finish \/ Error \/ Refused
    BY <2>1, <2>2 DEF Rollback, Finish, Error, Refused, services, Record
  <2>3. CASE Register
    BY <2>1, <2>3 DEF Register, files
  <2>4. CASE Stage \/ Install \/ Mark
    BY <2>1, <2>4 DEF Stage, Install, Mark
  <2>5. CASE Publish
    <3>1. job' # Queued(job.id + 1, req.version, req.previous)
      BY <2>1 DEF Queued, Record
    <3> QED
      BY <2>5, <3>1 DEF Publish, services
  <2>6. CASE \/ Boot \/ Restart \/ CheckHealth \/ Commit \/ Recover \/ Show
             \/ Request \/ LockRequest \/ ReadJournal \/ Resume \/ Launch \/ Conclude
             \/ Rediscover \/ Machine
    <3>1. UNCHANGED <<job, unit>>
      BY <2>6 DEF files, services, Boot, Restart, CheckHealth, Commit, Recover, Show,
           Request, LockRequest, ReadJournal, Resume, Launch, Conclude, Rediscover,
           Machine, DaemonRestarts, SupervisorDies, RequesterDies, Reboot
    <3> QED
      BY <3>1
  <2> QED
    BY <2>2, <2>3, <2>4, <2>5, <2>6 DEF Next, SupervisorStep, RequesterStep
<1>2. RollbackSticks <=> [][Sticks]_vars
  BY DEF RollbackSticks
<1> QED
  BY Invariant, <1>1, <1>2, PTL DEF Spec

-----------------------------------------------------------------------------
(* DaemonBootstrap: the desktop's commands beside the update. Each of its *)
(* steps finds what the ones before have established, and the two locks    *)
(* keep the supervisor away meanwhile.                                     *)

\* The bootstrap lock is held by the command that works, and by nobody else who
\* may publish or launch a job; no command runs while the daemon is removed.
BootLocks ==
  /\ owner = "bootstrap" <=> boot.at \notin {"off", "wait", "lock"}
  /\ owner = "bootstrap" => req.at \in {"idle", "verified"}
  /\ remover # "off" => boot.at = "off"

\* The steps of a command between setting the marker and dropping it.
Marked == {"load", "register", "restart", "health", "commit", "note", "unmark"}
Chosen == {"keep previous", "keep target", "mark", "register", "restart", "health",
           "commit", "note", "unmark"}

\* What a command is, at each of its steps.
CommandKind ==
  /\ boot.mode = "ensure" => boot.work = "recover"
  /\ boot.mode = "install" /\ boot.at # "off" => ~Pending
  /\ boot.at \in {"wait", "lock", "look", "start", "answer"} => boot.mode = "ensure"
  /\ boot.at = "choose" => boot.mode = "install"
  /\ boot.at = "ready" /\ boot.mode = "install" => boot.work = "install" /\ boot.way = "forth"

\* What a command has established.
Placed ==
  /\ boot.at \in Marked => marks.activating
  /\ boot.at \in {"look", "start", "answer", "ready"} => ~marks.activating
  /\ boot.at \in {"start", "answer", "ready"} => marks.installed
  /\ boot.at \in {"start", "answer"} => release \in Release
  /\ boot.at = "unmark" /\ boot.way = "forth" => marks.installed
  /\ boot.at \in Chosen => boot.to \in Release
  /\ boot.at \in {"restart", "health", "commit", "note", "unmark"} => unit = boot.to
  /\ boot.at = "commit" => boot.to \in healthy
  /\ boot.at \in {"note", "unmark"} => release = boot.to

\* The journal says when a supervisor may have touched the service.
OnJournal ==
  /\ sup.at \in {"register", "restart", "mark", "health", "commit"} => job.phase \in Interrupted
  /\ sup.at \in {"stage", "install"} => job.phase \notin Interrupted
  /\ sup.at = "finish" /\ sup.verdict = "failed" => job.phase \notin Interrupted

\* From the removal of the supervisor on nothing starts it again but who calls for
\* it, and what the purge has found gone stays gone.
Undisturbed ==
  /\ remover \in {"updater", "stop", "unregister", "check", "data"} => phase = "started"
  /\ cleared => updater = {} /\ sup.at = "off"
  /\ cleared /\ (phase = "purged" \/ remover \in {"data", "cache", "rest", "clear"}) =>
       unit = NoRelease /\ running = NoRelease

BInv ==
  /\ Core /\ BootstrapTypeOK /\ BootLocks /\ CommandKind /\ Placed /\ OnJournal
  /\ Undisturbed /\ NothingUnrecorded /\ ReadyIsInstalled /\ RemovedIsGone

\* What a command keeps as it goes on, and that ending, it keeps nothing.
Keeps(at) ==
  /\ boot'.at = at /\ boot'.mode = boot.mode /\ boot'.work = boot.work
  /\ boot'.way = boot.way /\ boot'.to = boot.to /\ owner' = owner
Ended == boot'.at = "off" /\ boot'.mode = "ensure" /\ boot'.work = "recover"
Freed == Ended /\ owner' = "nobody"

\* After a recovery that failed the installation follows.
TurnsToInstall ==
  /\ boot.work = "recover" /\ boot.mode = "install"
  /\ boot'.at = "choose" /\ boot'.mode = "install" /\ boot'.work = "recover"
  /\ owner' = owner
TurnsBack ==
  /\ boot'.at = "register" /\ boot'.mode = boot.mode /\ boot'.work = boot.work
  /\ boot'.way = "back" /\ boot'.to \in Release /\ owner' = owner

Kinds ==
  /\ boot \in Command /\ marks \in [installed : BOOLEAN, activating : BOOLEAN]
  /\ saved \in [target : MaybeRelease, previous : MaybeRelease]
  /\ job \in Record /\ sup \in Supervisor /\ req \in Requester

\* The ways a step of a command ends, field by field.
LEMMA CommandShapes ==
  ASSUME Kinds
  PROVE  /\ \A at : Goes(at) =>
              /\ boot'.at = at /\ boot'.mode = boot.mode /\ boot'.work = boot.work
              /\ boot'.way = boot.way /\ boot'.to = boot.to
         /\ \A at : Goes_on(at) => Keeps(at)
         /\ boot' = NoCommand => Ended
         /\ Leaves => Freed
         /\ Stops => Freed \/ TurnsToInstall
         /\ Fails => Freed \/ TurnsToInstall \/ TurnsBack
<1>a. boot \in Command /\ saved \in [target : MaybeRelease, previous : MaybeRelease]
  BY DEF Kinds
<1>1. ASSUME NEW at, Goes(at)
      PROVE  /\ boot'.at = at /\ boot'.mode = boot.mode /\ boot'.work = boot.work
             /\ boot'.way = boot.way /\ boot'.to = boot.to
  BY <1>1, <1>a DEF Goes, Command
<1>2. ASSUME NEW at, Goes_on(at) PROVE Keeps(at)
  BY <1>2, <1>1 DEF Goes_on, Keeps
<1>3. boot' = NoCommand => Ended
  BY DEF NoCommand, Ended
<1>4. Leaves => Freed
  BY <1>3 DEF Leaves, Freed
<1>5. Stops => Freed \/ TurnsToInstall
  <2>1. CASE boot.work = "recover" /\ boot.mode = "install"
    BY <2>1 DEF Stops, NoCommand, TurnsToInstall
  <2> QED
    BY <2>1, <1>4 DEF Stops
<1>6. Fails => Freed \/ TurnsToInstall \/ TurnsBack
  <2> SUFFICES ASSUME Fails, ~Stops PROVE TurnsBack
    BY <1>5
  <2>1. /\ Fallback # NoRelease
        /\ boot' = [boot EXCEPT !.at = "register", !.way = "back", !.to = Fallback]
        /\ owner' = owner
    BY DEF Fails
  <2>2. Fallback \in Release
    BY <2>1, <1>a DEF Fallback, MaybeRelease, Command
  <2> QED
    BY <2>1, <2>2, <1>a DEF Command, TurnsBack
<1> QED
  BY <1>1, <1>2, <1>3, <1>4, <1>5, <1>6

\* The steps that begin a command, or keep its handoff, field by field.
Unmoved == UNCHANGED <<release, unit, running, healthy, marks, saved>> /\ Update /\ Removal
Machinery == UNCHANGED <<release, unit, running, healthy, marks>> /\ Update /\ Removal

\* What ensure does at its start: it waits for the job it launched, or goes on to lock.
LEMMA EnsureShape ==
  ASSUME Kinds, Ensure
  PROVE  /\ boot.at = "off" /\ remover = "off"
         /\ UNCHANGED <<files, unit, running, sup, req, owner, healthy, crashes, marks, saved>>
         /\ Removal
         /\ \/ boot' = boot
            \/ boot'.at \in {"wait", "lock"} /\ boot'.mode = "ensure" /\ boot'.work = "recover"
<1>1. CASE boot' = [NoCommand EXCEPT !.at = "wait", !.id = job.id]
  <2>1. boot'.at = "wait" /\ boot'.mode = "ensure" /\ boot'.work = "recover"
    BY <1>1 DEF NoCommand
  <2> QED
    BY <2>1 DEF Ensure
<1>2. CASE boot' = [NoCommand EXCEPT !.at = "lock"]
  <2>1. boot'.at = "lock" /\ boot'.mode = "ensure" /\ boot'.work = "recover"
    BY <1>2 DEF NoCommand
  <2> QED
    BY <2>1 DEF Ensure
<1> QED
  BY <1>1, <1>2 DEF Ensure

\* What taking the locks does: a command ends, or goes on as their owner.
LEMMA LockShape ==
  ASSUME Kinds, Lock
  PROVE  /\ boot.at = "lock" /\ Unmoved
         /\ \/ Ended /\ owner' = owner
            \/ /\ ~RequestLocked /\ owner = "nobody" /\ owner' = "bootstrap"
               /\ boot'.at = (IF marks.activating THEN "load" ELSE "look")
               /\ boot'.mode = boot.mode /\ boot'.work = boot.work
<1>1. CASE RequestLocked \/ owner # "nobody"
  BY <1>1, CommandShapes DEF Lock, Unmoved
<1>2. CASE ~(RequestLocked \/ owner # "nobody")
  BY <1>2, CommandShapes DEF Lock, Unmoved
<1> QED
  BY <1>1, <1>2

\* What recover does first: it registers the target of the handoff, or gives up.
LEMMA LoadShape ==
  ASSUME Kinds, Load
  PROVE  /\ boot.at = "load" /\ Unmoved
         /\ \/ /\ boot'.at = "register" /\ boot'.to \in Release
               /\ boot'.mode = boot.mode /\ boot'.work = boot.work /\ owner' = owner
            \/ Freed \/ TurnsToInstall
<1>1. CASE saved.target # NoRelease /\ boot' = [boot EXCEPT !.at = "register", !.to = saved.target]
           /\ owner' = owner
  <2>1. saved.target \in Release
    BY <1>1 DEF Kinds, MaybeRelease
  <2>2. boot'.at = "register" /\ boot'.to = saved.target
        /\ boot'.mode = boot.mode /\ boot'.work = boot.work
    BY <1>1 DEF Kinds, Command
  <2> QED
    BY <1>1, <2>1, <2>2 DEF Load, Unmoved
<1>2. CASE Stops
  BY <1>2, CommandShapes DEF Load, Unmoved
<1> QED
  BY <1>1, <1>2 DEF Load

\* What install_with_bundle does at its start.
LEMMA InstallShape ==
  ASSUME Kinds, InstallBundle
  PROVE  /\ boot.at = "off" /\ remover = "off" /\ Unmoved
         /\ ~RequestLocked /\ ~Pending /\ owner = "nobody" /\ owner' = "bootstrap"
         /\ boot'.at = (IF marks.activating THEN "load" ELSE "choose")
         /\ boot'.mode = "install" /\ boot'.work = "recover"
<1>1. boot'.at = (IF marks.activating THEN "load" ELSE "choose") /\ boot'.mode = "install"
      /\ boot'.work = "recover"
  BY DEF InstallBundle, NoCommand
<1> QED
  BY <1>1 DEF InstallBundle, Unmoved

\* Which release an installation goes for.
LEMMA ChooseShape ==
  ASSUME Kinds, release \in MaybeRelease, Choose
  PROVE  /\ boot.at = "choose" /\ Unmoved
         /\ \/ /\ boot'.at = "keep previous" /\ boot'.to \in Release
               /\ boot'.mode = boot.mode /\ boot'.work = "install" /\ owner' = owner
            \/ Freed
<1>1. CASE Leaves
  BY <1>1, CommandShapes DEF Choose, Unmoved
<1>2. CASE ~Leaves
  <2>1. PICK bundle \in Release, back \in {release, NoRelease} :
          boot' = [boot EXCEPT !.at = "keep previous", !.work = "install",
                     !.to = IF back # NoRelease /\ back > bundle THEN back ELSE bundle,
                     !.back = back]
    BY <1>2 DEF Choose
  <2> DEFINE to == IF back # NoRelease /\ back > bundle THEN back ELSE bundle
  <2>2. to \in Release
    BY DEF MaybeRelease
  <2>3. boot' = [boot EXCEPT !.at = "keep previous", !.work = "install", !.to = to, !.back = back]
    BY <2>1
  <2> HIDE DEF to
  <2>4. /\ boot'.at = "keep previous" /\ boot'.to = to
        /\ boot'.mode = boot.mode /\ boot'.work = "install"
    BY <2>3 DEF Kinds, Command
  <2> QED
    BY <1>2, <2>2, <2>4 DEF Choose, Unmoved
<1> QED
  BY <1>1, <1>2, ZenonT(60)

\* What writing the handoff does, bootstrap-previous and then bootstrap-target.
LEMMA KeepShape ==
  ASSUME Kinds, KeepPrevious \/ KeepTarget
  PROVE  /\ Machinery
         /\ \/ boot.at = "keep previous" /\ Keeps("keep target")
            \/ boot.at = "keep target" /\ Keeps("mark")
            \/ boot.at \in {"keep previous", "keep target"} /\ Freed
<1>1. CASE KeepPrevious
  <2>1. boot.at = "keep previous" /\ (Goes_on("keep target") \/ Leaves) /\ Machinery
    BY <1>1 DEF KeepPrevious, Machinery
  <2> QED
    BY <2>1, CommandShapes
<1>2. CASE KeepTarget
  <2>1. boot.at = "keep target" /\ (Goes_on("mark") \/ Leaves) /\ Machinery
    BY <1>2 DEF KeepTarget, Machinery
  <2> QED
    BY <2>1, CommandShapes
<1> QED
  BY <1>1, <1>2

\* The steps of a recovery and of an activation, field by field.
LEMMA StepShapes ==
  ASSUME Kinds
  PROVE  /\ Wait => /\ boot.at = "wait" /\ UNCHANGED <<vars, marks, saved>> /\ Removal
                    /\ Keeps("lock") \/ Ended
         /\ LookAround => /\ boot.at = "look" /\ Unmoved
                          /\ (marks.installed /\ release # NoRelease /\ (Keeps("start") \/ Keeps("answer"))) \/ Freed
         /\ StartService => /\ boot.at = "start" /\ Update /\ Removal
                            /\ UNCHANGED <<release, unit, healthy, marks, saved>>
                            /\ Keeps("answer") \/ Freed
         /\ Answer => /\ boot.at = "answer" /\ Update /\ Removal
                      /\ UNCHANGED <<release, unit, running, marks, saved>>
                      /\ healthy' \in {healthy, healthy \cup {release}} /\ (Keeps("ready") \/ Freed)
         /\ WriteUnit => /\ boot.at = "register" /\ Update /\ Removal
                         /\ UNCHANGED <<release, running, healthy, marks, saved>>
                         /\ \/ unit' = boot.to /\ Keeps("restart")
                            \/ unit' = NoRelease /\ Keeps("register")
                            \/ Freed \/ TurnsToInstall \/ TurnsBack
         /\ StartUnit => /\ boot.at = "restart" /\ Update /\ Removal
                         /\ UNCHANGED <<release, unit, healthy, marks, saved>>
                         /\ Keeps("health") \/ Freed \/ TurnsToInstall \/ TurnsBack
         /\ AwaitHealth => /\ boot.at = "health" /\ Update /\ Removal
                           /\ UNCHANGED <<release, unit, running, marks, saved>>
                           /\ healthy' \in {healthy, healthy \cup {boot.to}}
                           /\ \/ healthy' = healthy \cup {boot.to} /\ Keeps("commit")
                              \/ Freed \/ TurnsToInstall \/ TurnsBack
         /\ SaveRelease => /\ boot.at = "commit" /\ Update /\ Removal
                           /\ UNCHANGED <<unit, running, healthy, marks, saved>>
                           /\ release' \in {release, boot.to}
                           /\ \/ /\ release' = boot.to
                                 /\ \/ boot.way = "forth" /\ Keeps("note")
                                    \/ boot.way # "forth" /\ Keeps("unmark")
                              \/ Freed \/ TurnsToInstall
         /\ SetMark => /\ boot.at = "mark" /\ Update /\ Removal
                       /\ UNCHANGED <<release, unit, running, healthy, saved>>
                       /\ marks.activating => marks'.activating
                       /\ (marks'.activating /\ Keeps("register")) \/ Freed
         /\ NoteInstalled => /\ boot.at = "note" /\ Update /\ Removal
                             /\ UNCHANGED <<release, unit, running, healthy, saved>>
                             /\ marks'.activating = marks.activating
                             /\ \/ marks'.installed /\ Keeps("unmark")
                                \/ Freed \/ TurnsToInstall
         /\ DropMark => /\ boot.at = "unmark" /\ Update /\ Removal
                        /\ UNCHANGED <<release, unit, running, healthy, saved>>
                        /\ marks'.installed = marks.installed
                        /\ \/ /\ ~marks'.activating
                              /\ \/ boot.mode = "ensure" /\ Keeps("look")
                                 \/ /\ boot.work = "install" /\ boot.way = "forth"
                                    /\ Keeps("ready")
                                 \/ Freed \/ TurnsToInstall
                           \/ marks' = marks /\ (Freed \/ TurnsToInstall)
<1>1. Wait => /\ boot.at = "wait" /\ UNCHANGED <<vars, marks, saved>> /\ Removal
              /\ Keeps("lock") \/ Ended
  <2> SUFFICES ASSUME Wait PROVE UNCHANGED owner /\ (Goes("lock") \/ boot' = NoCommand)
    BY CommandShapes DEF Keeps, Wait
  <2> QED
    BY DEF Wait, vars
<1>2. LookAround => /\ boot.at = "look" /\ Unmoved
                    /\ (marks.installed /\ release # NoRelease /\ (Keeps("start") \/ Keeps("answer"))) \/ Freed
  <2> SUFFICES ASSUME LookAround
               PROVE  (marks.installed /\ release # NoRelease /\ (Goes_on("start") \/ Goes_on("answer"))) \/ Leaves
    BY CommandShapes DEF LookAround, Unmoved
  <2>1. CASE running = NoRelease
    BY <2>1 DEF LookAround
  <2>2. CASE running # NoRelease
    BY <2>2 DEF LookAround
  <2> QED
    BY <2>1, <2>2
<1>3. StartService => /\ boot.at = "start" /\ Update /\ Removal
                      /\ UNCHANGED <<release, unit, healthy, marks, saved>>
                      /\ Keeps("answer") \/ Freed
  BY CommandShapes DEF StartService
<1>4. Answer => /\ boot.at = "answer" /\ Update /\ Removal
                /\ UNCHANGED <<release, unit, running, marks, saved>>
                /\ healthy' \in {healthy, healthy \cup {release}} /\ (Keeps("ready") \/ Freed)
  BY CommandShapes DEF Answer
<1>5. WriteUnit => /\ boot.at = "register" /\ Update /\ Removal
                   /\ UNCHANGED <<release, running, healthy, marks, saved>>
                   /\ \/ unit' = boot.to /\ Keeps("restart")
                      \/ unit' = NoRelease /\ Keeps("register")
                      \/ Freed \/ TurnsToInstall \/ TurnsBack
  BY CommandShapes DEF WriteUnit, Keeps
<1>6. StartUnit => /\ boot.at = "restart" /\ Update /\ Removal
                   /\ UNCHANGED <<release, unit, healthy, marks, saved>>
                   /\ Keeps("health") \/ Freed \/ TurnsToInstall \/ TurnsBack
  BY CommandShapes DEF StartUnit
<1>7. AwaitHealth => /\ boot.at = "health" /\ Update /\ Removal
                     /\ UNCHANGED <<release, unit, running, marks, saved>>
                     /\ healthy' \in {healthy, healthy \cup {boot.to}}
                     /\ \/ healthy' = healthy \cup {boot.to} /\ Keeps("commit")
                        \/ Freed \/ TurnsToInstall \/ TurnsBack
  BY CommandShapes DEF AwaitHealth
<1>8. SaveRelease => /\ boot.at = "commit" /\ Update /\ Removal
                     /\ UNCHANGED <<unit, running, healthy, marks, saved>>
                     /\ release' \in {release, boot.to}
                     /\ \/ /\ release' = boot.to
                           /\ \/ boot.way = "forth" /\ Keeps("note")
                              \/ boot.way # "forth" /\ Keeps("unmark")
                        \/ Freed \/ TurnsToInstall
  <2>1. CASE boot.way = "forth"
    BY <2>1, CommandShapes DEF SaveRelease
  <2>2. CASE boot.way # "forth"
    BY <2>2, CommandShapes DEF SaveRelease
  <2> QED
    BY <2>1, <2>2
<1>9. SetMark => /\ boot.at = "mark" /\ Update /\ Removal
                 /\ UNCHANGED <<release, unit, running, healthy, saved>>
                 /\ marks.activating => marks'.activating
                 /\ (marks'.activating /\ Keeps("register")) \/ Freed
  <2> SUFFICES ASSUME SetMark
               PROVE  /\ marks.activating => marks'.activating
                      /\ (marks'.activating /\ Goes_on("register")) \/ Leaves
    BY CommandShapes DEF SetMark
  <2> QED
    BY DEF SetMark, Kinds
<1>10. NoteInstalled => /\ boot.at = "note" /\ Update /\ Removal
                        /\ UNCHANGED <<release, unit, running, healthy, saved>>
                        /\ marks'.activating = marks.activating
                        /\ \/ marks'.installed /\ Keeps("unmark")
                           \/ Freed \/ TurnsToInstall
  <2> SUFFICES ASSUME NoteInstalled
               PROVE  /\ marks'.activating = marks.activating
                      /\ (marks'.installed /\ Goes_on("unmark")) \/ Stops
    BY CommandShapes DEF NoteInstalled
  <2> QED
    BY DEF NoteInstalled, Kinds
<1>11. DropMark => /\ boot.at = "unmark" /\ Update /\ Removal
                   /\ UNCHANGED <<release, unit, running, healthy, saved>>
                   /\ marks'.installed = marks.installed
                   /\ \/ /\ ~marks'.activating
                         /\ \/ boot.mode = "ensure" /\ Keeps("look")
                            \/ /\ boot.work = "install" /\ boot.way = "forth"
                               /\ Keeps("ready")
                            \/ Freed \/ TurnsToInstall
                      \/ marks' = marks /\ (Freed \/ TurnsToInstall)
  <2> SUFFICES ASSUME DropMark
               PROVE  /\ marks'.installed = marks.installed
                      /\ \/ /\ ~marks'.activating
                            /\ \/ boot.mode = "ensure" /\ Goes_on("look")
                               \/ boot.work = "install" /\ boot.way = "forth" /\ Goes_on("ready")
                               \/ Leaves \/ Stops
                         \/ marks' = marks /\ Stops
    BY CommandShapes DEF DropMark
  <2> QED
    BY DEF DropMark, Kinds
<1> QED
  BY <1>1, <1>2, <1>3, <1>4, <1>5, <1>6, <1>7, <1>8, <1>9, <1>10, <1>11

\* A step that leaves the journal, the supervisor and the requester alone keeps
\* what DaemonUpdate relies on.
LEMMA CoreFrame ==
  ASSUME Core, TypeOK', CommittedWasHealthy', UNCHANGED <<job, shown, sup, req>>,
         sup.at = "off" \/ (UNCHANGED <<release, healthy>> /\ unit' \in {unit, NoRelease}),
         owner' = "supervisor" <=> owner = "supervisor",
         owner' = "request" <=> owner = "request"
  PROVE  Core'
<1>1. LocksHeld' /\ OneJobAtATime'
  BY DEF Core, LocksHeld, OneJobAtATime, Pending
<1>2. Activated' /\ Decided'
  BY DEF Core, Activated, Decided, Activating
<1>3. ToShow' /\ ShownIsTrue' /\ OnlyBack'
  BY DEF Core, ToShow, ShownIsTrue, OnlyBack, Activating
<1> QED
  BY <1>1, <1>2, <1>3 DEF Core

\* A command takes the lock where nobody holds it, and runs where nothing is removed.
LEMMA CommandLocks == BInv /\ CommandStep /\ cleared' = FALSE => (BootLocks /\ Undisturbed /\ RemovedIsGone)'
<1> SUFFICES ASSUME BInv, CommandStep, cleared' = FALSE PROVE (BootLocks /\ Undisturbed /\ RemovedIsGone)'
  OBVIOUS
<1>k. Kinds /\ release \in MaybeRelease
  BY DEF BInv, BootstrapTypeOK, TypeOK, Kinds, MaybeRelease
<1>a. BootLocks /\ Undisturbed /\ RemovedIsGone
  BY DEF BInv
<1> USE DEF vars, Update, Removal, files, services, BootLocks, Undisturbed, RemovedIsGone, Keeps, Freed, Ended, TurnsToInstall, TurnsBack
<1>1. CASE Ensure
  BY <1>1, <1>k, <1>a, EnsureShape
<1>2. CASE Wait
  BY <1>2, <1>k, <1>a, StepShapes
<1>3. CASE Lock
  BY <1>3, <1>k, <1>a, LockShape DEF RequestLocked, Unmoved
<1>4. CASE Load
  BY <1>4, <1>k, <1>a, LoadShape DEF Unmoved
<1>5. CASE LookAround
  BY <1>5, <1>k, <1>a, StepShapes DEF Unmoved, MaybeRelease
<1>6. CASE StartService
  BY <1>6, <1>k, <1>a, StepShapes
<1>7. CASE Answer
  BY <1>7, <1>k, <1>a, StepShapes
<1>8. CASE InstallBundle
  BY <1>8, <1>k, <1>a, InstallShape DEF RequestLocked, Unmoved
<1>9. CASE Choose
  BY <1>9, <1>k, <1>a, ChooseShape DEF Unmoved
<1>10. CASE KeepPrevious \/ KeepTarget
  BY <1>10, <1>k, <1>a, KeepShape DEF Machinery
<1>11. CASE SetMark
  BY <1>11, <1>k, <1>a, StepShapes
<1>12. CASE WriteUnit
  BY <1>12, <1>k, <1>a, StepShapes
<1>13. CASE StartUnit
  BY <1>13, <1>k, <1>a, StepShapes
<1>14. CASE AwaitHealth
  BY <1>14, <1>k, <1>a, StepShapes
<1>15. CASE SaveRelease
  BY <1>15, <1>k, <1>a, StepShapes
<1>16. CASE NoteInstalled
  BY <1>16, <1>k, <1>a, StepShapes
<1>17. CASE DropMark
  BY <1>17, <1>k, <1>a, StepShapes
<1>18. CASE Return
  BY <1>18, <1>k, <1>a, CommandShapes DEF Return
<1>19. CASE CommandDies
  BY <1>19, <1>k, <1>a, CommandShapes DEF CommandDies
<1> QED
  BY <1>1, <1>2, <1>3, <1>4, <1>5, <1>6, <1>7, <1>8, <1>9, <1>10, <1>11, <1>12, <1>13, <1>14, <1>15, <1>16, <1>17, <1>18, <1>19 DEF CommandStep

\* A command stays what it is until it is done.
LEMMA CommandKinds == BInv /\ CommandStep /\ lost' = Loses => CommandKind'
<1> SUFFICES ASSUME BInv, CommandStep, lost' = Loses PROVE CommandKind'
  OBVIOUS
<1>k. Kinds /\ release \in MaybeRelease
  BY DEF BInv, BootstrapTypeOK, TypeOK, Kinds, MaybeRelease
<1>a. BootLocks /\ CommandKind
  BY DEF BInv
<1> USE DEF vars, Update, Removal, files, services, BootLocks, CommandKind, Pending, Keeps, Freed, Ended, TurnsToInstall, TurnsBack
<1>1. CASE Ensure
  BY <1>1, <1>k, <1>a, EnsureShape
<1>2. CASE Wait
  BY <1>2, <1>k, <1>a, StepShapes
<1>3. CASE Lock
  BY <1>3, <1>k, <1>a, LockShape DEF RequestLocked, Unmoved
<1>4. CASE Load
  BY <1>4, <1>k, <1>a, LoadShape DEF Unmoved
<1>5. CASE LookAround
  BY <1>5, <1>k, <1>a, StepShapes DEF Unmoved, MaybeRelease
<1>6. CASE StartService
  BY <1>6, <1>k, <1>a, StepShapes
<1>7. CASE Answer
  BY <1>7, <1>k, <1>a, StepShapes
<1>8. CASE InstallBundle
  BY <1>8, <1>k, <1>a, InstallShape DEF RequestLocked, Unmoved
<1>9. CASE Choose
  BY <1>9, <1>k, <1>a, ChooseShape DEF Unmoved
<1>10. CASE KeepPrevious \/ KeepTarget
  BY <1>10, <1>k, <1>a, KeepShape DEF Machinery
<1>11. CASE SetMark
  BY <1>11, <1>k, <1>a, StepShapes
<1>12. CASE WriteUnit
  BY <1>12, <1>k, <1>a, StepShapes
<1>13. CASE StartUnit
  BY <1>13, <1>k, <1>a, StepShapes
<1>14. CASE AwaitHealth
  BY <1>14, <1>k, <1>a, StepShapes
<1>15. CASE SaveRelease
  BY <1>15, <1>k, <1>a, StepShapes
<1>16. CASE NoteInstalled
  BY <1>16, <1>k, <1>a, StepShapes
<1>17. CASE DropMark
  BY <1>17, <1>k, <1>a, StepShapes
<1>18. CASE Return
  BY <1>18, <1>k, <1>a, CommandShapes DEF Return
<1>19. CASE CommandDies
  BY <1>19, <1>k, <1>a, CommandShapes DEF CommandDies
<1> QED
  BY <1>1, <1>2, <1>3, <1>4, <1>5, <1>6, <1>7, <1>8, <1>9, <1>10, <1>11, <1>12, <1>13, <1>14, <1>15, <1>16, <1>17, <1>18, <1>19 DEF CommandStep

\* Each step of a command finds what the one before has established.
LEMMA CommandPlaces == BInv /\ CommandStep /\ lost' = Loses => Placed'
<1> SUFFICES ASSUME BInv, CommandStep, lost' = Loses PROVE Placed'
  OBVIOUS
<1>k. Kinds /\ release \in MaybeRelease
  BY DEF BInv, BootstrapTypeOK, TypeOK, Kinds, MaybeRelease
<1>a. BootLocks /\ CommandKind /\ Placed
  BY DEF BInv
<1> USE DEF vars, Update, Removal, files, services, BootLocks, CommandKind, Placed, Marked, Chosen, Keeps, Freed, Ended, TurnsToInstall, TurnsBack
<1>1. CASE Ensure
  BY <1>1, <1>k, <1>a, EnsureShape
<1>2. CASE Wait
  BY <1>2, <1>k, <1>a, StepShapes
<1>3. CASE Lock
  BY <1>3, <1>k, <1>a, LockShape DEF RequestLocked, Unmoved
<1>4. CASE Load
  BY <1>4, <1>k, <1>a, LoadShape DEF Unmoved
<1>5. CASE LookAround
  BY <1>5, <1>k, <1>a, StepShapes DEF Unmoved, MaybeRelease
<1>6. CASE StartService
  BY <1>6, <1>k, <1>a, StepShapes
<1>7. CASE Answer
  BY <1>7, <1>k, <1>a, StepShapes
<1>8. CASE InstallBundle
  BY <1>8, <1>k, <1>a, InstallShape DEF RequestLocked, Unmoved
<1>9. CASE Choose
  BY <1>9, <1>k, <1>a, ChooseShape DEF Unmoved
<1>10. CASE KeepPrevious \/ KeepTarget
  BY <1>10, <1>k, <1>a, KeepShape DEF Machinery
<1>11. CASE SetMark
  BY <1>11, <1>k, <1>a, StepShapes
<1>12. CASE WriteUnit
  BY <1>12, <1>k, <1>a, StepShapes
<1>13. CASE StartUnit
  BY <1>13, <1>k, <1>a, StepShapes
<1>14. CASE AwaitHealth
  BY <1>14, <1>k, <1>a, StepShapes
<1>15. CASE SaveRelease
  BY <1>15, <1>k, <1>a, StepShapes
<1>16. CASE NoteInstalled
  BY <1>16, <1>k, <1>a, StepShapes
<1>17. CASE DropMark
  BY <1>17, <1>k, <1>a, StepShapes
<1>18. CASE Return
  BY <1>18, <1>k, <1>a, CommandShapes DEF Return
<1>19. CASE CommandDies
  BY <1>19, <1>k, <1>a, CommandShapes DEF CommandDies
<1> QED
  BY <1>1, <1>2, <1>3, <1>4, <1>5, <1>6, <1>7, <1>8, <1>9, <1>10, <1>11, <1>12, <1>13, <1>14, <1>15, <1>16, <1>17, <1>18, <1>19 DEF CommandStep

\* What a command has registered is committed, or marked.
LEMMA CommandRecords == BInv /\ CommandStep /\ lost' = Loses => (OnJournal /\ NothingUnrecorded /\ ReadyIsInstalled)'
<1> SUFFICES ASSUME BInv, CommandStep, lost' = Loses PROVE (OnJournal /\ NothingUnrecorded /\ ReadyIsInstalled)'
  OBVIOUS
<1>k. Kinds /\ release \in MaybeRelease
  BY DEF BInv, BootstrapTypeOK, TypeOK, Kinds, MaybeRelease
<1>a. BootLocks /\ CommandKind /\ Placed /\ OnJournal /\ NothingUnrecorded /\ ReadyIsInstalled
  BY DEF BInv
<1> USE DEF vars, Update, Removal, files, services, BootLocks, CommandKind, Placed, Marked, Loses, Pending, OnJournal, NothingUnrecorded, ReadyIsInstalled, Keeps, Freed, Ended, TurnsToInstall, TurnsBack
<1>1. CASE Ensure
  BY <1>1, <1>k, <1>a, EnsureShape
<1>2. CASE Wait
  BY <1>2, <1>k, <1>a, StepShapes
<1>3. CASE Lock
  BY <1>3, <1>k, <1>a, LockShape DEF RequestLocked, Unmoved
<1>4. CASE Load
  BY <1>4, <1>k, <1>a, LoadShape DEF Unmoved
<1>5. CASE LookAround
  BY <1>5, <1>k, <1>a, StepShapes DEF Unmoved, MaybeRelease
<1>6. CASE StartService
  BY <1>6, <1>k, <1>a, StepShapes
<1>7. CASE Answer
  BY <1>7, <1>k, <1>a, StepShapes
<1>8. CASE InstallBundle
  BY <1>8, <1>k, <1>a, InstallShape DEF RequestLocked, Unmoved
<1>9. CASE Choose
  BY <1>9, <1>k, <1>a, ChooseShape DEF Unmoved
<1>10. CASE KeepPrevious \/ KeepTarget
  BY <1>10, <1>k, <1>a, KeepShape DEF Machinery
<1>11. CASE SetMark
  BY <1>11, <1>k, <1>a, StepShapes
<1>12. CASE WriteUnit
  BY <1>12, <1>k, <1>a, StepShapes
<1>13. CASE StartUnit
  BY <1>13, <1>k, <1>a, StepShapes
<1>14. CASE AwaitHealth
  BY <1>14, <1>k, <1>a, StepShapes
<1>15. CASE SaveRelease
  BY <1>15, <1>k, <1>a, StepShapes
<1>16. CASE NoteInstalled
  BY <1>16, <1>k, <1>a, StepShapes
<1>17. CASE DropMark
  BY <1>17, <1>k, <1>a, StepShapes
<1>18. CASE Return
  BY <1>18, <1>k, <1>a, CommandShapes DEF Return
<1>19. CASE CommandDies
  BY <1>19, <1>k, <1>a, CommandShapes DEF CommandDies
<1> QED
  BY <1>1, <1>2, <1>3, <1>4, <1>5, <1>6, <1>7, <1>8, <1>9, <1>10, <1>11, <1>12, <1>13, <1>14, <1>15, <1>16, <1>17, <1>18, <1>19 DEF CommandStep

\* A command is a command at every step.
LEMMA CommandIsOne ==
  ASSUME Kinds, release \in MaybeRelease, CommandStep
  PROVE  boot' \in Command
<1>a. boot \in Command /\ saved \in [target : MaybeRelease, previous : MaybeRelease]
      /\ job \in Record
  BY DEF Kinds
<1>b. NoCommand \in Command
  BY DEF NoCommand, Command, BootStep, MaybeRelease
<1>1. ASSUME NEW at \in BootStep, Goes(at) PROVE boot' \in Command
  BY <1>1, <1>a DEF Goes, Command
<1>2. ASSUME NEW at \in BootStep, Goes_on(at) PROVE boot' \in Command
  BY <1>1, <1>2 DEF Goes_on
<1>3. Leaves => boot' \in Command
  BY <1>b DEF Leaves
<1>4. Stops => boot' \in Command
  <2>1. [NoCommand EXCEPT !.at = "choose", !.mode = "install"] \in Command
    BY <1>b DEF Command, BootStep
  <2> QED
    BY <2>1, <1>3 DEF Stops
<1>5. Fails => boot' \in Command
  <2>1. Fallback \in MaybeRelease
    BY <1>a DEF Fallback, Command
  <2>2. [boot EXCEPT !.at = "register", !.way = "back", !.to = Fallback] \in Command
    BY <1>a, <2>1 DEF Command, BootStep
  <2> QED
    BY <2>2, <1>4 DEF Fails
<1>6. CASE Ensure
  <2>1. /\ [NoCommand EXCEPT !.at = "wait", !.id = job.id] \in Command
        /\ [NoCommand EXCEPT !.at = "lock"] \in Command
    BY <1>a, <1>b DEF Command, BootStep, Record
  <2> QED
    BY <1>6, <2>1, <1>a DEF Ensure
<1>7. CASE Wait \/ LookAround \/ StartService \/ Answer
  BY <1>7, <1>1, <1>2, <1>3, <1>b DEF Wait, LookAround, StartService, Answer, BootStep
<1>8. CASE Lock
  BY <1>8, <1>1, <1>b DEF Lock, BootStep
<1>9. CASE Load
  <2>1. [boot EXCEPT !.at = "register", !.to = saved.target] \in Command
    BY <1>a DEF Command, BootStep
  <2> QED
    BY <1>9, <2>1, <1>4 DEF Load
<1>10. CASE InstallBundle
  <2>1. \A at \in BootStep : [NoCommand EXCEPT !.at = at, !.mode = "install"] \in Command
    BY <1>b DEF Command
  <2> QED
    BY <1>10, <2>1 DEF InstallBundle, BootStep
<1>11. CASE Choose
  <2>1. ASSUME NEW to \in MaybeRelease, NEW back \in MaybeRelease
        PROVE  [boot EXCEPT !.at = "keep previous", !.work = "install",
                            !.to = to, !.back = back] \in Command
    BY <1>a DEF Command, BootStep
  <2>2. CASE Leaves
    BY <2>2, <1>3
  <2>3. ASSUME NEW bundle \in Release, NEW back \in {release, NoRelease}, NEW to \in {back, bundle},
               boot' = [boot EXCEPT !.at = "keep previous", !.work = "install",
                                    !.to = to, !.back = back]
        PROVE  boot' \in Command
    BY <2>3, <2>1 DEF MaybeRelease
  <2> QED
    BY <1>11, <2>2, <2>3 DEF Choose
<1>12. CASE KeepPrevious \/ KeepTarget \/ SetMark
  <2>1. Goes_on("keep target") \/ Goes_on("mark") \/ Goes_on("register") \/ Leaves
    BY <1>12 DEF KeepPrevious, KeepTarget, SetMark
  <2> QED
    BY <2>1, <1>2, <1>3 DEF BootStep
<1>13. CASE WriteUnit \/ StartUnit \/ AwaitHealth \/ SaveRelease
  BY <1>13, <1>a, <1>2, <1>4, <1>5 DEF WriteUnit, StartUnit, AwaitHealth, SaveRelease, BootStep
<1>14. CASE NoteInstalled \/ DropMark
  <2>1. Goes_on("unmark") \/ Goes_on("look") \/ Goes_on("ready") \/ Stops \/ Leaves
    BY <1>14 DEF NoteInstalled, DropMark
  <2> QED
    BY <2>1, <1>2, <1>3, <1>4 DEF BootStep
<1>15. CASE Return \/ CommandDies
  BY <1>15, <1>3, <1>b DEF Return, CommandDies
<1> QED
  BY <1>6, <1>7, <1>8, <1>9, <1>10, <1>11, <1>12, <1>13, <1>14, <1>15 DEF CommandStep

\* Files, services and locks keep their shape under a command.
LEMMA CommandTyped == BInv /\ CommandStep /\ lost' = Loses /\ cleared' = FALSE => BootstrapTypeOK'
<1> SUFFICES ASSUME BInv, CommandStep, lost' = Loses, cleared' = FALSE PROVE BootstrapTypeOK'
  OBVIOUS
<1>k. Kinds /\ release \in MaybeRelease
  BY DEF BInv, BootstrapTypeOK, TypeOK, Kinds, MaybeRelease
<1>a. Placed /\ BootstrapTypeOK
  BY DEF BInv
<1>1. boot' \in Command
  BY <1>k, CommandIsOne
<1>2. lost' \in BOOLEAN
  BY ZenonT(30) DEF Loses
<1>3. /\ job' = job /\ sup' = sup /\ req' = req /\ shown' = shown /\ crashes' = crashes
      /\ phase' = phase /\ remover' = remover
  BY DEF CommandStep, Update, Removal, vars, files, services,
         Ensure, Wait, Lock, Load, LookAround, StartService, Answer, InstallBundle, Choose,
         KeepPrevious, KeepTarget, SetMark, WriteUnit, StartUnit, AwaitHealth, SaveRelease,
         NoteInstalled, DropMark, Return, CommandDies
<1>4. updater' \subseteq {"enabled", "due"}
  <2>1. CASE Ensure
    BY <2>1, <1>a, SMTT(30) DEF Ensure, Started, MaybeEnabled, BootstrapTypeOK, TypeOK
  <2>2. CASE ~Ensure
    BY <2>2, <1>a DEF BootstrapTypeOK, TypeOK, CommandStep, Update, vars, services,
         Wait, Lock, Load, LookAround, StartService, Answer, InstallBundle, Choose,
         KeepPrevious, KeepTarget, SetMark, WriteUnit, StartUnit, AwaitHealth, SaveRelease,
         NoteInstalled, DropMark, Return, CommandDies
  <2> QED
    BY <2>1, <2>2
<1>5. /\ release' \in {release, boot.to} /\ unit' \in {unit, boot.to, NoRelease}
      /\ running' \in {running, NoRelease, unit}
  BY DEF CommandStep, Update, vars, files, services,
         Ensure, Wait, Lock, Load, LookAround, StartService, Answer, InstallBundle, Choose,
         KeepPrevious, KeepTarget, SetMark, WriteUnit, StartUnit, AwaitHealth, SaveRelease,
         NoteInstalled, DropMark, Return, CommandDies
<1>6. boot.to \in MaybeRelease
  BY <1>k DEF Kinds, Command
<1>7. healthy' \subseteq Release
  <2>0. healthy \subseteq Release
    BY <1>a DEF BootstrapTypeOK, TypeOK
  <2>1. CASE Answer
    BY <2>0, <2>1, <1>a DEF Answer, Placed
  <2>2. CASE AwaitHealth
    BY <2>0, <2>2, <1>a, SMTT(30) DEF AwaitHealth, Placed, Chosen
  <2>3. CASE ~Answer /\ ~AwaitHealth
    BY <2>0, <2>3 DEF CommandStep, vars, Ensure, Wait, Lock, Load, LookAround,
         StartService, InstallBundle, Choose, KeepPrevious, KeepTarget, SetMark, WriteUnit,
         StartUnit, SaveRelease, NoteInstalled, DropMark, Return, CommandDies
  <2> QED
    BY <2>1, <2>2, <2>3
<1>8. owner' \in {owner, "nobody", "bootstrap"}
  <2>1. CASE Ensure \/ Wait \/ Lock \/ InstallBundle \/ CommandDies
    BY <2>1, SMTT(30) DEF vars, Ensure, Wait, Lock, InstallBundle, CommandDies
  <2>2. CASE ~(Ensure \/ Wait \/ Lock \/ InstallBundle \/ CommandDies)
    BY <2>2 DEF CommandStep, Load, LookAround, StartService, Answer, Choose, KeepPrevious,
         KeepTarget, SetMark, WriteUnit, StartUnit, AwaitHealth, SaveRelease, NoteInstalled,
         DropMark, Return, Goes_on, Stops, Fails, Leaves
  <2> QED
    BY <2>1, <2>2
<1>9. marks' \in [installed : BOOLEAN, activating : BOOLEAN]
  <2>1. CASE SetMark \/ NoteInstalled \/ DropMark
    BY <2>1, <1>k DEF SetMark, NoteInstalled, DropMark, Kinds
  <2>2. CASE ~(SetMark \/ NoteInstalled \/ DropMark)
    BY <2>2, <1>k DEF Kinds, CommandStep, Ensure, Wait, Lock, Load, LookAround, StartService,
         Answer, InstallBundle, Choose, KeepPrevious, KeepTarget, WriteUnit, StartUnit,
         AwaitHealth, SaveRelease, Return, CommandDies
  <2> QED
    BY <2>1, <2>2
<1>10. saved' \in [target : MaybeRelease, previous : MaybeRelease]
  <2>1. CASE KeepPrevious
    <3>1. ASSUME NEW p \in MaybeRelease
          PROVE  [saved EXCEPT !.previous = p] \in [target : MaybeRelease, previous : MaybeRelease]
      BY <1>k DEF Kinds
    <3>2. boot.back \in MaybeRelease /\ saved.previous \in MaybeRelease
      BY <1>k DEF Kinds, Command
    <3> QED
      BY <2>1, <3>1, <3>2, ZenonT(30) DEF KeepPrevious, MaybeRelease
  <2>2. CASE KeepTarget
    BY <2>2, <1>k, <1>6 DEF KeepTarget, Kinds
  <2>3. CASE ~KeepPrevious /\ ~KeepTarget
    BY <2>3, <1>k DEF Kinds, CommandStep, Ensure, Wait, Lock, Load, LookAround, StartService,
         Answer, InstallBundle, Choose, SetMark, WriteUnit, StartUnit, AwaitHealth,
         SaveRelease, NoteInstalled, DropMark, Return, CommandDies
  <2> QED
    BY <2>1, <2>2, <2>3
<1>11. TypeOK'
  BY <1>a, <1>3, <1>4, <1>5, <1>6, <1>7, <1>8 DEF BootstrapTypeOK, TypeOK, MaybeRelease
<1> QED
  BY <1>a, <1>1, <1>2, <1>3, <1>9, <1>10, <1>11 DEF BootstrapTypeOK

\* Under a command DaemonUpdate's invariant goes on to hold: it has the lock of
\* the supervisor where it touches the service or the release.
LEMMA CommandCore == BInv /\ CommandStep /\ lost' = Loses /\ cleared' = FALSE => Core'
<1> SUFFICES ASSUME BInv, CommandStep, lost' = Loses, cleared' = FALSE PROVE Core'
  OBVIOUS
<1>k. Kinds /\ release \in MaybeRelease
  BY DEF BInv, BootstrapTypeOK, TypeOK, Kinds, MaybeRelease
<1>a. Core /\ BootLocks /\ Placed /\ LocksHeld /\ CommittedWasHealthy
  BY DEF BInv, Core
<1>1. TypeOK'
  BY CommandTyped, SMTT(30) DEF BootstrapTypeOK
<1>2. job' = job /\ sup' = sup /\ req' = req /\ shown' = shown
  BY DEF CommandStep, Update, vars, files, services,
         Ensure, Wait, Lock, Load, LookAround, StartService, Answer, InstallBundle, Choose,
         KeepPrevious, KeepTarget, SetMark, WriteUnit, StartUnit, AwaitHealth, SaveRelease,
         NoteInstalled, DropMark, Return, CommandDies
<1>3. sup.at = "off" \/ UNCHANGED <<release, unit, healthy>>
  <2>1. CASE owner = "bootstrap"
    BY <2>1, <1>a, SMTT(30) DEF LocksHeld
  <2>2. CASE boot.at \in {"off", "wait", "lock"}
    BY <2>2 DEF CommandStep, vars, files, services, Ensure, Wait, Lock, Load, LookAround,
         StartService, Answer, InstallBundle, Choose, KeepPrevious, KeepTarget, SetMark,
         WriteUnit, StartUnit, AwaitHealth, SaveRelease, NoteInstalled, DropMark, Return,
         CommandDies
  <2> QED
    BY <2>1, <2>2, <1>a DEF BootLocks
<1>4. /\ owner' = "supervisor" <=> owner = "supervisor"
      /\ owner' = "request" <=> owner = "request"
  <2>1. CASE owner = "bootstrap"
    <3>1. owner' \in {owner, "nobody"}
      BY <2>1, <1>a, CommandShapes, <1>k
         DEF Freed, TurnsToInstall, TurnsBack, BootLocks, Goes_on, CommandStep, vars, Ensure,
         Wait, Lock, Load, LookAround, StartService, Answer, InstallBundle, Choose,
         KeepPrevious, KeepTarget, SetMark, WriteUnit, StartUnit, AwaitHealth, SaveRelease,
         NoteInstalled, DropMark, Return, CommandDies
    <3> QED
      BY <2>1, <3>1, SMTT(30)
  <2>2. CASE owner # "bootstrap"
    <3>1. boot.at \in {"off", "wait", "lock"}
      BY <2>2, <1>a, SMTT(30) DEF BootLocks
    <3>2. owner' = owner \/ (owner = "nobody" /\ owner' = "bootstrap")
      BY <2>2, <3>1 DEF CommandStep, vars, Ensure, Wait, Lock, Load, LookAround, StartService,
         Answer, InstallBundle, Choose, KeepPrevious, KeepTarget, SetMark, WriteUnit,
         StartUnit, AwaitHealth, SaveRelease, NoteInstalled, DropMark, Return, CommandDies
    <3> QED
      BY <3>2
  <2> QED
    BY <2>1, <2>2
<1>5. CommittedWasHealthy'
  <2>1. CASE SaveRelease
    BY <2>1, <1>a DEF SaveRelease, Placed, CommittedWasHealthy
  <2>2. CASE ~SaveRelease
    <3>1. release' = release /\ healthy \subseteq healthy'
      BY <2>2 DEF CommandStep, vars, files, Ensure, Wait, Lock, Load, LookAround,
         StartService, Answer, InstallBundle, Choose, KeepPrevious, KeepTarget, SetMark,
         WriteUnit, StartUnit, AwaitHealth, NoteInstalled, DropMark, Return, CommandDies
    <3> QED
      BY <3>1, <1>a, SMTT(30) DEF CommittedWasHealthy
  <2> QED
    BY <2>1, <2>2
<1> QED
  BY <1>a, <1>1, <1>2, <1>3, <1>4, <1>5, CoreFrame

-----------------------------------------------------------------------------
(* The same invariant under the steps of an update. *)

\* The steps of an update, those that call for the supervisor among them.
Updates ==
  \/ UpdateStep /\ UNCHANGED cleared
  \/ SupervisorCalled /\ cleared' = FALSE

\* Beside commands an update still only does what DaemonUpdate lets it do.
LEMMA UpdateIsNext == Updates => Next
BY DEF Updates, UpdateStep, SupervisorCalled, Next, RequesterStep, Machine

\* An update leaves markers and handoff alone; a reboot ends command and removal.
LEMMA UpdateLeaves ==
  ASSUME Updates
  PROVE  /\ UNCHANGED <<marks, saved, phase>>
         /\ \/ UNCHANGED <<boot, remover>>
            \/ Reboot /\ boot' = NoCommand /\ remover' = "off"
BY DEF Updates, UpdateStep, SupervisorCalled, Others

\* While a command holds the lock an update can only restart the daemon.
LEMMA UpdateIsHeld ==
  ASSUME BInv, Updates, owner = "bootstrap"
  PROVE  /\ UNCHANGED <<release, unit, job, healthy>>
         /\ UNCHANGED <<running, updater>> \/ DaemonRestarts \/ Reboot
<1>a. sup.at = "off" /\ req.at \in {"idle", "verified"}
  BY DEF BInv, Core, LocksHeld, BootLocks
<1>1. Request \/ DaemonRestarts \/ RequesterDies \/ Reboot
  BY <1>a DEF Updates, UpdateStep, SupervisorCalled, SupervisorStep, Boot, Stage, Install, Register, Restart, Mark,
     CheckHealth, Commit, Rollback, Recover, Finish, Show, Error, SupervisorDies,
     ReadJournal, Publish, Resume, Launch, Refused, Conclude, LockRequest, Rediscover
<1> QED
  BY <1>1 DEF Request, DaemonRestarts, RequesterDies, Reboot, files, services

\* No step of an update takes the lock from a command, and none that does not call
\* for the supervisor starts again what a removal has ended.
LEMMA UpdateLocks ==
  BInv /\ Updates => (BootLocks /\ Undisturbed /\ RemovedIsGone)'
<1> SUFFICES ASSUME BInv, Updates PROVE BootLocks' /\ Undisturbed' /\ RemovedIsGone'
  OBVIOUS
<1>a. BootLocks /\ Undisturbed /\ RemovedIsGone /\ LocksHeld
  BY DEF BInv, Core
<1>n. NoSupervisor.at = "off" /\ NoRequest.at = "idle" /\ NoCommand.at = "off"
  BY DEF NoSupervisor, NoRequest, NoCommand
<1>p. phase' = phase /\ (UNCHANGED <<boot, remover>> \/ (Reboot /\ boot' = NoCommand /\ remover' = "off"))
  BY UpdateLeaves
<1>1. BootLocks'
  <2> USE DEF BootLocks, LocksHeld
  <2>1. CASE Reboot /\ boot' = NoCommand /\ remover' = "off"
    <3>1. owner' = "nobody"
      BY <2>1 DEF Reboot
    <3> QED
      BY <2>1, <3>1, <1>n
  <2>2. CASE ~(Reboot /\ boot' = NoCommand /\ remover' = "off")
    <3>a. UNCHANGED <<boot, remover>>
      BY <2>2, <1>p
    <3>1. CASE SupervisorStep
      <4>1. req' = req /\ owner # "bootstrap" /\ owner' # "bootstrap"
        BY <3>1, <1>a DEF SupervisorStep, Boot, Stage, Install, Register, Restart, Mark,
             CheckHealth, Commit, Rollback, Recover, Finish, Show, Error
      <4> QED
        BY <3>a, <4>1, <1>a
    <3>2. CASE DaemonRestarts \/ SupervisorDies
      BY <3>2, <3>a, <1>a DEF DaemonRestarts, SupervisorDies, KillSupervisor
    <3>3. CASE RequesterDies
      BY <3>3, <3>a, <1>a, <1>n DEF RequesterDies, ReleaseRequestLocks
    <3>4. CASE Request
      <4>1. req'.at = "verified" /\ owner' = owner
        BY <3>4 DEF Request
      <4> QED
        BY <3>a, <4>1, <1>a
    <3>5. CASE LockRequest /\ owner # "bootstrap"
      BY <3>5, <3>a, <1>a DEF LockRequest
    <3>6. CASE ReadJournal \/ Publish \/ Resume \/ Launch \/ Refused \/ Conclude
      <4>1. /\ req.at \notin {"idle", "verified"}
            /\ owner' \in {owner, "nobody", "request"}
        BY <3>6 DEF ReadJournal, Publish, Resume, Launch, Refused, Conclude, KillSupervisor
      <4> QED
        BY <3>a, <4>1, <1>a
    <3>7. CASE Rediscover /\ owner # "bootstrap"
      BY <3>7, <3>a, <1>a DEF Rediscover
    <3> QED
      BY <2>2, <3>1, <3>2, <3>3, <3>4, <3>5, <3>6, <3>7 DEF Updates, UpdateStep, SupervisorCalled
  <2> QED
    BY <2>1, <2>2
<1>2. Undisturbed'
  <2> USE DEF Undisturbed, files, services
  <2>0. phase' = phase /\ remover' \in {remover, "off"}
    BY <1>p
  <2>1. CASE cleared' = FALSE
    BY <2>0, <2>1, <1>a
  <2>2. CASE ~cleared
    BY <2>0, <2>2, <1>a DEF Updates
  <2>3. CASE cleared /\ UpdateStep
    <3>a. updater = {} /\ sup.at = "off"
      BY <2>3, <1>a
    <3>1. updater' = {} /\ sup'.at = "off" /\ unit' = unit /\ running' \in {running, NoRelease, unit}
      <4>1. ~SupervisorStep
        BY <3>a DEF SupervisorStep, Boot, Stage, Install, Register, Restart, Mark,
             CheckHealth, Commit, Rollback, Recover, Finish, Show, Error
      <4>2. CASE Request \/ LockRequest \/ ReadJournal \/ Publish \/ Refused \/ Conclude
        BY <4>2, <3>a DEF Request, LockRequest, ReadJournal, Publish, Refused, Conclude
      <4>3. CASE DaemonRestarts \/ SupervisorDies \/ RequesterDies \/ Reboot
        BY <4>3, <3>a, <1>n DEF DaemonRestarts, SupervisorDies, KillSupervisor, RequesterDies, Reboot
      <4> QED
        BY <2>3, <4>1, <4>2, <4>3 DEF UpdateStep
    <3> QED
      BY <2>0, <2>3, <3>1, <1>a
  <2> QED
    BY <2>1, <2>2, <2>3 DEF Updates
<1>3. RemovedIsGone'
  BY <1>2 DEF Undisturbed, RemovedIsGone
<1> QED
  BY <1>1, <1>2, <1>3

\* What a command has established stays so.
LEMMA UpdatePlaces ==
  BInv /\ Updates => (CommandKind /\ Placed /\ ReadyIsInstalled)'
<1> SUFFICES ASSUME BInv, Updates PROVE (CommandKind /\ Placed /\ ReadyIsInstalled)'
  OBVIOUS
<1>a. BootLocks /\ CommandKind /\ Placed /\ ReadyIsInstalled
  BY DEF BInv
<1>b. UNCHANGED <<marks, boot>> \/ boot' = NoCommand
  BY UpdateLeaves
<1>1. CASE boot' = NoCommand
  BY <1>1 DEF NoCommand, CommandKind, Placed, ReadyIsInstalled, Marked, Chosen
<1>2. CASE UNCHANGED <<marks, boot>> /\ owner = "bootstrap"
  <2>1. UNCHANGED <<release, unit, job, healthy>>
    BY <1>2, UpdateIsHeld
  <2> QED
    BY <1>2, <2>1, <1>a DEF CommandKind, Placed, ReadyIsInstalled, Pending
<1>3. CASE UNCHANGED <<marks, boot>> /\ owner # "bootstrap"
  <2>1. boot.at \in {"off", "wait", "lock"}
    BY <1>3, <1>a DEF BootLocks
  <2> QED
    BY <1>3, <2>1, <1>a DEF CommandKind, Placed, ReadyIsInstalled, Marked, Chosen
<1> QED
  BY <1>1, <1>2, <1>3, <1>b

\* The journal tells of every executable an update has registered, until a
\* verdict says what became of it.
LEMMA UpdateRecords ==
  BInv /\ Updates /\ lost' = Loses => (OnJournal /\ NothingUnrecorded)'
<1> SUFFICES ASSUME BInv, Updates, lost' = Loses PROVE (OnJournal /\ NothingUnrecorded)'
  OBVIOUS
<1>a. /\ OnJournal /\ NothingUnrecorded /\ LocksHeld /\ OneJobAtATime /\ Decided /\ Activated
      /\ job \in Record /\ sup \in Supervisor /\ req \in Requester
  BY DEF BInv, Core, TypeOK
<1>b. marks' = marks
  BY UpdateLeaves
<1>n. NoSupervisor.at = "off"
  BY DEF NoSupervisor
<1>l. lost /\ unit' \notin {release', NoRelease} => lost'
  BY DEF Loses
<1> USE DEF OnJournal, NothingUnrecorded, Interrupted, Record, Supervisor, files, services
<1>1. CASE Boot
  <2>1. CASE Pending
    <3>1. PICK at \in {"recover", "stage"} :
            /\ at = "stage" => job.phase \notin Interrupted
            /\ sup' = [sup EXCEPT !.at = at, !.id = job.id]
      BY <1>1, <2>1 DEF Boot
    <3>2. sup'.at = at
      BY <3>1, <1>a
    <3>3. UNCHANGED <<release, unit, job>>
      BY <1>1 DEF Boot
    <3> QED
      BY <3>1, <3>2, <3>3, <1>a, <1>b, <1>l
  <2>2. CASE ~Pending
    BY <1>1, <2>2, <1>a, <1>b, <1>l DEF Boot
  <2> QED
    BY <2>1, <2>2
<1>2. CASE Stage
  BY <1>2, <1>a, <1>b, <1>l DEF Stage, Reaches, Concludes
<1>3. CASE Install
  BY <1>3, <1>a, <1>b, <1>l DEF Install
<1>4. CASE Register
  BY <1>4, <1>a, <1>b, <1>l DEF Register, Reaches, Abort
<1>5. CASE Restart
  BY <1>5, <1>a, <1>b, <1>l DEF Restart, Reaches, Abort
<1>6. CASE Mark
  BY <1>6, <1>a, <1>b, <1>l DEF Mark, Reaches
<1>7. CASE CheckHealth
  BY <1>7, <1>a, <1>b, <1>l DEF CheckHealth, Reaches, Abort
<1>8. CASE Commit
  BY <1>8, <1>a, <1>b, <1>l DEF Commit, Concludes, Reaches, Abort
<1>9. CASE Rollback
  BY <1>9, <1>a, <1>b, <1>l DEF Rollback
<1>10. CASE Recover
  BY <1>10, <1>a, <1>b, <1>l DEF Recover, Reaches, Concludes
<1>11. CASE Finish
  <2>1. /\ sup'.at = "show" /\ job'.outcome = sup.verdict /\ job'.phase = "finished"
        /\ UNCHANGED <<release, unit>> /\ Pending /\ sup.at = "finish"
    BY <1>11, <1>a DEF Finish, Reaches, OneJobAtATime
  <2>2. CASE sup.verdict \in {"ready", "gave up", "unlaunched"}
    BY <2>1, <2>2 DEF Loses
  <2>3. CASE sup.verdict = "restored"
    BY <2>1, <2>3, <1>a DEF Decided
  <2>4. CASE sup.verdict = "failed"
    BY <2>1, <2>4, <1>a, <1>b, <1>l
  <2> QED
    BY <2>2, <2>3, <2>4, <1>a DEF Verdict
<1>12. CASE Show
  BY <1>12, <1>a, <1>b, <1>l, <1>n DEF Show
<1>13. CASE Error
  <2>1. CASE sup' = [sup EXCEPT !.at = "finish", !.verdict = "gave up"] /\ UNCHANGED job
    BY <1>13, <2>1, <1>a, <1>b, <1>l DEF Error
  <2>2. CASE job' = [job EXCEPT !.failures = @ + 1] /\ sup' = NoSupervisor
    BY <1>13, <2>2, <1>a, <1>b, <1>l, <1>n DEF Error
  <2> QED
    BY <1>13, <2>1, <2>2 DEF Error, Concludes
<1>14. CASE Publish
  <2>1. CASE UNCHANGED job
    BY <1>14, <2>1, <1>a, <1>b, <1>l DEF Publish
  <2>2. CASE job' = Queued(job.id + 1, req.version, req.previous)
    <3>1. /\ job'.phase = "queued" /\ job.phase = "finished"
          /\ sup.at \in {"off", "show"} /\ UNCHANGED <<sup, release, unit>>
      BY <1>14, <2>2, <1>a DEF Publish, Queued, OneJobAtATime
    <3> QED
      BY <3>1, <1>a, <1>b, <1>l
  <2> QED
    BY <1>14, <2>1, <2>2 DEF Publish
<1>15. CASE Refused
  <2>1. CASE owner = "nobody" /\ Pending
    <3>1. /\ job'.outcome = "unlaunched" /\ UNCHANGED <<sup, release, unit>> /\ sup.at = "off"
      BY <1>15, <2>1, <1>a DEF Refused, LocksHeld
    <3> QED
      BY <2>1, <3>1 DEF Loses
  <2>2. CASE ~(owner = "nobody" /\ Pending)
    BY <1>15, <2>2, <1>a, <1>b, <1>l DEF Refused
  <2> QED
    BY <2>1, <2>2
<1>16. CASE Launch \/ SupervisorDies \/ Reboot
  <2>1. UNCHANGED <<job, release, unit>> /\ (sup' = sup \/ sup' = NoSupervisor)
    BY <1>16 DEF Launch, SupervisorDies, KillSupervisor, Reboot
  <2> QED
    BY <2>1, <1>a, <1>b, <1>l, <1>n
<1>17. CASE Request \/ LockRequest \/ ReadJournal \/ Resume \/ Conclude \/ Rediscover \/
     DaemonRestarts \/ RequesterDies
  <2>1. UNCHANGED <<job, release, unit, sup>>
    BY <1>17 DEF Request, LockRequest, ReadJournal, Resume, Conclude, Rediscover,
         DaemonRestarts, RequesterDies
  <2> QED
    BY <2>1, <1>a, <1>b, <1>l
<1> QED
  BY <1>1, <1>2, <1>3, <1>4, <1>5, <1>6, <1>7, <1>8, <1>9, <1>10, <1>11,
     <1>12, <1>13, <1>14, <1>15, <1>16, <1>17 DEF Updates, UpdateStep, SupervisorCalled, SupervisorStep

\* Every step of an update preserves the inductive invariant.
LEMMA UpdateKeeps == BInv /\ Updates /\ lost' = Loses => BInv'
<1> SUFFICES ASSUME BInv, Updates, lost' = Loses PROVE BInv'
  OBVIOUS
<1>1. Core'
  BY UpdateIsNext, StepCore DEF BInv
<1>2. BootstrapTypeOK'
  <2>1. TypeOK' /\ BootstrapTypeOK
    BY <1>1 DEF Core, BInv
  <2>2. lost' \in BOOLEAN /\ cleared' \in BOOLEAN
    BY DEF Loses, Updates, BInv, BootstrapTypeOK
  <2>3. /\ UNCHANGED <<marks, saved, phase>>
        /\ boot' \in {boot, NoCommand} /\ remover' \in {remover, "off"}
    BY UpdateLeaves
  <2>4. NoCommand \in Command
    BY DEF NoCommand, Command, BootStep, MaybeRelease
  <2> QED
    BY <2>1, <2>2, <2>3, <2>4 DEF BootstrapTypeOK, RemoveStep
<1> QED
  BY <1>1, <1>2, UpdateLocks, UpdatePlaces, UpdateRecords DEF BInv

-----------------------------------------------------------------------------
(* And under a removal. *)

\* A step of a removal, and what the removal of the supervisor notes.
Removals == RemovalStep /\ cleared' = (cleared \/ remover' = "stop")

\* A removal neither begins nor ends a command.
LEMMA RemovalLeaves ==
  ASSUME BInv, Removals
  PROVE  UNCHANGED <<boot, req, healthy, crashes>> /\ boot.at = "off"
BY DEF Removals, RemovalStep, BInv, BootLocks, Remove, RemoveUpdater, StopService, Unregister, Check,
   DeleteData, RemoveCache, ClearPhase, RemoverDies, Kept

\* Every step of a removal keeps every variable in its type.
LEMMA RemovalTyped == BInv /\ Removals /\ lost' = Loses => BootstrapTypeOK'
<1> SUFFICES ASSUME BInv, Removals, lost' = Loses PROVE BootstrapTypeOK'
  OBVIOUS
<1>a. BootstrapTypeOK /\ TypeOK
  BY DEF BInv, BootstrapTypeOK
<1>b. lost' \in BOOLEAN /\ cleared' \in BOOLEAN
  BY DEF Loses, Removals
<1>c. /\ NoMarks \in [installed : BOOLEAN, activating : BOOLEAN]
      /\ NoHandoff \in [target : MaybeRelease, previous : MaybeRelease]
  BY DEF NoMarks, NoHandoff, MaybeRelease
<1>d. Blank \in Record
  BY Values DEF Blank, Record, Phase, Outcome, GiveUpAfter
<1>1. /\ release' \in {release, NoRelease} /\ unit' \in {unit, NoRelease}
      /\ running' \in {running, NoRelease}
      /\ shown' \in {shown, "absent"} /\ updater' \subseteq updater
      /\ sup' \in {sup, NoSupervisor} /\ owner' \in {owner, "nobody"}
      /\ marks' \in {marks, NoMarks} /\ saved' \in {saved, NoHandoff}
      /\ job' \in {job, Blank}
      /\ phase' \in {phase, "none", "started", "purged"}
      /\ remover' \in {remover, "off", "updater", "stop", "unregister", "check", "data",
                       "cache", "rest", "clear"}
  BY DEF Removals, RemovalStep, Remove, RemoveUpdater, StopService, Unregister, Check,
     DeleteData, RemoveCache, ClearPhase, RemoverDies, Steps, KillSupervisor, files, services
<1>2. UNCHANGED <<boot, req, healthy, crashes>>
  BY RemovalLeaves
<1>3. TypeOK'
  BY <1>a, <1>d, <1>1, <1>2, Values DEF TypeOK, Outcome
<1> QED
  BY <1>a, <1>b, <1>c, <1>1, <1>2, <1>3 DEF BootstrapTypeOK, RemoveStep

\* Every step of a removal preserves what the updates rely on.
LEMMA RemovalCore == BInv /\ Removals /\ lost' = Loses => Core'
<1> SUFFICES ASSUME BInv, Removals, lost' = Loses PROVE Core'
  OBVIOUS
<1>a. /\ Core /\ LocksHeld /\ OneJobAtATime /\ Activated /\ Decided /\ ToShow
      /\ ShownIsTrue /\ CommittedWasHealthy /\ OnlyBack
  BY DEF BInv, Core
<1>b. TypeOK'
  BY RemovalTyped DEF BootstrapTypeOK
<1>c. UNCHANGED <<boot, req, healthy, crashes>> /\ boot.at = "off"
  BY RemovalLeaves
<1>n. NoSupervisor.at = "off"
  BY DEF NoSupervisor
<1>1. CASE RemoveUpdater
  <2>1. CASE sup' = sup /\ owner' = owner
    <3>1. UNCHANGED <<job, shown, release, unit, healthy, req>>
      BY <1>1, <1>c DEF RemoveUpdater, files
    <3> QED
      BY <1>a, <1>b, <2>1, <3>1, CoreFrame DEF CommittedWasHealthy
  <2>2. CASE KillSupervisor
    <3>1. /\ UNCHANGED <<job, shown, release, unit, healthy, req>> /\ sup'.at = "off"
          /\ owner' # "supervisor"
          /\ owner' = "request" <=> owner = "request"
      BY <1>1, <1>c, <1>n, <2>2 DEF RemoveUpdater, files, KillSupervisor
    <3> QED
      BY <1>a, <1>b, <1>c, <3>1 DEF Core, LocksHeld, OneJobAtATime, Pending, Activated,
           Activating, Decided, ToShow, ShownIsTrue, CommittedWasHealthy, OnlyBack
  <2> QED
    BY <1>1, <2>1, <2>2 DEF RemoveUpdater
<1>2. CASE RemoveCache
  <2>1. /\ UNCHANGED <<sup, owner, unit, healthy, req>>
        /\ release' \in {release, NoRelease}
        /\ UNCHANGED <<job, shown>> \/ (job' = Blank /\ shown' = "absent")
    BY <1>2, <1>c DEF RemoveCache, services
  <2>a. sup.at = "off" /\ req.at \in {"idle", "verified"}
    BY <1>2, <1>a DEF RemoveCache, RequestLocked, LocksHeld
  <2>2. CASE UNCHANGED <<job, shown>>
    BY <1>a, <1>b, <2>1, <2>a, <2>2, CoreFrame DEF CommittedWasHealthy
  <2>3. CASE job' = Blank /\ shown' = "absent"
    BY <1>a, <1>b, <1>c, <2>1, <2>a, <2>3 DEF Core, LocksHeld, OneJobAtATime, Pending, Activated,
         Activating, Decided, ToShow, ShownIsTrue, CommittedWasHealthy, OnlyBack, Blank, Verdict
  <2> QED
    BY <2>1, <2>2, <2>3
<1>3. CASE ~RemoveUpdater /\ ~RemoveCache
  <2>1. UNCHANGED <<files, sup, owner, healthy, req>>
    BY <1>3, <1>c DEF Removals, RemovalStep, Remove, StopService, Unregister, Check, DeleteData,
         ClearPhase, RemoverDies
  <2>2. CASE Unregister
    <3>1. unit' \in {unit, NoRelease}
      BY <2>2 DEF Unregister
    <3> QED
      BY <1>a, <1>b, <2>1, <3>1, CoreFrame DEF files, CommittedWasHealthy
  <2>3. CASE ~Unregister
    <3>1. unit' = unit
      BY <1>3, <2>3 DEF Removals, RemovalStep, Remove, StopService, Check, DeleteData,
         ClearPhase, RemoverDies, files, services
    <3> QED
      BY <1>a, <1>b, <2>1, <3>1, CoreFrame DEF files, CommittedWasHealthy
  <2> QED
    BY <2>2, <2>3
<1> QED
  BY <1>1, <1>2, <1>3

\* The purge goes from the supervisor to the service and on to the data, and each
\* step finds what the ones before have ended.
LEMMA RemovalKeeps == BInv /\ Removals /\ lost' = Loses => BInv'
<1> SUFFICES ASSUME BInv, Removals, lost' = Loses PROVE BInv'
  OBVIOUS
<1>a. /\ BootLocks /\ CommandKind /\ Placed /\ OnJournal /\ Undisturbed
      /\ NothingUnrecorded /\ ReadyIsInstalled /\ RemovedIsGone /\ LocksHeld
  BY DEF BInv, Core
<1>c. UNCHANGED <<boot, req, healthy, crashes>> /\ boot.at = "off"
  BY RemovalLeaves
<1>n. NoSupervisor.at = "off"
  BY DEF NoSupervisor
<1>1. CommandKind' /\ Placed' /\ ReadyIsInstalled'
  BY <1>a, <1>c DEF CommandKind, Placed, ReadyIsInstalled, Marked, Chosen
<1>2. BootLocks'
  <2>1. owner' \in {owner, "nobody"}
    BY DEF Removals, RemovalStep, Remove, RemoveUpdater, StopService, Unregister, Check, DeleteData,
       RemoveCache, ClearPhase, RemoverDies, KillSupervisor
  <2> QED
    BY <2>1, <1>a, <1>c DEF BootLocks
<1>3. Undisturbed' /\ RemovedIsGone'
  <2> USE DEF Undisturbed, RemovedIsGone, Steps, files, services
  <2>0. cleared' = (cleared \/ remover' = "stop")
    BY DEF Removals
  <2>1. CASE Remove \/ ClearPhase \/ RemoverDies
    BY <2>0, <2>1, <1>a DEF Remove, ClearPhase, RemoverDies
  <2>2. CASE RemoveUpdater
    <3>1. CASE remover' = "stop"
      <4>1. updater' = {} /\ sup'.at = "off" /\ phase' = "started"
        BY <2>2, <3>1, <1>a, <1>n DEF RemoveUpdater, KillSupervisor
      <4> QED
        BY <3>1, <4>1
    <3>2. CASE remover' # "stop"
      <4>1. /\ updater' \subseteq updater /\ (sup' = sup \/ sup'.at = "off")
            /\ remover' = "off" /\ UNCHANGED <<phase, unit, running>>
        BY <2>2, <3>2, <1>n DEF RemoveUpdater, KillSupervisor
      <4> QED
        BY <2>0, <3>2, <4>1, <1>a
    <3> QED
      BY <3>1, <3>2
  <2>3. CASE StopService
    BY <2>0, <2>3, <1>a DEF StopService
  <2>4. CASE Unregister
    BY <2>0, <2>4, <1>a DEF Unregister
  <2>5. CASE Check
    BY <2>0, <2>5, <1>a DEF Check
  <2>6. CASE DeleteData
    BY <2>0, <2>6, <1>a DEF DeleteData
  <2>7. CASE RemoveCache
    BY <2>0, <2>7, <1>a DEF RemoveCache
  <2> QED
    BY <2>1, <2>2, <2>3, <2>4, <2>5, <2>6, <2>7 DEF Removals, RemovalStep
<1>4. OnJournal' /\ NothingUnrecorded'
  <2> USE DEF OnJournal, NothingUnrecorded, files, services
  <2>l. lost /\ unit' \notin {release', NoRelease} => lost'
    BY DEF Loses
  <2>1. CASE RemoveUpdater
    <3>1. UNCHANGED <<job, release, unit, marks>> /\ (sup' = sup \/ sup' = NoSupervisor)
      BY <2>1 DEF RemoveUpdater, KillSupervisor
    <3> QED
      BY <3>1, <1>a, <1>n, <2>l
  <2>2. CASE RemoveCache
    <3>1. /\ sup' = sup /\ unit' = unit /\ sup.at = "off"
          /\ remover \in {"cache", "rest"} /\ remover' \in {"clear", "off"}
      BY <2>2, <1>a DEF RemoveCache, LocksHeld, Steps
    <3>2. CASE UNCHANGED <<release, job, marks>>
      BY <3>1, <3>2, <1>a, <2>l
    <3>3. CASE ~UNCHANGED <<release, job, marks>>
      <4>1. unit' \notin {release', NoRelease} => lost'
        BY <3>1, <3>3 DEF Loses
      <4> QED
        BY <3>1, <4>1
    <3> QED
      BY <3>2, <3>3
  <2>3. CASE ~RemoveUpdater /\ ~RemoveCache
    <3>1. UNCHANGED <<job, release, sup, marks>> /\ unit' \in {unit, NoRelease}
      BY <2>3 DEF Removals, RemovalStep, Remove, StopService, Unregister, Check, DeleteData,
         ClearPhase, RemoverDies
    <3> QED
      BY <3>1, <1>a, <2>l
  <2> QED
    BY <2>1, <2>2, <2>3
<1> QED
  BY <1>1, <1>2, <1>3, <1>4, RemovalTyped, RemovalCore DEF BInv

-----------------------------------------------------------------------------

\* The inductive invariant holds at first, with and without a daemon.
LEMMA BootstrapInvInit == BootstrapInit => BInv
<1> SUFFICES ASSUME BootstrapInit PROVE BInv
  OBVIOUS
<1>a. NoCommand \in Command
  BY DEF NoCommand, Command, BootStep, MaybeRelease
<1>b. /\ NoMarks \in [installed : BOOLEAN, activating : BOOLEAN]
      /\ [NoMarks EXCEPT !.installed = TRUE] \in [installed : BOOLEAN, activating : BOOLEAN]
      /\ NoHandoff \in [target : MaybeRelease, previous : MaybeRelease]
  BY DEF NoMarks, NoHandoff, MaybeRelease
<1>c. Blank \in Record
  BY Values DEF Blank, Record, Phase, Outcome, GiveUpAfter
<1>0. /\ NoCommand \in Command /\ Blank \in Record
      /\ marks \in [installed : BOOLEAN, activating : BOOLEAN]
      /\ saved \in [target : MaybeRelease, previous : MaybeRelease]
  BY <1>a, <1>b, <1>c DEF BootstrapInit
<1>1. TypeOK
  BY <1>0, Values DEF BootstrapInit, TypeOK, Outcome
<1>2. BootstrapTypeOK
  BY <1>0, <1>1 DEF BootstrapInit, BootstrapTypeOK, RemoveStep
<1>3. Core
  BY <1>1 DEF BootstrapInit, Core, LocksHeld, OneJobAtATime, Pending, Activating, Activated,
     Decided, ToShow, ShownIsTrue, Verdict, CommittedWasHealthy, OnlyBack, Blank, NoSupervisor,
     NoRequest
<1>4. /\ boot.at = "off" /\ boot.mode = "ensure" /\ boot.work = "recover"
      /\ sup.at = "off" /\ remover = "off" /\ owner = "nobody" /\ unit = release
      /\ ~cleared
  BY DEF BootstrapInit, NoCommand, NoSupervisor
<1>5. BootLocks /\ CommandKind /\ Placed /\ OnJournal
  BY <1>4 DEF BootLocks, CommandKind, Placed, OnJournal, Marked, Chosen
<1>6. Undisturbed /\ NothingUnrecorded /\ ReadyIsInstalled /\ RemovedIsGone
  BY <1>4 DEF Undisturbed, NothingUnrecorded, ReadyIsInstalled, RemovedIsGone
<1> QED
  BY <1>2, <1>3, <1>5, <1>6 DEF BInv

\* Every step of a command preserves the inductive invariant.
LEMMA CommandKeeps == BInv /\ CommandStep /\ lost' = Loses /\ cleared' = FALSE => BInv'
BY CommandCore, CommandTyped, CommandLocks, CommandKinds, CommandPlaces, CommandRecords DEF BInv

\* The invariant of the update together with the commands of the desktop.
LEMMA BootstrapInvariant == BootstrapSpec => []BInv
<1>1. BInv /\ [BootstrapNext]_allVars => BInv'
  <2> SUFFICES ASSUME BInv, [BootstrapNext]_allVars PROVE BInv'
    OBVIOUS
  <2>1. CASE BootstrapNext
    BY <2>1, UpdateKeeps, CommandKeeps, RemovalKeeps DEF BootstrapNext, Updates, Removals
  <2>2. CASE UNCHANGED allVars
    <3>1. UNCHANGED vars /\ UNCHANGED bootVars
      BY <2>2 DEF allVars
    <3>2. Core'
      BY <3>1, StepCore DEF BInv
    <3>3. BootstrapTypeOK'
      BY <3>1, <3>2 DEF bootVars, BInv, Core, BootstrapTypeOK
    <3>4. /\ BootLocks' /\ CommandKind' /\ Placed' /\ OnJournal'
          /\ Undisturbed' /\ NothingUnrecorded' /\ ReadyIsInstalled' /\ RemovedIsGone'
      BY <3>1 DEF bootVars, vars, files, services, BInv, BootLocks, CommandKind, Placed,
         OnJournal, Undisturbed, NothingUnrecorded, ReadyIsInstalled, RemovedIsGone, Pending
    <3> QED
      BY <3>2, <3>3, <3>4 DEF BInv
  <2> QED
    BY <2>1, <2>2
<1> QED
  BY BootstrapInvInit, <1>1, PTL DEF BootstrapSpec

\* Installing, repairing, starting and removing keep every file, service and
\* process of its kind, and DaemonUpdate's too.
THEOREM BootstrapTyped == BootstrapSpec => []BootstrapTypeOK
<1>1. BInv => BootstrapTypeOK
  BY DEF BInv
<1> QED
  BY BootstrapInvariant, <1>1, PTL

\* Whether the supervisor or the desktop's installer commits a release, it has
\* answered a health check before.
THEOREM OnlyHealthyIsInstalled == BootstrapSpec => []CommittedWasHealthy
<1>1. BInv => CommittedWasHealthy
  BY DEF BInv, Core
<1> QED
  BY BootstrapInvariant, <1>1, PTL

\* No crash, error or interleaving of installations, updates and removals leaves
\* an uncommitted executable registered with nothing on record to undo it, but
\* where an update has ended all the same or its files were removed under it.
THEOREM CutOffIsRecorded == BootstrapSpec => []NothingUnrecorded
<1>1. BInv => NothingUnrecorded
  BY DEF BInv
<1> QED
  BY BootstrapInvariant, <1>1, PTL

\* When a command tells the desktop that the daemon is ready, the installation
\* is whole, and no update has begun beside it.
THEOREM ReadyMeansInstalled == BootstrapSpec => []ReadyIsInstalled
<1>1. BInv => ReadyIsInstalled
  BY DEF BInv
<1> QED
  BY BootstrapInvariant, <1>1, PTL

\* The purge deletes the data and the cache, and a removal that is taken up again
\* passes those stages again, only while the service, the daemon and the
\* supervisor that would register them again are gone: whatever updates are asked
\* for and found beside the removal, as long as none of them, nor any other
\* command, has called a supervisor since the removal found the last one gone.
THEOREM PurgeFindsNothingRunning == BootstrapSpec => []RemovedIsGone
<1>1. BInv => RemovedIsGone
  BY DEF BInv
<1> QED
  BY BootstrapInvariant, <1>1, PTL
===============================================================================
