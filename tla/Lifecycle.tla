------------------------------- MODULE Lifecycle -------------------------------
(***************************************************************************)
(* The two threads of the web process that use the database, from the      *)
(* start of the services to the end of the process: the event loop, which  *)
(* serves requests and then shuts down (app.py, container.py), and the     *)
(* thread of the job scheduler (application/jobs/scheduler.py).            *)
(*                                                                         *)
(* No handler awaits between its database operations, so the event loop    *)
(* does one at a time.                                                     *)
(***************************************************************************)
EXTENDS Database, Integers, SequencesExt

CONSTANTS
    Loop, Worker,  \* the event loop and the thread of the scheduler
    Jobs,          \* the registered jobs, in their order
    DbJobs,        \* those that may use the database: traffic_flush, traffic_prune
    IdleJobs,      \* those that may have nothing to write: traffic_flush
    Interval       \* interval_seconds of each job

ASSUME LifecycleAssumption ==
    /\ Threads = {Loop, Worker}
    /\ Loop # Worker
    /\ IsInjective(Jobs)
    /\ Interval \in [ToSet(Jobs) -> Nat \ {0}]

VARIABLES
    loop,         \* what the event loop is at
    thread,       \* what the thread of the scheduler is at
    stopEvent,    \* _stop_event
    todo,         \* the jobs still to run in this pass, in the order of Jobs
    since,        \* the age of last_run, saturated at the interval
    timedOut,     \* history: stop() gave up waiting for the thread
    closeFailed,  \* history: closing the database raised an exception
    used          \* history: an operation on the database was begun

jobVars == <<thread, stopEvent, todo, since>>
histVars == <<timedOut, closeFailed, used>>
vars == <<dbVars, loop, jobVars, histVars>>

JobSet == ToSet(Jobs)

Due(j) == since[j] = Interval[j]

(* The job whose turn it is in this pass. *)
Precedes(j, k) == \E m, n \in DOMAIN Jobs : Jobs[m] = j /\ Jobs[n] = k /\ m <= n

IsNext(j) == j \in todo /\ \A k \in todo : Precedes(j, k)

(* lifespan has started the scheduler; last_run is zero, so every job is   *)
(* due at once.                                                            *)
Init ==
    /\ DbInit
    /\ loop = "serving"
    /\ thread = "test"
    /\ stopEvent = FALSE
    /\ todo = {}
    /\ since = Interval
    /\ timedOut = FALSE
    /\ closeFailed = FALSE
    /\ used = FALSE

-----------------------------------------------------------------------------
(* The thread of the scheduler.                                            *)

Alive == thread # "dead"

(* The clock is read once per pass, and only running a job changes when it *)
(* is due, so the due jobs of a pass are known when it begins.             *)
StartPass ==
    /\ thread = "test"
    /\ ~stopEvent
    /\ thread' = "pass"
    /\ todo' = {j \in JobSet : Due(j)}
    /\ UNCHANGED <<dbVars, loop, stopEvent, since, histVars>>

LeaveLoop ==
    /\ thread = "test"
    /\ stopEvent
    /\ thread' = "dead"
    /\ UNCHANGED <<dbVars, loop, stopEvent, todo, since, histVars>>

(* Mutant of JobReturns: last_run is set to when the job is due again. *)
JobReturnsAhead(j) ==
    /\ thread' = "pass"
    /\ todo' = todo \ {j}
    /\ since' = [since EXCEPT ![j] = -Interval[j]]

(* Success sets last_run; an exception is counted and logged, and the job  *)
(* is due again at the next pass.                                          *)
JobReturns(j) ==
    /\ thread' = "pass"
    /\ todo' = todo \ {j}
    /\ since' = [since EXCEPT ![j] = 0]

(* Mutant of JobRaises: an exception ends the pass. *)
JobRaisesOutOfPass(j) ==
    /\ thread' = "pass"
    /\ todo' = {}
    /\ UNCHANGED since

JobRaises(j) ==
    /\ thread' = "pass"
    /\ todo' = todo \ {j}
    /\ UNCHANGED since

(* A job that does not use the database, this time. *)
RunJob ==
    /\ thread = "pass"
    /\ \E j \in todo :
          /\ IsNext(j)
          /\ j \notin DbJobs \/ j \in IdleJobs
          /\ JobReturns(j) \/ JobRaises(j)
    /\ UNCHANGED <<dbVars, loop, stopEvent, histVars>>

StartDbJob ==
    /\ thread = "pass"
    /\ \E j \in todo : IsNext(j) /\ j \in DbJobs
    /\ BeginOp(Worker, TRUE)
    /\ thread' = "job"
    /\ used' = TRUE
    /\ UNCHANGED <<loop, stopEvent, todo, since, timedOut, closeFailed>>

DbJobStep ==
    /\ Alive
    /\ OpStep(Worker)
    /\ UNCHANGED <<loop, jobVars, histVars>>

EndDbJob ==
    /\ Alive
    /\ \E j \in todo :
          /\ IsNext(j)
          /\ \/ UseSession(Worker) /\ JobReturns(j)
             \/ OpFails(Worker) /\ JobRaises(j)
    /\ UNCHANGED <<loop, stopEvent, histVars>>

EndPass ==
    /\ thread = "pass"
    /\ todo = {}
    /\ thread' = "wait"
    /\ UNCHANGED <<dbVars, loop, stopEvent, todo, since, histVars>>

(* The event ends the wait of a second early. *)
WokenByStop ==
    /\ thread = "wait"
    /\ stopEvent
    /\ thread' = "test"
    /\ UNCHANGED <<dbVars, loop, stopEvent, todo, since, histVars>>

Tick ==
    /\ Alive
    /\ since' = [j \in JobSet |-> IF Due(j) THEN since[j] ELSE since[j] + 1]
    /\ thread' = IF thread = "wait" THEN "test" ELSE thread
    /\ <<since', thread'>> # <<since, thread>>
    /\ UNCHANGED <<dbVars, loop, stopEvent, todo, histVars>>

WorkerStep ==
    \/ StartPass
    \/ LeaveLoop
    \/ RunJob
    \/ StartDbJob
    \/ DbJobStep
    \/ EndDbJob
    \/ EndPass
    \/ WokenByStop

-----------------------------------------------------------------------------
(* The event loop.                                                         *)

Request(write) ==
    /\ loop = "serving"
    /\ BeginOp(Loop, write)
    /\ used' = TRUE
    /\ UNCHANGED <<loop, jobVars, timedOut, closeFailed>>

(* An exception in a handler is answered with an error. *)
RequestStep ==
    /\ loop = "serving"
    /\ OpStep(Loop) \/ UseSession(Loop) \/ OpFails(Loop)
    /\ UNCHANGED <<loop, jobVars, histVars>>

(* Mutant of Stop: the thread is not told. *)
StopWithoutEvent ==
    /\ loop = "serving"
    /\ At(Loop, "idle")
    /\ loop' = "join"
    /\ UNCHANGED <<dbVars, jobVars, histVars>>

(* Container.shutdown begins with job_scheduler.stop. *)
Stop ==
    /\ loop = "serving"
    /\ At(Loop, "idle")
    /\ stopEvent' = TRUE
    /\ loop' = "join"
    /\ UNCHANGED <<dbVars, thread, todo, since, histVars>>

(* Mutant of Join: the thread is not waited for. *)
JoinWithoutWaiting ==
    /\ loop = "join"
    /\ loop' = "close"
    /\ UNCHANGED <<dbVars, jobVars, histVars>>

(* Plugins, sniffer and firewall come between; they do not touch what is   *)
(* modelled here.                                                          *)
Join ==
    /\ loop = "join"
    /\ ~Alive
    /\ loop' = "close"
    /\ UNCHANGED <<dbVars, jobVars, histVars>>

(* Five seconds were not enough, whatever the thread is at.  Nobody looks  *)
(* at the outcome.                                                         *)
JoinTimesOut ==
    /\ loop = "join"
    /\ Alive
    /\ timedOut' = TRUE
    /\ loop' = "close"
    /\ UNCHANGED <<dbVars, jobVars, closeFailed, used>>

(* DatabaseRepository.close: engine.dispose().  The engine and the factory *)
(* stay, but without an engine there is an exception.                      *)
Close ==
    /\ loop = "close"
    /\ closeFailed' = (engine = None)
    /\ loop' = "closed"
    /\ UNCHANGED <<dbVars, jobVars, timedOut, used>>

(* The process ends, and a daemon thread with it. *)
Exit ==
    /\ loop = "closed"
    /\ loop' = "exited"
    /\ thread' = "dead"
    /\ UNCHANGED <<dbVars, stopEvent, todo, since, histVars>>

ShutdownStep == Join \/ Close \/ Exit

Next ==
    \/ WorkerStep
    \/ Tick
    \/ \E write \in BOOLEAN : Request(write)
    \/ RequestStep
    \/ Stop
    \/ ShutdownStep
    \/ JoinTimesOut

(* Both threads are scheduled and time passes.  A request need not come,   *)
(* nor the shutdown, nor need the thread be so slow that the timeout of    *)
(* join strikes.  The lock: a blocked thread gets it in the end.           *)
Fairness ==
    /\ WF_vars(WorkerStep)
    /\ WF_vars(Tick)
    /\ WF_vars(RequestStep)
    /\ WF_vars(ShutdownStep)
    /\ SF_vars(loop = "serving" /\ AcquireLock(Loop) /\ UNCHANGED <<loop, jobVars, histVars>>)
    /\ SF_vars(Alive /\ AcquireLock(Worker) /\ UNCHANGED <<loop, jobVars, histVars>>)

Spec == Init /\ [][Next]_vars

FairSpec == Spec /\ Fairness

-----------------------------------------------------------------------------
(* Properties.                                                             *)

TypeOK ==
    /\ DbTypeOK
    /\ loop \in {"serving", "join", "close", "closed", "exited"}
    /\ thread \in {"test", "pass", "job", "wait", "dead"}
    /\ stopEvent \in BOOLEAN
    /\ todo \subseteq JobSet
    /\ DOMAIN since = JobSet
    /\ \A j \in JobSet : since[j] \in 0 .. Interval[j]
    /\ <<timedOut, closeFailed, used>> \in BOOLEAN \X BOOLEAN \X BOOLEAN

(* When the database is closed no job uses it any more, unless stop() gave *)
(* up waiting.                                                             *)
JobsEndBeforeClose ==
    loop \in {"closed", "exited"} /\ ~timedOut => thread = "dead" /\ At(Worker, "idle")

(* Closing the database, and with it the shutdown, fails only if nothing   *)
(* ever used it, or a job was still about to connect when stop() gave up.  *)
CloseFailsOnlyUnused == closeFailed => ~used \/ timedOut

(* A shutdown waits for the jobs, and then closes a database it can close. *)
CleanClose == JobsEndBeforeClose /\ CloseFailsOnlyUnused

(* A job that is due runs, whichever other job fails, and however often,   *)
(* until the scheduler is stopped.                                         *)
Running(j) == thread \in {"pass", "job"} /\ IsNext(j)

DueJobRuns == \A j \in JobSet : Due(j) ~> Running(j) \/ stopEvent

(* A request is answered, whatever the scheduler does with the lock. *)
RequestIsAnswered == ~At(Loop, "idle") ~> At(Loop, "idle")

(* A shutdown comes to its end, and needs no timeout for that: the thread  *)
(* ends when it is told to, whichever of its jobs fail and however it gets *)
(* the lock of the database.                                               *)
ShutdownEnds == loop # "serving" ~> loop = "exited"
=============================================================================
