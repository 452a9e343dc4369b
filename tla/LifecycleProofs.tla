---------------------------- MODULE LifecycleProofs ----------------------------
(***************************************************************************)
(* Theorems about Lifecycle and the operations of Database it runs.  They  *)
(* hold for any jobs and intervals, and whether or not the tables exist or *)
(* can be created.                                                         *)
(***************************************************************************)
EXTENDS Lifecycle, TLAPS

(* There are two threads, and neither is None. *)
LEMMA TwoThreads ==
    Threads = {Loop, Worker} /\ Loop # Worker /\ None \notin Threads
BY LifecycleAssumption, DatabaseAssumption DEF LifecycleAssumption, DatabaseAssumption

-----------------------------------------------------------------------------
(* The inductive invariant.                                                *)

AfterEngine == {"pragmas", "factory", "inspect", "create", "use"}

(* The thread whose engine is current has its listener still to add, or it *)
(* is there.                                                               *)
EngineOK ==
    /\ engine = None => factory = None
    /\ \A t \in Threads : op[t].step \in AfterEngine => engine # None
    /\ \A t \in Threads : op[t].step \in {"inspect", "create", "use"} => factory # None
    /\ engine # None => engine \in listeners \/ At(engine, "pragmas")

(* A factory without listener is bound to the current engine, and its      *)
(* creator is about to add the listener; the other thread, which bound it, *)
(* will replace neither.                                                   *)
FactoryOK ==
    factory # None /\ factory \notin listeners =>
        /\ engine = factory
        /\ At(factory, "pragmas")
        /\ \A t \in Threads \ {factory} : op[t].step \notin {"engine", "pragmas", "factory"}

(* As long as the threads have connected one after the other, whoever is   *)
(* past adding a listener finds one on the current engine, and so is one   *)
(* on that of the factory: no connection is without the pragmas.           *)
PlainOK ==
    ~overlap =>
        /\ plain = {}
        /\ \A t, u \in Threads : Connecting(t) /\ Connecting(u) => t = u
        /\ \A t \in Threads :
               op[t].step \in {"factory", "inspect", "create"} => engine \in listeners
        /\ factory # None => factory \in listeners

DbInv == DbTypeOK /\ EngineOK /\ FactoryOK /\ PlainOK

ControlOK ==
    /\ loop \in {"serving", "join", "close", "closed", "exited"}
    /\ thread \in {"test", "pass", "job", "wait", "dead"}
    /\ timedOut \in BOOLEAN
    /\ thread # "job" /\ ~(thread = "dead" /\ timedOut) => At(Worker, "idle")
    /\ loop # "serving" => At(Loop, "idle")
    /\ loop \in {"close", "closed", "exited"} /\ ~timedOut => thread = "dead"
    /\ closeFailed => loop \in {"closed", "exited"}

(* As long as there is no engine, whoever used the database is still about *)
(* to create one.                                                          *)
UsedOK ==
    used /\ engine = None =>
        \E t \in Threads : op[t].step \in {"lock", "session", "engine"}

Inv == DbInv /\ ControlOK /\ UsedOK /\ CloseFailsOnlyUnused

-----------------------------------------------------------------------------
(* The operations of a thread.                                             *)

DbStep(t) ==
    \/ \E write \in BOOLEAN : BeginOp(t, write)
    \/ OpStep(t)
    \/ UseSession(t)
    \/ OpFails(t)

(* A step of an operation changes what its own thread does and keeps the   *)
(* invariant of the database.                                              *)
LEMMA DbStepKeeps ==
    ASSUME NEW t \in Threads, DbInv, DbStep(t)
    PROVE  DbInv'
<1> USE DEF At, Goto, Op, Steps, AfterEngine
<1>0. DbTypeOK /\ EngineOK /\ FactoryOK /\ PlainOK
  BY DEF DbInv
<1>1. CASE \E write \in BOOLEAN : BeginOp(t, write)
  <2>1. DbTypeOK'
    BY <1>1, <1>0, TwoThreads DEF BeginOp, DbTypeOK
  <2>2. EngineOK'
    BY <1>1, <1>0, TwoThreads DEF BeginOp, DbTypeOK, EngineOK
  <2>3. FactoryOK'
    BY <1>1, <1>0, TwoThreads DEF BeginOp, DbTypeOK, EngineOK, FactoryOK
  <2>4. PlainOK'
    BY <1>1, <1>0, TwoThreads DEF BeginOp, DbTypeOK, EngineOK, PlainOK, Connecting, Connect
  <2> QED BY <2>1, <2>2, <2>3, <2>4 DEF DbInv
<1>2. CASE AcquireLock(t)
  <2>1. DbTypeOK'
    BY <1>2, <1>0, TwoThreads DEF AcquireLock, DbTypeOK
  <2>2. EngineOK'
    BY <1>2, <1>0, TwoThreads DEF AcquireLock, DbTypeOK, EngineOK
  <2>3. FactoryOK'
    BY <1>2, <1>0, TwoThreads DEF AcquireLock, DbTypeOK, EngineOK, FactoryOK
  <2>4. PlainOK'
    BY <1>2, <1>0, TwoThreads DEF AcquireLock, DbTypeOK, EngineOK, PlainOK, Connecting, Connect
  <2> QED BY <2>1, <2>2, <2>3, <2>4 DEF DbInv
<1>3. CASE GetSession(t)
  <2>0. /\ UNCHANGED <<engine, factory, listeners, plain, tables, lock>>
        /\ overlap' \in BOOLEAN /\ (overlap => overlap')
        /\ factory = None /\ ~overlap' => \A u \in Threads : ~Connecting(u)
    BY <1>3, <1>0, Zenon DEF GetSession, DbTypeOK
  <2>1. DbTypeOK'
    <3>1. op' \in [Threads -> Op]
      BY <1>3, <1>0 DEF GetSession, DbTypeOK
    <3> QED BY <1>0, <2>0, <3>1 DEF DbTypeOK
  <2>2. EngineOK'
    BY <1>3, <1>0, TwoThreads DEF GetSession, DbTypeOK, EngineOK
  <2>3. FactoryOK'
    BY <1>3, <1>0, TwoThreads DEF GetSession, DbTypeOK, EngineOK, FactoryOK
  <2>4. PlainOK'
    <3>1. CASE factory = None
      <4>1. op' = [op EXCEPT ![t].step = "engine"]
        BY <1>3, <3>1 DEF GetSession
      <4> QED BY <1>0, <2>0, <3>1, <4>1 DEF DbTypeOK, PlainOK, Connecting
    <3>2. CASE factory # None
      <4>1. op' = [op EXCEPT ![t].step = "use"]
        BY <1>3, <3>2 DEF GetSession
      <4> QED BY <1>0, <2>0, <3>2, <4>1 DEF DbTypeOK, PlainOK, Connecting
    <3> QED BY <3>1, <3>2
  <2> QED BY <2>1, <2>2, <2>3, <2>4 DEF DbInv
<1>4. CASE CreateEngine(t)
  <2>1. DbTypeOK'
    BY <1>4, <1>0, TwoThreads DEF CreateEngine, DbTypeOK
  <2>2. EngineOK'
    BY <1>4, <1>0, TwoThreads DEF CreateEngine, DbTypeOK, EngineOK
  <2>3. FactoryOK'
    BY <1>4, <1>0, TwoThreads DEF CreateEngine, DbTypeOK, EngineOK, FactoryOK
  <2>4. PlainOK'
    BY <1>4, <1>0, TwoThreads DEF CreateEngine, DbTypeOK, EngineOK, PlainOK, Connecting, Connect
  <2> QED BY <2>1, <2>2, <2>3, <2>4 DEF DbInv
<1>5. CASE ListenForPragmas(t)
  <2>1. DbTypeOK'
    BY <1>5, <1>0, TwoThreads DEF ListenForPragmas, DbTypeOK, EngineOK
  <2>2. EngineOK'
    BY <1>5, <1>0, TwoThreads DEF ListenForPragmas, DbTypeOK, EngineOK
  <2>3. FactoryOK'
    BY <1>5, <1>0, TwoThreads DEF ListenForPragmas, DbTypeOK, EngineOK, FactoryOK
  <2>4. PlainOK'
    BY <1>5, <1>0, TwoThreads DEF ListenForPragmas, DbTypeOK, EngineOK, PlainOK, Connecting, Connect
  <2> QED BY <2>1, <2>2, <2>3, <2>4 DEF DbInv
<1>6. CASE BindFactory(t)
  <2>1. DbTypeOK'
    BY <1>6, <1>0, TwoThreads DEF BindFactory, DbTypeOK
  <2>2. EngineOK'
    BY <1>6, <1>0, TwoThreads DEF BindFactory, DbTypeOK, EngineOK
  <2>3. FactoryOK'
    BY <1>6, <1>0, TwoThreads DEF BindFactory, DbTypeOK, EngineOK, FactoryOK
  <2>4. PlainOK'
    BY <1>6, <1>0, TwoThreads DEF BindFactory, DbTypeOK, EngineOK, PlainOK, Connecting, Connect
  <2> QED BY <2>1, <2>2, <2>3, <2>4 DEF DbInv
<1>7. CASE InspectTables(t)
  <2>1. DbTypeOK'
    BY <1>7, <1>0, TwoThreads DEF InspectTables, Connect, DbTypeOK, EngineOK
  <2>2. EngineOK'
    BY <1>7, <1>0, TwoThreads DEF InspectTables, DbTypeOK, EngineOK
  <2>3. FactoryOK'
    BY <1>7, <1>0, TwoThreads DEF InspectTables, DbTypeOK, EngineOK, FactoryOK
  <2>4. PlainOK'
    BY <1>7, <1>0, TwoThreads DEF InspectTables, DbTypeOK, EngineOK, PlainOK, Connecting, Connect
  <2> QED BY <2>1, <2>2, <2>3, <2>4 DEF DbInv
<1>8. CASE CreateTables(t)
  <2>1. DbTypeOK'
    BY <1>8, <1>0, TwoThreads DEF CreateTables, DbTypeOK
  <2>2. EngineOK'
    BY <1>8, <1>0, TwoThreads DEF CreateTables, DbTypeOK, EngineOK
  <2>3. FactoryOK'
    BY <1>8, <1>0, TwoThreads DEF CreateTables, DbTypeOK, EngineOK, FactoryOK
  <2>4. PlainOK'
    BY <1>8, <1>0, TwoThreads DEF CreateTables, DbTypeOK, EngineOK, PlainOK, Connecting, Connect
  <2> QED BY <2>1, <2>2, <2>3, <2>4 DEF DbInv
<1>9. CASE UseSession(t) \/ OpFails(t)
  <2>0. EndOp(t) /\ op[t].step \in {"use", "create"}
    BY <1>9 DEF UseSession, OpFails
  <2>5. plain' = plain \/ (factory # None /\ plain' = IF factory \in listeners THEN plain
                                                     ELSE plain \cup {factory})
    BY <1>9, <1>0 DEF UseSession, OpFails, Connect, EngineOK
  <2>6. UNCHANGED <<engine, factory, listeners, tables, overlap>> /\ op' = [op EXCEPT ![t] = NoOp]
    BY <2>0 DEF EndOp
  <2>1. DbTypeOK'
    <3>1. NoOp \in Op
      BY DEF NoOp
    <3>2. lock' \in Threads \cup {None}
      BY <2>0, <1>0 DEF EndOp, Release, DbTypeOK
    <3>3. plain' \subseteq Threads
      BY <2>5, <1>0 DEF DbTypeOK
    <3> QED BY <2>6, <3>1, <3>2, <3>3, <1>0 DEF DbTypeOK
  <2>2. EngineOK'
    BY <2>0, <1>0, TwoThreads DEF EndOp, Release, NoOp, DbTypeOK, EngineOK
  <2>3. FactoryOK'
    BY <2>0, <1>0, TwoThreads DEF EndOp, Release, NoOp, DbTypeOK, EngineOK, FactoryOK
  <2>4. PlainOK'
    <3>1. ~overlap' => plain' = {}
      BY <2>5, <2>6, <1>0 DEF PlainOK
    <3> QED BY <2>6, <3>1, <1>0 DEF NoOp, DbTypeOK, PlainOK, Connecting
  <2> QED BY <2>1, <2>2, <2>3, <2>4 DEF DbInv
<1> QED
  BY <1>1, <1>2, <1>3, <1>4, <1>5, <1>6, <1>7, <1>8, <1>9 DEF DbStep, OpStep, ConnectStep

-----------------------------------------------------------------------------
(* The steps of the process.                                               *)

(* The invariant holds initially. *)
LEMMA InitInv == Init => Inv
<1> SUFFICES ASSUME Init PROVE Inv
  OBVIOUS
<1>1. DbInv
  BY TwoThreads DEF Init, DbInit, DbInv, DbTypeOK, EngineOK, FactoryOK, PlainOK, NoOp, Op,
                    Steps, At, AfterEngine, Connecting
<1>2. ControlOK /\ UsedOK /\ CloseFailsOnlyUnused
  BY TwoThreads DEF Init, DbInit, ControlOK, UsedOK, CloseFailsOnlyUnused, NoOp, At
<1> QED BY <1>1, <1>2 DEF Inv

(* A step that leaves the database alone keeps its invariant. *)
LEMMA DbIdleKeeps ==
    ASSUME DbInv, UNCHANGED dbVars
    PROVE  DbInv'
BY DEF DbInv, DbTypeOK, EngineOK, FactoryOK, PlainOK, dbVars, At, Connecting

(* A step of an operation does not touch the other thread, and after one   *)
(* there is an engine, or someone about to create it.                      *)
LEMMA DbStepLocal ==
    ASSUME NEW t \in Threads, DbInv, DbStep(t)
    PROVE  /\ \A u \in Threads \ {t} : op'[u] = op[u]
           /\ engine' = None => op'[t].step \in {"lock", "session", "engine"}
<1> USE DEF At, Goto, Op, Steps, AfterEngine
<1>0. DbTypeOK /\ EngineOK
  BY DEF DbInv
<1>1. CASE \E write \in BOOLEAN : BeginOp(t, write)
  BY <1>1, <1>0 DEF BeginOp, DbTypeOK, EngineOK
<1>2. CASE OpStep(t)
  BY <1>2, <1>0, TwoThreads DEF OpStep, AcquireLock, GetSession, ConnectStep, CreateEngine,
     ListenForPragmas, BindFactory, InspectTables, CreateTables, DbTypeOK, EngineOK
<1>3. CASE UseSession(t) \/ OpFails(t)
  BY <1>3, <1>0 DEF UseSession, OpFails, EndOp, NoOp, DbTypeOK, EngineOK
<1> QED BY <1>1, <1>2, <1>3 DEF DbStep

(* The scheduler's thread outside of the database. *)
LEMMA WorkerInv ==
    ASSUME Inv, StartPass \/ LeaveLoop \/ RunJob \/ EndPass \/ WokenByStop \/ Tick
    PROVE  Inv'
<1> USE DEF StartPass, LeaveLoop, RunJob, EndPass, WokenByStop, Tick, JobReturns, JobRaises,
            histVars
<1>1. DbInv'
  BY DbIdleKeeps DEF Inv
<1>2. ControlOK'
  <2> USE DEF Inv, ControlOK, dbVars, Alive, At
  <2>1. CASE StartPass
    BY <2>1
  <2>2. CASE LeaveLoop
    BY <2>2
  <2>3. CASE RunJob
    BY <2>3
  <2>4. CASE EndPass
    BY <2>4
  <2>5. CASE WokenByStop
    BY <2>5
  <2>6. CASE Tick
    BY <2>6
  <2> QED BY <2>1, <2>2, <2>3, <2>4, <2>5, <2>6
<1>3. UsedOK' /\ CloseFailsOnlyUnused'
  <2>1. UNCHANGED <<dbVars, loop, timedOut, closeFailed, used>>
    OBVIOUS
  <2> QED BY <2>1 DEF Inv, UsedOK, CloseFailsOnlyUnused, dbVars
<1> QED BY <1>1, <1>2, <1>3 DEF Inv

(* A job that uses the database. *)
LEMMA DbJobInv ==
    ASSUME Inv, StartDbJob \/ DbJobStep \/ EndDbJob
    PROVE  Inv'
<1>1. DbStep(Worker) /\ Worker \in Threads /\ Loop \in Threads \ {Worker}
  BY TwoThreads DEF StartDbJob, DbJobStep, EndDbJob, DbStep
<1>2. DbInv'
  BY <1>1, DbStepKeeps DEF Inv
<1>3. op'[Loop] = op[Loop] /\ (engine' = None => op'[Worker].step \in {"lock", "session", "engine"})
  BY <1>1, DbStepLocal DEF Inv
<1>4. thread # "dead" /\ thread' # "dead" /\ UNCHANGED <<loop, timedOut, closeFailed>>
  BY DEF StartDbJob, DbJobStep, EndDbJob, Alive, JobReturns, JobRaises, histVars, jobVars
<1>5. ControlOK'
  <2>1. CASE StartDbJob
    BY <2>1, <1>3, <1>4 DEF StartDbJob, Inv, ControlOK, At
  <2>2. CASE DbJobStep
    <3>1. thread = "job"
      BY <2>2, <1>4 DEF DbJobStep, OpStep, AcquireLock, GetSession, ConnectStep, CreateEngine,
         ListenForPragmas, BindFactory, InspectTables, CreateTables, Inv, ControlOK, At
    <3> QED BY <2>2, <3>1, <1>3, <1>4 DEF DbJobStep, jobVars, Inv, ControlOK, At
  <2>3. CASE EndDbJob
    <3>1. op'[Worker].step = "idle" /\ thread' = "pass"
      BY <2>3, <1>1 DEF EndDbJob, UseSession, OpFails, EndOp, NoOp, JobReturns, JobRaises, Inv,
         DbInv, DbTypeOK
    <3> QED BY <3>1, <1>3, <1>4 DEF Inv, ControlOK, At
  <2> QED BY <2>1, <2>2, <2>3
<1>6. UsedOK'
  BY <1>1, <1>3 DEF UsedOK
<1>7. CloseFailsOnlyUnused'
  <2>1. CASE StartDbJob
    BY <2>1, <1>4 DEF StartDbJob, Inv, ControlOK, CloseFailsOnlyUnused
  <2>2. CASE DbJobStep \/ EndDbJob
    BY <2>2, <1>4 DEF DbJobStep, EndDbJob, histVars, Inv, CloseFailsOnlyUnused
  <2> QED BY <2>1, <2>2
<1> QED BY <1>2, <1>5, <1>6, <1>7 DEF Inv

(* A request. *)
LEMMA RequestInv ==
    ASSUME Inv, RequestStep \/ \E write \in BOOLEAN : Request(write)
    PROVE  Inv'
<1>1. DbStep(Loop) /\ Loop \in Threads /\ Worker \in Threads \ {Loop}
  BY TwoThreads DEF RequestStep, Request, DbStep
<1>2. DbInv'
  BY <1>1, DbStepKeeps DEF Inv
<1>3. op'[Worker] = op[Worker] /\ (engine' = None => op'[Loop].step \in {"lock", "session", "engine"})
  BY <1>1, DbStepLocal DEF Inv
<1>4. loop = "serving" /\ UNCHANGED <<loop, thread, timedOut, closeFailed>>
  BY DEF RequestStep, Request, histVars, jobVars
<1>5. ControlOK' /\ CloseFailsOnlyUnused'
  BY <1>3, <1>4 DEF Inv, ControlOK, CloseFailsOnlyUnused, At
<1>6. UsedOK'
  BY <1>1, <1>3 DEF UsedOK
<1> QED BY <1>2, <1>5, <1>6 DEF Inv

(* The shutdown.  Closing fails without an engine, and then nobody has     *)
(* used the database, because both threads have ended what they did.       *)
LEMMA ShutdownInv ==
    ASSUME Inv, Stop \/ ShutdownStep \/ JoinTimesOut
    PROVE  Inv'
<1>1. UNCHANGED <<dbVars, used>>
  BY DEF Stop, ShutdownStep, Join, JoinTimesOut, Close, Exit, jobVars, histVars
<1>2. DbInv' /\ UsedOK'
  BY <1>1, DbIdleKeeps DEF Inv, UsedOK, dbVars
<1>3. ControlOK'
  <2> USE <1>1 DEF jobVars, histVars, dbVars, Alive, At, Inv, ControlOK
  <2>1. CASE Stop
    BY <2>1 DEF Stop
  <2>2. CASE Join
    BY <2>2 DEF Join
  <2>3. CASE JoinTimesOut
    BY <2>3 DEF JoinTimesOut
  <2>4. CASE Close
    BY <2>4 DEF Close
  <2>5. CASE Exit
    BY <2>5 DEF Exit
  <2> QED BY <2>1, <2>2, <2>3, <2>4, <2>5 DEF ShutdownStep
<1>4. CloseFailsOnlyUnused'
  <2>1. CASE Close
    <3>1. ~timedOut => At(Worker, "idle") /\ At(Loop, "idle")
      BY <2>1 DEF Close, Inv, ControlOK
    <3> QED BY <2>1, <3>1, TwoThreads DEF Close, At, Inv, UsedOK, CloseFailsOnlyUnused
  <2>2. CASE Stop \/ Join \/ JoinTimesOut \/ Exit
    BY <2>2 DEF Stop, Join, JoinTimesOut, Exit, histVars, Inv, CloseFailsOnlyUnused
  <2> QED BY <2>1, <2>2 DEF ShutdownStep
<1> QED BY <1>2, <1>3, <1>4 DEF Inv

(* The invariant holds in every reachable state. *)
THEOREM Invariance == Spec => []Inv
<1>1. Inv /\ [Next]_vars => Inv'
  <2> SUFFICES ASSUME Inv, [Next]_vars PROVE Inv'
    OBVIOUS
  <2>1. CASE UNCHANGED vars
    <3>1. DbInv'
      BY <2>1, DbIdleKeeps DEF vars, Inv
    <3> QED BY <2>1, <3>1 DEF vars, dbVars, jobVars, histVars, Inv, ControlOK, UsedOK,
                              CloseFailsOnlyUnused, At
  <2>2. CASE WorkerStep \/ Tick
    BY <2>2, WorkerInv, DbJobInv DEF WorkerStep
  <2> QED BY <2>1, <2>2, RequestInv, ShutdownInv DEF Next
<1> QED BY InitInv, <1>1, PTL DEF Spec

-----------------------------------------------------------------------------
(* The results.                                                            *)

(* When no thread is connecting, the factory's engine has its listener,    *)
(* and unless two threads connected at once all its connections have the   *)
(* pragmas.                                                                *)
THEOREM FactoryAlwaysConfigured == Spec => []FactoryIsConfigured
<1>1. Inv => FactoryIsConfigured
  BY DEF Inv, DbInv, DbTypeOK, FactoryOK, PlainOK, FactoryIsConfigured, Connecting, At
<1> QED BY <1>1, Invariance, PTL

(* No job is left to use a closed database unless stop() gave up, and      *)
(* closing fails only for a database that was not used.                    *)
THEOREM CloseIsSafe == Spec => []CleanClose
<1>1. Inv => JobsEndBeforeClose
  BY DEF Inv, ControlOK, JobsEndBeforeClose
<1>2. Inv => CleanClose
  BY <1>1 DEF Inv, CleanClose
<1> QED BY <1>2, Invariance, PTL

-----------------------------------------------------------------------------
(* The schedule.                                                           *)

(* What is left of a pass, and how long the jobs have waited. *)
ScheduleOK ==
    /\ todo \subseteq JobSet
    /\ DOMAIN since = JobSet
    /\ \A j \in JobSet : since[j] \in 0 .. Interval[j]
    /\ stopEvent \in BOOLEAN
    /\ closeFailed \in BOOLEAN
    /\ used \in BOOLEAN

LEMMA IntervalType == DOMAIN Interval = JobSet /\ \A j \in JobSet : Interval[j] \in Nat \ {0}
BY LifecycleAssumption DEF LifecycleAssumption, JobSet

(* A job that returns has waited no longer, one that raises goes on to. *)
LEMMA JobEnds ==
    ASSUME ScheduleOK, NEW j \in todo, JobReturns(j) \/ JobRaises(j),
           UNCHANGED <<stopEvent, histVars>>
    PROVE  ScheduleOK'
<1>1. todo' = todo \ {j} /\ j \in JobSet
  BY DEF JobReturns, JobRaises, ScheduleOK
<1>2. DOMAIN since' = JobSet /\ \A k \in JobSet : since'[k] \in 0 .. Interval[k]
  <2>1. CASE JobReturns(j)
    <3>1. DOMAIN since' = JobSet /\ \A k \in JobSet : since'[k] = IF k = j THEN 0 ELSE since[k]
      BY <1>1, <2>1 DEF JobReturns, ScheduleOK
    <3>2. \A k \in JobSet : 0 \in 0 .. Interval[k]
      BY IntervalType
    <3> QED BY <3>1, <3>2 DEF ScheduleOK
  <2>2. CASE JobRaises(j)
    BY <2>2 DEF JobRaises, ScheduleOK
  <2> QED BY <2>1, <2>2
<1> QED BY <1>1, <1>2 DEF ScheduleOK, histVars

(* Time goes on, and is counted up to the interval of a job. *)
LEMMA TickSchedules == ASSUME ScheduleOK, Tick PROVE ScheduleOK'
<1>1. /\ since' = [j \in JobSet |-> IF Due(j) THEN since[j] ELSE since[j] + 1]
      /\ UNCHANGED <<stopEvent, todo, closeFailed, used>>
  BY DEF Tick, histVars
<1>2. ASSUME NEW j \in JobSet PROVE since'[j] \in 0 .. Interval[j]
  <2>1. since[j] \in Nat /\ Interval[j] \in Nat /\ since[j] <= Interval[j]
    BY IntervalType DEF ScheduleOK
  <2>2. since'[j] = IF since[j] = Interval[j] THEN since[j] ELSE since[j] + 1
    BY <1>1 DEF Due
  <2> QED BY <2>1, <2>2
<1> QED BY <1>1, <1>2 DEF ScheduleOK

(* Every variable of the two threads keeps its values: no job waits longer *)
(* than its interval is counted, and a pass runs registered jobs only.     *)
THEOREM TypeCorrect == Spec => []TypeOK
<1>1. Init => ScheduleOK
  <2> SUFFICES ASSUME Init PROVE ScheduleOK
    OBVIOUS
  <2>1. \A j \in JobSet : Interval[j] \in 0 .. Interval[j]
    BY IntervalType
  <2> QED BY <2>1, IntervalType DEF Init, ScheduleOK
<1>2. ScheduleOK /\ [Next]_vars => ScheduleOK'
  <2> SUFFICES ASSUME ScheduleOK, [Next]_vars PROVE ScheduleOK'
    OBVIOUS
  <2>1. CASE StartPass
    BY <2>1 DEF StartPass, ScheduleOK, histVars
  <2>2. CASE RunJob \/ EndDbJob
    BY <2>2, JobEnds DEF RunJob, EndDbJob
  <2>3. CASE StartDbJob \/ \E write \in BOOLEAN : Request(write)
    BY <2>3 DEF StartDbJob, Request, ScheduleOK, jobVars
  <2>4. CASE Tick
    BY <2>4, TickSchedules
  <2>5. CASE Stop \/ Close
    BY <2>5 DEF Stop, Close, ScheduleOK, jobVars, histVars
  <2>6. CASE UNCHANGED <<stopEvent, todo, since, closeFailed, used>>
    BY <2>6 DEF ScheduleOK
  <2>7. LeaveLoop \/ DbJobStep \/ EndPass \/ WokenByStop \/ RequestStep \/ Join \/ JoinTimesOut
          \/ Exit \/ UNCHANGED vars => UNCHANGED <<stopEvent, todo, since, closeFailed, used>>
    BY DEF LeaveLoop, DbJobStep, EndPass, WokenByStop, RequestStep, Join, JoinTimesOut, Exit,
           vars, jobVars, histVars
  <2> QED BY <2>1, <2>2, <2>3, <2>4, <2>5, <2>6, <2>7 DEF Next, WorkerStep, ShutdownStep
<1>3. Inv /\ ScheduleOK => TypeOK
  BY DEF Inv, DbInv, ControlOK, ScheduleOK, TypeOK
<1> QED BY <1>1, <1>2, <1>3, Invariance, PTL DEF Spec
=============================================================================
