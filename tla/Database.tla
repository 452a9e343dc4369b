------------------------------- MODULE Database -------------------------------
(***************************************************************************)
(* Operations on core/db.py by the threads of the web process, from the    *)
(* test of the session factory, through the lazy connect, to the end of    *)
(* the session.  A write runs under _write_lock, a read does not, and      *)
(* neither protects the factory.                                           *)
(*                                                                         *)
(* A thread connects at most once, so its engine has the thread's name.    *)
(* Of the data of the database only whether its tables exist matters.      *)
(***************************************************************************)
EXTENDS Naturals

CONSTANTS
    Threads,     \* threads that use the database
    MayFail      \* may statements fail (a locked database, a full disk)

None == "none"

ASSUME DatabaseAssumption ==
    /\ None \notin Threads
    /\ MayFail \in BOOLEAN

VARIABLES
    engine,     \* self.engine, or None
    factory,    \* the engine self.SessionLocal is bound to, or None
    listeners,  \* engines whose new connections get the pragmas
    plain,      \* engines with a connection that was opened before that, and
                \* stays in their pool
    tables,     \* do the tables exist
    lock,       \* the thread in _write_lock, or None
    op,         \* what each thread does
    overlap     \* history: two threads were connecting at the same time

dbVars == <<engine, factory, listeners, plain, tables, lock, op, overlap>>

Steps == {"idle", "lock", "session", "engine", "pragmas", "factory",
          "inspect", "create", "use"}

Op == [step : Steps, write : BOOLEAN]

NoOp == [step |-> "idle", write |-> FALSE]

DbInit ==
    /\ engine = None
    /\ factory = None
    /\ listeners = {}
    /\ plain = {}
    /\ tables \in BOOLEAN
    /\ lock = None
    /\ op = [t \in Threads |-> NoOp]
    /\ overlap = FALSE

DbTypeOK ==
    /\ engine \in Threads \cup {None}
    /\ factory \in Threads \cup {None}
    /\ listeners \subseteq Threads
    /\ tables \in BOOLEAN
    /\ lock \in Threads \cup {None}
    /\ op \in [Threads -> Op]
    /\ plain \subseteq Threads
    /\ overlap \in BOOLEAN

At(t, step) == op[t].step = step

Goto(t, step) == op' = [op EXCEPT ![t].step = step]

(* Every operation, from insert_traffic to get_user_preferences, is a      *)
(* write, "with self._write_lock" and then a session, or a read, which     *)
(* takes a session at once.                                                *)
BeginOp(t, write) ==
    /\ At(t, "idle")
    /\ op' = [op EXCEPT ![t] = [step  |-> IF write THEN "lock" ELSE "session", write |-> write]]
    /\ UNCHANGED <<engine, factory, listeners, plain, tables, lock, overlap>>

AcquireLock(t) ==
    /\ At(t, "lock")
    /\ lock = None
    /\ lock' = t
    /\ Goto(t, "session")
    /\ UNCHANGED <<engine, factory, listeners, plain, tables, overlap>>

Connecting(t) == op[t].step \in {"engine", "pragmas", "factory", "inspect", "create"}

(* get_session: connect when there is no factory. *)
GetSession(t) ==
    /\ At(t, "session")
    /\ IF factory = None
       THEN /\ Goto(t, "engine")
            /\ overlap' = (overlap \/ \E u \in Threads : Connecting(u))
       ELSE /\ Goto(t, "use")
            /\ UNCHANGED overlap
    /\ UNCHANGED <<engine, factory, listeners, plain, tables, lock>>

(* A connection is taken from the pool of engine e, or opened. *)
Connect(e) == plain' = IF e \in listeners THEN plain ELSE plain \cup {e}

-----------------------------------------------------------------------------
(* connect.  Each step reads self.engine anew, and the other thread may    *)
(* have replaced it.                                                       *)

CreateEngine(t) ==
    /\ At(t, "engine")
    /\ engine' = t
    /\ Goto(t, "pragmas")
    /\ UNCHANGED <<factory, listeners, plain, tables, lock, overlap>>

(* Mutant of ListenForPragmas: once per process, not per engine. *)
ListenOnce(t) ==
    /\ At(t, "pragmas")
    /\ listeners' = IF listeners = {} THEN {engine} ELSE listeners
    /\ Goto(t, "factory")
    /\ UNCHANGED <<engine, factory, plain, tables, lock, overlap>>

ListenForPragmas(t) ==
    /\ At(t, "pragmas")
    /\ listeners' = listeners \cup {engine}
    /\ Goto(t, "factory")
    /\ UNCHANGED <<engine, factory, plain, tables, lock, overlap>>

BindFactory(t) ==
    /\ At(t, "factory")
    /\ factory' = engine
    /\ Goto(t, "inspect")
    /\ UNCHANGED <<engine, listeners, plain, tables, lock, overlap>>

(* create_all looks which tables are missing, on the current engine, ...   *)
InspectTables(t) ==
    /\ At(t, "inspect")
    /\ Connect(engine)
    /\ Goto(t, IF tables THEN "use" ELSE "create")
    /\ UNCHANGED <<engine, factory, listeners, tables, lock, overlap>>

(* ... and creates them, which fails if they exist by now. *)
CreateTables(t) ==
    /\ At(t, "create")
    /\ ~tables
    /\ tables' = TRUE
    /\ Goto(t, "use")
    /\ UNCHANGED <<engine, factory, listeners, plain, lock, overlap>>

-----------------------------------------------------------------------------
(* The end of an operation leaves the lock in any case.                    *)

Release(t) == lock' = IF lock = t THEN None ELSE lock

EndOp(t) ==
    /\ op' = [op EXCEPT ![t] = NoOp]
    /\ Release(t)
    /\ UNCHANGED <<engine, factory, listeners, tables, overlap>>

(* The body of the session, whatever it reads or writes.  It takes its     *)
(* connection at its first statement.                                      *)
UseSession(t) ==
    /\ At(t, "use")
    /\ tables
    /\ Connect(factory)
    /\ EndOp(t)

(* Mutant of OpFails: the lock is not released after an exception. *)
OpFailsLocked(t) ==
    /\ \/ At(t, "use") /\ (~tables \/ MayFail) /\ Connect(factory)
       \/ At(t, "create") /\ (tables \/ MayFail) /\ UNCHANGED plain
    /\ op' = [op EXCEPT ![t] = NoOp]
    /\ UNCHANGED <<engine, factory, listeners, tables, lock, overlap>>

(* An exception: a statement or a commit without tables, or that fails; a  *)
(* create_all for tables another thread created since they were looked     *)
(* for, or that fails.  The factory stays bound, so nobody connects again. *)
OpFails(t) ==
    /\ \/ At(t, "use") /\ (~tables \/ MayFail) /\ Connect(factory)
       \/ At(t, "create") /\ (tables \/ MayFail) /\ UNCHANGED plain
    /\ EndOp(t)

ConnectStep(t) ==
    \/ CreateEngine(t)
    \/ ListenForPragmas(t)
    \/ BindFactory(t)
    \/ InspectTables(t)
    \/ CreateTables(t)

OpStep(t) == AcquireLock(t) \/ GetSession(t) \/ ConnectStep(t)

-----------------------------------------------------------------------------
(* Properties.                                                             *)

(* When no thread is connecting, the factory is bound to an engine whose   *)
(* new connections get the pragmas (foreign keys are enforced), however    *)
(* the connects of two threads were interleaved and whoever replaced whose *)
(* engine.  Unless two threads connected at the same time, that goes for   *)
(* every connection of the engine: otherwise one may have opened a         *)
(* connection of the other's engine before its listener was added.         *)
FactoryIsConfigured ==
    (\A t \in Threads : ~Connecting(t)) /\ factory # None =>
        factory \in listeners /\ (factory \in plain => overlap)
=============================================================================
