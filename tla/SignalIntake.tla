---------------------------- MODULE SignalIntake ----------------------------
(***************************************************************************)
(* The hub's POST /v1/signals at the grain of its SQL statements, beside    *)
(* the recovery service that works on the same rows.                        *)
(*                                                                         *)
(* Module Orchestration takes an ingestion for one step.  Here a handler    *)
(* authenticates the request, then reads the registry, inserts the nonce,   *)
(* locks the task, inserts the signal and commits, each statement its own   *)
(* step under READ COMMITTED; other deliveries (a replay, a retry with a    *)
(* fresh nonce, a second result of the task) and a reconciliation run in    *)
(* between, and the database or the whole hub may fail at any point.        *)
(*                                                                         *)
(* A handler's uncommitted rows and its row locks follow from where it      *)
(* stands (pc), so a rollback is a change of pc.  The tasks are those of    *)
(* one orchestration run.  The runtime-state row, which ingest locks last   *)
(* and keeps only for its commit, is left out.                              *)
(***************************************************************************)
EXTENDS Naturals

CONSTANTS
    Handler,          \* deliveries of a request to the hub, each with its handler
    Request,          \* the requests: [agent, message, nonce, task, signed, analysed, authentic]
    Agent, Message, Nonce, Task,
    Retiring,         \* agents that the registry may disable and enable
    TaskAgent,        \* task -> the agent it was planned for
    NoTask,           \* a signal without a task
    NoRequest,
    MaxSkew, SignalTtl,                 \* settings
    SnapshotExpiry, SignalDeadline,     \* of the snapshot and of the tasks
    MaxTime                             \* bound on the clock

RequestShape == [agent : Agent, message : Message, nonce : Nonce,
                 task : Task \cup {NoTask}, signed : Nat, analysed : Nat,
                 authentic : BOOLEAN]

ASSUME RequestAssumption ==
    /\ Request \subseteq RequestShape
    /\ NoRequest \notin Request
    /\ NoTask \notin Task
    /\ TaskAgent \in [Task -> Agent]
    /\ Retiring \subseteq Agent
ASSUME TimeAssumption ==
    /\ MaxSkew \in Nat \ {0} /\ SignalTtl \in Nat \ {0}
    /\ SnapshotExpiry \in Nat /\ SignalDeadline \in Nat /\ MaxTime \in Nat

VARIABLES
    clock,
    disabled,         \* agents the registry has disabled
    pc, request, received, code,        \* handler -> its place, request, `now` and reason code
    nonces, signals, taskStatus,        \* committed: used_nonces, signals (by handler), agent_tasks
    rejections,       \* committed: handlers with a REJECTED audit event
    reconciling, repair                 \* the recovery transaction: run row locked, what it read

handlerVars == <<pc, request, received, code>>
dbVars == <<nonces, signals, taskStatus, rejections>>
recoveryVars == <<reconciling, repair>>
vars == <<clock, disabled, handlerVars, dbVars, recoveryVars>>

InTransaction == {"REGISTRY", "NONCE", "TASK", "MESSAGE", "INSERT", "RUN", "COMMIT"}
Place == InTransaction \cup {"IDLE", "REJECT", "DONE", "LOST"}
TaskStatus == {"PENDING", "WAITING_SIGNAL", "SIGNAL_RECEIVED", "TIMED_OUT", "FAILED"}
DuplicateCode == {"REPLAY_OR_DUPLICATE", "DUPLICATE_TASK_RESULT", "DUPLICATE_MESSAGE_ID"}
Code == DuplicateCode \cup
        {"NONE", "ACCEPTED", "INVALID_SIGNATURE", "AUTH_TIMESTAMP_TOO_OLD",
         "AUTH_TIMESTAMP_IN_FUTURE", "INVALID_SIGNAL_TIMESTAMPS", "SIGNAL_EXPIRED",
         "AGENT_DISABLED", "SNAPSHOT_NOT_OPEN", "SIGNAL_SNAPSHOT_TIME_MISMATCH",
         "TASK_AGENT_MISMATCH", "TASK_EXPIRED",
         "TASK_NOT_ACCEPTING_RESULTS", "TASK_NOT_DISPATCHED", "DATABASE_UNAVAILABLE"}

Init ==
    /\ clock = 0
    /\ disabled = {}
    /\ pc = [h \in Handler |-> "IDLE"]
    /\ request = [h \in Handler |-> NoRequest]
    /\ received = [h \in Handler |-> 0]
    /\ code = [h \in Handler |-> "NONE"]
    /\ nonces = {} /\ signals = {} /\ rejections = {}
    /\ taskStatus \in [Task -> {"PENDING", "WAITING_SIGNAL", "FAILED"}]
    /\ reconciling = FALSE
    /\ repair = [t \in Task |-> "KEEP"]
-----------------------------------------------------------------------------
(* What a handler's open transaction keeps from the others.                 *)
(* An operator Name_Fault is a faulty variant of Name that the              *)
(* specification never uses.                                                *)

NonceKey(h) == <<request[h].agent, request[h].nonce>>

HoldsNonce(h) == pc[h] \in {"TASK", "MESSAGE", "INSERT", "RUN", "COMMIT"}

\* SELECT ... FOR UPDATE, until the transaction ends.
HoldsTask_Leaks(h, t) ==
    /\ pc[h] \in {"MESSAGE", "INSERT", "RUN", "COMMIT", "REJECT", "DONE"}
    /\ request[h].task = t
HoldsTask(h, t) ==
    /\ pc[h] \in {"MESSAGE", "INSERT", "RUN", "COMMIT"}
    /\ request[h].task = t

HoldsSignal(h) == pc[h] \in {"RUN", "COMMIT"}

\* The primary key and the unique index uq_signals_task_result.
SameSignal(g, h) ==
    \/ request[g].message = request[h].message
    \/ request[g].task = request[h].task /\ request[h].task # NoTask
-----------------------------------------------------------------------------
(* The handler *)

Refuse(h, reason) ==
    /\ pc' = [pc EXCEPT ![h] = "REJECT"]
    /\ code' = [code EXCEPT ![h] = reason]

Goto(h, place) ==
    /\ pc' = [pc EXCEPT ![h] = place]
    /\ UNCHANGED code

\* HmacAuthenticator.verify.  The headers, the signature and the body are sound
\* or not as a whole.
Verify(r) ==
    IF clock > r.signed + MaxSkew THEN "AUTH_TIMESTAMP_TOO_OLD"
    ELSE IF r.signed > clock + MaxSkew THEN "AUTH_TIMESTAMP_IN_FUTURE"
    ELSE IF ~r.authentic THEN "INVALID_SIGNATURE"
    ELSE "PASS"

\* What ingest checks before its transaction.
CheckTimes(r) ==
    IF r.analysed > clock THEN "INVALID_SIGNAL_TIMESTAMPS"
    ELSE IF r.analysed + SignalTtl < clock THEN "SIGNAL_EXPIRED"
    ELSE "PASS"

\* A request arrives: any of them, any number of times.  The clock is read once.
Deliver(h) ==
    /\ pc[h] = "IDLE"
    /\ \E r \in Request :
          /\ request' = [request EXCEPT ![h] = r]
          /\ received' = [received EXCEPT ![h] = clock]
          /\ IF Verify(r) # "PASS" THEN Refuse(h, Verify(r))
             ELSE IF CheckTimes(r) # "PASS" THEN Refuse(h, CheckTimes(r))
             ELSE Goto(h, "REGISTRY")
    /\ UNCHANGED <<clock, disabled, dbVars, recoveryVars>>

\* The agent's row and the snapshot's, which was created at time 0 and which
\* nobody changes.
ReadRegistry(h) ==
    /\ pc[h] = "REGISTRY"
    /\ IF request[h].agent \in disabled THEN Refuse(h, "AGENT_DISABLED")
       ELSE IF SnapshotExpiry <= received[h] THEN Refuse(h, "SNAPSHOT_NOT_OPEN")
       ELSE IF request[h].analysed > SnapshotExpiry
            THEN Refuse(h, "SIGNAL_SNAPSHOT_TIME_MISMATCH")
            ELSE Goto(h, "NONCE")
    /\ UNCHANGED <<clock, disabled, request, received, dbVars, recoveryVars>>

\* The insert waits for an open transaction that holds the same key, and fails
\* if that one commits.
InsertNonce(h) ==
    /\ pc[h] = "NONCE"
    /\ ~\E g \in Handler \ {h} : HoldsNonce(g) /\ NonceKey(g) = NonceKey(h)
    /\ IF NonceKey(h) \in nonces THEN Refuse(h, "REPLAY_OR_DUPLICATE")
       ELSE Goto(h, IF request[h].task = NoTask THEN "MESSAGE" ELSE "TASK")
    /\ UNCHANGED <<clock, disabled, request, received, dbVars, recoveryVars>>

\* The checks on the locked task row, with the clock read on arrival.
TaskVerdict(h, t) ==
    IF TaskAgent[t] # request[h].agent THEN "TASK_AGENT_MISMATCH"
    ELSE IF SignalDeadline <= received[h] \/ taskStatus[t] = "TIMED_OUT" THEN "TASK_EXPIRED"
    ELSE IF taskStatus[t] = "SIGNAL_RECEIVED" THEN "DUPLICATE_TASK_RESULT"
    ELSE IF taskStatus[t] = "FAILED" THEN "TASK_NOT_ACCEPTING_RESULTS"
    ELSE IF taskStatus[t] # "WAITING_SIGNAL" THEN "TASK_NOT_DISPATCHED"
    ELSE "PASS"

LockTask(h) ==
    LET t == request[h].task IN
    /\ pc[h] = "TASK"
    /\ ~\E g \in Handler \ {h} : HoldsTask(g, t)
    /\ IF TaskVerdict(h, t) = "PASS" THEN Goto(h, "MESSAGE")
       ELSE Refuse(h, TaskVerdict(h, t))
    /\ UNCHANGED <<clock, disabled, request, received, dbVars, recoveryVars>>

ReadMessage(h) ==
    /\ pc[h] = "MESSAGE"
    /\ IF \E g \in signals : request[g].message = request[h].message
       THEN Refuse(h, "DUPLICATE_MESSAGE_ID")
       ELSE Goto(h, "INSERT")
    /\ UNCHANGED <<clock, disabled, request, received, dbVars, recoveryVars>>

\* The unique indexes when the signal is flushed.
SignalTaken_CheckedEarlier(h) == FALSE
SignalTaken(h) == \E g \in signals : SameSignal(g, h)

\* Without a task there is no run to reference, and only the commit is left.
InsertSignal(h) ==
    /\ pc[h] = "INSERT"
    /\ ~\E g \in Handler \ {h} : HoldsSignal(g) /\ SameSignal(g, h)
    /\ IF SignalTaken(h) THEN Refuse(h, "REPLAY_OR_DUPLICATE")
       ELSE Goto(h, IF request[h].task = NoTask THEN "COMMIT" ELSE "RUN")
    /\ UNCHANGED <<clock, disabled, request, received, dbVars, recoveryVars>>

\* The foreign key to the run takes its row FOR KEY SHARE, which waits for the
\* recovery's FOR UPDATE.
ShareRun_NoForeignKey(h) ==
    /\ pc[h] = "RUN"
    /\ Goto(h, "COMMIT")
    /\ UNCHANGED <<clock, disabled, request, received, dbVars, recoveryVars>>
ShareRun(h) ==
    /\ pc[h] = "RUN"
    /\ ~reconciling
    /\ Goto(h, "COMMIT")
    /\ UNCHANGED <<clock, disabled, request, received, dbVars, recoveryVars>>

\* Nonce, signal, task and the ACCEPTED audit event become visible together.  The
\* answer may get lost on its way.
Store(h) ==
    LET t == request[h].task IN
    /\ nonces' = nonces \cup {NonceKey(h)}
    /\ signals' = signals \cup {h}
    /\ taskStatus' = IF t = NoTask THEN taskStatus
                     ELSE [taskStatus EXCEPT ![t] = "SIGNAL_RECEIVED"]
    /\ UNCHANGED rejections

Commit(h) ==
    /\ pc[h] = "COMMIT"
    /\ Store(h)
    /\ pc' = [pc EXCEPT ![h] = "DONE"]
    /\ code' = [code EXCEPT ![h] = "ACCEPTED"]
    /\ UNCHANGED <<clock, disabled, request, received, recoveryVars>>

\* The connection breaks while the commit is under way: the handler cannot tell
\* that it took effect.
CommitUnknown(h) ==
    /\ pc[h] = "COMMIT"
    /\ Store(h)
    /\ Refuse(h, "DATABASE_UNAVAILABLE")
    /\ UNCHANGED <<clock, disabled, request, received, recoveryVars>>

\* Any statement may fail with the database: the transaction rolls back.
DatabaseFails(h) ==
    /\ pc[h] \in InTransaction
    /\ Refuse(h, "DATABASE_UNAVAILABLE")
    /\ UNCHANGED <<clock, disabled, request, received, dbVars, recoveryVars>>

\* record_rejection: one audit event, or none when the database does not allow it.
RecordRejection(h) ==
    \/ rejections' = rejections \cup {h}
    \/ UNCHANGED rejections

\* _reject: the rejection is audited, then answered.
Reject_BurnsNonce(h) ==
    /\ pc[h] = "REJECT"
    /\ \/ /\ rejections' = rejections \cup {h}
          /\ nonces' = nonces \cup {NonceKey(h)}
       \/ UNCHANGED <<rejections, nonces>>
    /\ Goto(h, "DONE")
    /\ UNCHANGED <<clock, disabled, request, received, signals, taskStatus, recoveryVars>>
Reject(h) ==
    /\ pc[h] = "REJECT"
    /\ RecordRejection(h)
    /\ Goto(h, "DONE")
    /\ UNCHANGED <<clock, disabled, request, received, nonces, signals, taskStatus,
                   recoveryVars>>
-----------------------------------------------------------------------------
(* The recovery service and the environment *)

\* reconcile takes the run FOR UPDATE SKIP LOCKED: a key-share holder, or a
\* waiter in the row's queue, makes it skip the run.  It reads the tasks without
\* locking them.
RunShared == \E h \in Handler : pc[h] = "COMMIT" /\ request[h].task # NoTask

RepairOf(t) ==
    IF (\E h \in signals : request[h].task = t) /\ taskStatus[t] # "SIGNAL_RECEIVED"
    THEN "SIGNAL_RECEIVED"
    ELSE IF taskStatus[t] = "WAITING_SIGNAL" /\ SignalDeadline <= clock
    THEN "TIMED_OUT"
    ELSE "KEEP"

ReconcileRead ==
    /\ ~reconciling
    /\ ~RunShared
    /\ reconciling' = TRUE
    /\ repair' = [t \in Task |-> RepairOf(t)]
    /\ UNCHANGED <<clock, disabled, handlerVars, dbVars>>

\* The updates of a flush wait for every row they change; then all commit.
RepairBlocked == \E t \in Task : repair[t] # "KEEP" /\ \E h \in Handler : HoldsTask(h, t)

ReconcileWrite_WritesKept ==
    /\ reconciling
    /\ ~RepairBlocked
    /\ taskStatus' = repair
    /\ reconciling' = FALSE
    /\ repair' = [t \in Task |-> "KEEP"]
    /\ UNCHANGED <<clock, disabled, handlerVars, nonces, signals, rejections>>
ReconcileWrite ==
    /\ reconciling
    /\ ~RepairBlocked
    /\ taskStatus' = [t \in Task |-> IF repair[t] = "KEEP" THEN taskStatus[t] ELSE repair[t]]
    /\ reconciling' = FALSE
    /\ repair' = [t \in Task |-> "KEEP"]
    /\ UNCHANGED <<clock, disabled, handlerVars, nonces, signals, rejections>>

\* The recovery's transaction is rolled back: its worker dies, or it is the
\* victim of a deadlock.
ReconcileFails ==
    /\ reconciling
    /\ reconciling' = FALSE
    /\ repair' = [t \in Task |-> "KEEP"]
    /\ UNCHANGED <<clock, disabled, handlerVars, dbVars>>

\* A handler that holds a task waits for the run while the recovery that holds
\* the run waits for the task: PostgreSQL rolls one of the two back.
Deadlocked(h) ==
    /\ pc[h] = "RUN"
    /\ reconciling
    /\ \E t \in Task : repair[t] # "KEEP" /\ HoldsTask(h, t)

BreakDeadlock(h) ==
    /\ Deadlocked(h)
    /\ \/ ReconcileFails
       \/ /\ Refuse(h, "DATABASE_UNAVAILABLE")
          /\ UNCHANGED <<clock, disabled, request, received, dbVars, recoveryVars>>

\* The hub process dies with every request in it; the database rolls back.
HubCrash ==
    /\ \E h \in Handler : pc[h] \notin {"IDLE", "DONE", "LOST"}
    /\ pc' = [h \in Handler |-> IF pc[h] \in {"IDLE", "DONE"} THEN pc[h] ELSE "LOST"]
    /\ UNCHANGED <<clock, disabled, request, received, code, dbVars, recoveryVars>>

\* The registry is edited and synchronised, in one transaction: agents are
\* disabled and enabled again.
SyncRegistry ==
    /\ \E off \in SUBSET Retiring : off # disabled /\ disabled' = off
    /\ UNCHANGED <<clock, handlerVars, dbVars, recoveryVars>>

Tick ==
    /\ clock < MaxTime
    /\ clock' = clock + 1
    /\ UNCHANGED <<disabled, handlerVars, dbVars, recoveryVars>>

HandlerStep(h) ==
    \/ ReadRegistry(h) \/ InsertNonce(h) \/ LockTask(h) \/ ReadMessage(h)
    \/ InsertSignal(h) \/ ShareRun(h) \/ Commit(h) \/ Reject(h)

Next ==
    \/ \E h \in Handler :
          \/ Deliver(h) \/ HandlerStep(h)
          \/ CommitUnknown(h) \/ DatabaseFails(h) \/ BreakDeadlock(h)
    \/ ReconcileRead \/ ReconcileWrite \/ ReconcileFails
    \/ SyncRegistry
    \/ HubCrash
    \/ Tick

Spec == Init /\ [][Next]_vars

\* The event loop runs every handler that can run; PostgreSQL breaks deadlocks
\* and queues the waiters of a row, so that a recovery that comes back again and
\* again does not keep a handler from the run for ever.
Fairness ==
    /\ \A h \in Handler : WF_vars(HandlerStep(h)) /\ SF_vars(ShareRun(h))
    /\ \A h \in Handler : WF_vars(BreakDeadlock(h))
    /\ WF_vars(ReconcileWrite)
FairSpec == Spec /\ Fairness
-----------------------------------------------------------------------------
(* Properties *)

TypeOK ==
    /\ clock \in 0..MaxTime
    /\ disabled \subseteq Agent
    /\ pc \in [Handler -> Place]
    /\ request \in [Handler -> Request \cup {NoRequest}]
    /\ received \in [Handler -> 0..MaxTime]
    /\ code \in [Handler -> Code]
    /\ nonces \subseteq Agent \X Nonce
    /\ signals \subseteq Handler /\ rejections \subseteq Handler
    /\ taskStatus \in [Task -> TaskStatus]
    /\ reconciling \in BOOLEAN
    /\ repair \in [Task -> {"KEEP", "SIGNAL_RECEIVED", "TIMED_OUT"}]

\* However deliveries interleave and whatever fails, a captured request, a
\* message and a task each yield at most one stored signal (security.md:5,
\* FAILURE_MATRIX.md:9, 22; signal_ingestion.py:86, 92, 116).
StoredOnce ==
    \A g, h \in signals : g # h =>
        NonceKey(g) # NonceKey(h) /\ ~SameSignal(g, h)

\* A task is SIGNAL_RECEIVED exactly when a signal for it is stored.  Recovery
\* reads the tasks without a lock and writes them later; only the foreign key
\* from signals to the run keeps an ingestion out in between
\* (recovery.py:53-103, signal_ingestion.py:176).
ReceivedIffStored ==
    \A t \in Task :
        taskStatus[t] = "SIGNAL_RECEIVED" <=> \E h \in signals : request[h].task = t

\* The reason a handler gives is true: ACCEPTED only for a stored signal, and a
\* duplicate only when a conflicting signal is in the database, never because
\* of an attempt that was rolled back, so that a client told "duplicate" need
\* not send again.  A stored signal is reported and audited as rejected only as
\* DATABASE_UNAVAILABLE (data_integrity.md:7, signals.py:43-68).
AnswersTrue ==
    \A h \in Handler :
        /\ code[h] = "ACCEPTED" => h \in signals
        /\ code[h] \in DuplicateCode => \E g \in signals \ {h} :
              NonceKey(g) = NonceKey(h) \/ SameSignal(g, h)
        /\ h \in signals => code[h] \in {"ACCEPTED", "DATABASE_UNAVAILABLE"}
        /\ h \in signals \cap rejections => code[h] = "DATABASE_UNAVAILABLE"

\* Every delivery is answered unless the hub dies with it: ingestion locks task
\* then run, recovery run then task, and both still end (signal_ingestion.py:92,
\* recovery.py:47).
EveryDeliveryAnswered ==
    \A h \in Handler : pc[h] # "IDLE" ~> pc[h] \in {"DONE", "LOST"}
=============================================================================
