---------------------------- MODULE AgentRuntime ----------------------------
(***************************************************************************)
(* The agent's HTTP process: it receives commands that the network may     *)
(* delay and deliver again, verifies their age, remembers their nonces and *)
(* the tasks it accepted in a bounded store, and runs each new task in the *)
(* background until its signal is posted to the Hub.  The orchestrator's   *)
(* rows of these tasks are part of the model: every claim rewrites a row   *)
(* and sends what it holds then.                                           *)
(*                                                                         *)
(* The handler of a command does not await between reading the body and    *)
(* its answer (the store's lock is never contended), so it is one step at  *)
(* one reading of the clock.  Commands carry valid signatures: only their  *)
(* age and their repetition are modelled.                                  *)
(***************************************************************************)
EXTENDS Integers, Sequences, FiniteSets

CONSTANTS
    Task,                \* task identifiers
    Served,              \* tasks of this agent, its capabilities and its assets
    Deadline,            \* task -> the signal_deadline it was planned with
    Skew,                \* command_max_clock_skew_seconds
    NonceTtl,            \* command_nonce_ttl_seconds
    MaxEntries,          \* the task store's capacity
    Offset,              \* how far the orchestrator's clock may be off
    MaxCommands,         \* bound: commands sent in a behaviour
    MaxTime,             \* bound: the clock stops here
    MaxRestarts          \* bound: restarts of the process

ASSUME RuntimeAssumption ==
    /\ Served \subseteq Task
    /\ Deadline \in [Task -> Nat]
    /\ Skew \in Nat \ {0} /\ NonceTtl \in Nat \ {0} /\ MaxEntries \in Nat \ {0}
    /\ Offset \subseteq Int /\ MaxCommands \in Nat /\ MaxTime \in Nat /\ MaxRestarts \in Nat

Nonce == 1..MaxCommands

\* The orchestrator's row of a task: the planned columns and the claims' own.
Row == [created_at : Nat, signal_deadline : Nat, attempt_count : Nat, updated_at : Int]

\* A claim counts an attempt and stamps the row: an attempt differs from the
\* one before, and a planned column does not.
Claimed_Extends(r, at) ==
    [r EXCEPT !.attempt_count = @ + 1, !.updated_at = at, !.signal_deadline = @ + at]
Claimed(r, at) == [r EXCEPT !.attempt_count = @ + 1, !.updated_at = at]

\* The request's body is built from the row as the claim leaves it.  Of its
\* columns two stand for all that the planner wrote.
BodyColumns == [created_at : Nat, deadline : Nat]
Body(r) == [created_at |-> r.created_at, deadline |-> r.signal_deadline]

Command == [nonce : Nonce, task : Task, timestamp : Int, body : BodyColumns]

VARIABLES
    now,         \* the agent's clock
    row,         \* task -> the orchestrator's row of it
    network,     \* commands sent: each may be delivered at any time, repeatedly
    nonces,      \* the store's _nonces: [nonce, expiry]
    store,       \* the store's _tasks in insertion order: [task, body]
    running,     \* task -> executions in the handler's analyze
    posting,     \* task -> executions waiting for the Hub's answer
    answered,    \* remembered tasks whose signal the Hub has answered
    restarts,
    accepted,    \* history: nonce -> acceptances since the process started
    starts,      \* history: task -> executions ever started
    forgets      \* history: task -> evictions and restarts that dropped it

storeVars == <<nonces, store, answered>>
execVars == <<running, posting>>
historyVars == <<accepted, starts, forgets>>
vars == <<now, row, network, storeVars, execVars, restarts, historyVars>>

Remembered == {store[k].task : k \in DOMAIN store}

Init ==
    /\ now = 0 /\ network = {} /\ restarts = 0
    /\ row = [t \in Task |-> [created_at |-> 0, signal_deadline |-> Deadline[t],
                              attempt_count |-> 0, updated_at |-> 0]]
    /\ nonces = {} /\ store = <<>> /\ answered = {}
    /\ running = [t \in Task |-> 0] /\ posting = [t \in Task |-> 0]
    /\ accepted = [n \in Nonce |-> 0]
    /\ starts = [t \in Task |-> 0] /\ forgets = [t \in Task |-> 0]

Tick == /\ now < MaxTime
        /\ now' = now + 1
        /\ UNCHANGED <<row, network, storeVars, execVars, restarts, historyVars>>

\* The orchestrator claims the task, for the first time or as a retry, and signs
\* the command with its own clock and a fresh nonce.
Dispatch(t) ==
    LET n == Cardinality(network) + 1 IN
    /\ n <= MaxCommands
    /\ \E d \in Offset :
          /\ row' = [row EXCEPT ![t] = Claimed(@, now + d)]
          /\ network' = network \cup
                {[nonce |-> n, task |-> t, timestamp |-> now + d, body |-> Body(row'[t])]}
    /\ UNCHANGED <<now, storeVars, execVars, restarts, historyVars>>

NonceExpiry_Skew == now + Skew
NonceExpiry == now + NonceTtl

\* accept drops the nonces whose time has come before it looks for the new one.
LiveNonces == {m \in nonces : m.expiry > now}

\* What a delivery must pass before the store is asked: age, route, deadline.
\* One that does not is answered with a 4xx and leaves no trace.
Admissible(c) ==
    /\ now - c.timestamp <= Skew
    /\ now - c.timestamp >= -Skew
    /\ c.task \in Served
    /\ c.body.deadline > now

\* The nonce is known: the command itself was delivered before.
RefuseReplay(c) ==
    /\ Admissible(c)
    /\ \E m \in LiveNonces : m.nonce = c.nonce
    /\ nonces' = LiveNonces
    /\ UNCHANGED <<now, row, network, store, answered, execVars, restarts, historyVars>>

\* The nonce is new, and is recorded whatever the answer will be.
Record(c) ==
    /\ Admissible(c)
    /\ \A m \in LiveNonces : m.nonce # c.nonce
    /\ nonces' = LiveNonces \cup {[nonce |-> c.nonce, expiry |-> NonceExpiry]}

\* A retry of a remembered task starts nothing: it is acknowledged if its body is
\* the remembered one and refused as TASK_DUPLICATE_CONFLICT if it is not.
AcceptAgain_Starts(c) ==
    /\ c.task \in Remembered
    /\ Record(c)
    /\ accepted' = [accepted EXCEPT ![c.nonce] = @ + 1]
    /\ starts' = [starts EXCEPT ![c.task] = @ + 1]
    /\ running' = [running EXCEPT ![c.task] = @ + 1]
    /\ UNCHANGED <<now, row, network, store, answered, posting, restarts, forgets>>
AcceptAgain_Reopens(c) ==
    /\ c.task \in Remembered
    /\ Record(c)
    /\ answered' = answered \ {c.task}
    /\ accepted' = [accepted EXCEPT ![c.nonce] = @ + 1]
    /\ UNCHANGED <<now, row, network, store, execVars, restarts, starts, forgets>>
AcceptAgain(c) ==
    /\ c.task \in Remembered
    /\ Record(c)
    /\ LET known == CHOOSE e \in {store[k] : k \in DOMAIN store} : e.task = c.task
       IN  accepted' = IF known.body = c.body
                       THEN [accepted EXCEPT ![c.nonce] = @ + 1] ELSE accepted
    /\ UNCHANGED <<now, row, network, store, answered, execVars, restarts, starts, forgets>>

\* A new task evicts the oldest one of a full store; its execution is scheduled
\* behind the acknowledgement.
Full_OffByOne == Len(store) > MaxEntries
Full == Len(store) >= MaxEntries
AcceptNew(c) ==
    LET entry == [task |-> c.task, body |-> c.body]
    IN  /\ c.task \notin Remembered
        /\ Record(c)
        /\ store' = Append(IF Full THEN Tail(store) ELSE store, entry)
        /\ answered' = IF Full THEN answered \ {Head(store).task} ELSE answered
        /\ forgets' = IF Full THEN [forgets EXCEPT ![Head(store).task] = @ + 1] ELSE forgets
        /\ accepted' = [accepted EXCEPT ![c.nonce] = @ + 1]
        /\ starts' = [starts EXCEPT ![c.task] = @ + 1]
        /\ running' = [running EXCEPT ![c.task] = @ + 1]
        /\ UNCHANGED <<now, row, network, posting, restarts>>

Deliver(c) == RefuseReplay(c) \/ AcceptAgain(c) \/ AcceptNew(c)

\* execute: the analysis returns a signal, which is posted once, or it raises,
\* which is only logged.
Analyse(t) ==
    /\ running[t] > 0
    /\ running' = [running EXCEPT ![t] = @ - 1]
    /\ posting' = [posting EXCEPT ![t] = @ + 1]
    /\ UNCHANGED <<now, row, network, storeVars, restarts, historyVars>>
AnalysisRaises(t) ==
    /\ running[t] > 0
    /\ running' = [running EXCEPT ![t] = @ - 1]
    /\ UNCHANGED <<now, row, network, storeVars, posting, restarts, historyVars>>

\* The Hub answers, 202 or not, or the post fails: nothing is sent again.
HubAnswers(t) ==
    /\ posting[t] > 0
    /\ posting' = [posting EXCEPT ![t] = @ - 1]
    /\ answered' = answered \cup ({t} \cap Remembered)
    /\ UNCHANGED <<now, row, network, nonces, store, running, restarts, historyVars>>
PostFails_Reruns(t) ==
    /\ posting[t] > 0
    /\ posting' = [posting EXCEPT ![t] = @ - 1]
    /\ running' = [running EXCEPT ![t] = @ + 1]
    /\ UNCHANGED <<now, row, network, storeVars, restarts, historyVars>>
PostFails(t) ==
    /\ posting[t] > 0
    /\ posting' = [posting EXCEPT ![t] = @ - 1]
    /\ UNCHANGED <<now, row, network, storeVars, running, restarts, historyVars>>

\* The process restarts: store and executions are process-local.
Restart ==
    /\ restarts < MaxRestarts
    /\ restarts' = restarts + 1
    /\ nonces' = {} /\ store' = <<>> /\ answered' = {}
    /\ running' = [t \in Task |-> 0] /\ posting' = [t \in Task |-> 0]
    /\ forgets' = [t \in Task |-> forgets[t] + IF t \in Remembered THEN 1 ELSE 0]
    /\ accepted' = [n \in Nonce |-> 0]
    /\ UNCHANGED <<now, row, network, starts>>

Execute(t) == Analyse(t) \/ AnalysisRaises(t) \/ HubAnswers(t) \/ PostFails(t)

Next ==
    \/ Tick \/ Restart
    \/ \E t \in Task : Dispatch(t) \/ Execute(t)
    \/ \E c \in network : Deliver(c)

Spec == Init /\ [][Next]_vars

\* The event loop runs background tasks; an analysis ends (MarketData, property
\* EveryFetchEnds), and the post to the Hub has a timeout.
FairSpec == Spec /\ \A t \in Task : WF_vars(Analyse(t) \/ AnalysisRaises(t))
                                    /\ WF_vars(HubAnswers(t) \/ PostFails(t))
-----------------------------------------------------------------------------
(* Properties *)

TypeOK ==
    /\ now \in Nat /\ restarts \in Nat
    /\ row \in [Task -> Row]
    /\ network \subseteq Command
    /\ nonces \subseteq [nonce : Nonce, expiry : Nat]
    /\ store \in Seq([task : Served, body : BodyColumns])
    /\ Len(store) <= MaxEntries
    /\ answered \subseteq Remembered
    /\ running \in [Task -> Nat] /\ posting \in [Task -> Nat]
    /\ accepted \in [Nonce -> Nat]
    /\ starts \in [Task -> Nat] /\ forgets \in [Task -> Nat]

\* A process accepts a command at most once however often the network delivers
\* it, if a nonce outlives the window in which its command is young enough at
\* both ends (state.py:37-40, security.py:109-113).  The settings do not enforce
\* the premise (config.py:27-28).
AcceptedOnce == NonceTtl > 2 * Skew => \A n \in Nonce : accepted[n] <= 1

\* A task is started once, and once more only after the store has dropped it:
\* repeated deliveries and retries alone never repeat the analysis; and what was
\* acknowledged was started (state.py:41-50, application.py:150-161).
WorkNotRepeated ==
    /\ \A t \in Task : starts[t] <= 1 + forgets[t]
    /\ \A c \in network : accepted[c.nonce] >= 1 => starts[c.task] >= 1

\* "Retries retain the same task ID and body" (ORCHESTRATION_PROTOCOL.md:26): a
\* claim rewrites the row between two attempts, yet no command on its way differs
\* from what the agent remembers of its task, which would be refused as
\* TASK_DUPLICATE_CONFLICT and taken by the dispatcher for a permanent failure
\* (dispatch.py:132-166, client.py:84-99, state.py:43-45).
RetryNeverConflicts ==
    \A c \in network : \A k \in DOMAIN store :
        store[k].task = c.task => store[k].body = c.body

\* Every execution ends, with an answer from the Hub or a logged failure.
ExecutionsEnd == \A t \in Task : running[t] + posting[t] > 0 ~> running[t] + posting[t] = 0

Contract == INSTANCE ExecutionContract WITH
    status <- [t \in Task |-> IF t \notin Remembered THEN "IDLE"
                              ELSE IF t \in answered THEN "DONE" ELSE "WORKING"]

\* The runtime implements the execution contract: a remembered task is worked on
\* once, its answer is final, and only forgetting it starts it again, although
\* commands are repeated and the store evicts (state.py:27-51,
\* application.py:99-161).
KeepsContract == Contract!Spec
=============================================================================
