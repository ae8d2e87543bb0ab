-------------------------- MODULE NotificationOutbox --------------------------
(***************************************************************************)
(* The transactional notification outbox: enqueue_notification, and the    *)
(* NotificationWorker processes that deliver its rows                      *)
(* (tomiris_notifications/outbox.py, worker.py, senders.py).               *)
(*                                                                         *)
(* process_one is two transactions with the external send between them.    *)
(* The row does not say which worker is sending it: the second transaction *)
(* only looks at its status.                                               *)
(*                                                                         *)
(* next_attempt_at is kept as the time that remains until it, so that the  *)
(* model needs no clock: 0 means due.  A notification stands for its       *)
(* idempotency key, which is unique in the table.                          *)
(***************************************************************************)
EXTENDS Naturals, FiniteSets

CONSTANTS
    Notification,        \* idempotency keys
    Worker,              \* processes that call process_one
    Nothing,             \* the worker is between two calls
    MaxAttempts,         \* notification_max_attempts
    SendingLease,        \* sending_lease_seconds
    MaxBackoff,          \* the longest jittered retry delay
    MaxCrashes           \* bound: worker crashes in a behaviour

ASSUME OutboxAssumption ==
    /\ MaxAttempts \in Nat \ {0}
    /\ SendingLease \in Nat \ {0}
    /\ MaxBackoff \in Nat \ {0}
    /\ MaxCrashes \in Nat
    /\ Nothing \notin Notification

VARIABLES
    outbox,      \* notification_outbox: key -> [status, attempts, wait, position]
    delivered,   \* keys whose message Telegram accepted at least once
    sending,     \* worker -> the row its call of process_one took, or Nothing
    attempt,     \* worker -> the attempt_count it read when it took the row
    result,      \* worker -> what the sender returned, "NONE" before
    crashes      \* worker crashes so far

vars == <<outbox, delivered, sending, attempt, result, crashes>>

RowStatus == {"ABSENT", "PENDING", "SENDING", "RETRY", "SENT", "FAILED", "DEAD_LETTER"}
SettledStatus == {"SENT", "FAILED", "DEAD_LETTER"}
SendResult == {"SUCCESS", "RETRYABLE", "PERMANENT"}

AbsentRow == [status |-> "ABSENT", attempts |-> 0, wait |-> 0, position |-> 0]

Queued == {n \in Notification : outbox[n].status # "ABSENT"}

Init ==
    /\ outbox = [n \in Notification |-> AbsentRow]
    /\ delivered = {}
    /\ sending = [w \in Worker |-> Nothing]
    /\ attempt = [w \in Worker |-> 0]
    /\ result = [w \in Worker |-> "NONE"]
    /\ crashes = 0
-----------------------------------------------------------------------------
\* enqueue_notification: insert on conflict do nothing.  position stands for
\* created_at, which is also the first next_attempt_at.
Enqueue(n) ==
    /\ outbox[n].status = "ABSENT"
    /\ outbox' = [outbox EXCEPT ![n] =
         [status |-> "PENDING", attempts |-> 0, wait |-> 0,
          position |-> Cardinality(Queued)]]
    /\ UNCHANGED <<delivered, sending, attempt, result, crashes>>

\* Rows the first transaction may take: also SENDING rows whose lease ran out.
Due(n) == outbox[n].status \in {"PENDING", "RETRY", "SENDING"} /\ outbox[n].wait = 0

\* First transaction of process_one: the oldest due row becomes SENDING.
Take(w) ==
    /\ sending[w] = Nothing
    /\ \E n \in Notification :
         /\ Due(n)
         /\ \A m \in Notification : Due(m) => outbox[n].position <= outbox[m].position
         /\ outbox' = [outbox EXCEPT ![n] =
              [outbox[n] EXCEPT !.status = "SENDING", !.attempts = outbox[n].attempts + 1,
                                !.wait = SendingLease]]
         /\ sending' = [sending EXCEPT ![w] = n]
         /\ attempt' = [attempt EXCEPT ![w] = outbox[n].attempts + 1]
    /\ UNCHANGED <<delivered, result, crashes>>

\* TelegramNotificationSender.send: only a 2xx answer is a success; a message
\* may have arrived although the answer got lost.
Send(w) ==
    /\ sending[w] # Nothing /\ result[w] = "NONE"
    /\ \E r \in SendResult, arrived \in BOOLEAN :
         /\ r = "SUCCESS" => arrived
         /\ r = "PERMANENT" => ~arrived
         /\ result' = [result EXCEPT ![w] = r]
         /\ delivered' = IF arrived THEN delivered \cup {sending[w]} ELSE delivered
    /\ UNCHANGED <<outbox, sending, attempt, crashes>>

Settleable_Unchecked(n) == TRUE
\* The second transaction leaves alone a row that is no longer SENDING.
Settleable(n) == outbox[n].status = "SENDING"

Exhausted_OneEarly(w) == attempt[w] + 1 >= MaxAttempts
Exhausted_Never(w) == FALSE
Exhausted(w) == attempt[w] >= MaxAttempts

StatusAfter_OutsideConstraint(w) ==
    CASE result[w] = "SUCCESS" -> "SENT"
      [] result[w] = "PERMANENT" -> "FAILED"
      [] OTHER -> IF Exhausted(w) THEN "EXHAUSTED" ELSE "RETRY"
StatusAfter(w) ==
    CASE result[w] = "SUCCESS" -> "SENT"
      [] result[w] = "PERMANENT" -> "FAILED"
      [] OTHER -> IF Exhausted(w) THEN "DEAD_LETTER" ELSE "RETRY"

\* Second transaction of process_one.
Settle(w) ==
    /\ result[w] # "NONE"
    /\ LET n == sending[w]
       IN \/ ~Settleable(n) /\ UNCHANGED outbox
          \/ /\ Settleable(n) /\ StatusAfter(w) # "RETRY"
             /\ outbox' = [outbox EXCEPT ![n] =
                             [outbox[n] EXCEPT !.status = StatusAfter(w)]]
          \/ /\ Settleable(n) /\ StatusAfter(w) = "RETRY"
             /\ \E delay \in 1..MaxBackoff :
                  outbox' = [outbox EXCEPT ![n] =
                               [outbox[n] EXCEPT !.status = "RETRY", !.wait = delay]]
    /\ sending' = [sending EXCEPT ![w] = Nothing]
    /\ attempt' = [attempt EXCEPT ![w] = 0]
    /\ result' = [result EXCEPT ![w] = "NONE"]
    /\ UNCHANGED <<delivered, crashes>>

\* The process dies, or send raises an error it does not catch: the row keeps
\* its lease.
Crash(w) ==
    /\ sending[w] # Nothing
    /\ crashes < MaxCrashes
    /\ crashes' = crashes + 1
    /\ sending' = [sending EXCEPT ![w] = Nothing]
    /\ attempt' = [attempt EXCEPT ![w] = 0]
    /\ result' = [result EXCEPT ![w] = "NONE"]
    /\ UNCHANGED <<outbox, delivered>>

\* Time passes; a send may outlast its lease (the HTTP timeout bounds each
\* phase of a request, not the request).
Tick ==
    /\ \E n \in Notification : outbox[n].wait > 0
    /\ outbox' = [n \in Notification |->
         IF outbox[n].wait > 0 THEN [outbox[n] EXCEPT !.wait = outbox[n].wait - 1]
                               ELSE outbox[n]]
    /\ UNCHANGED <<delivered, sending, attempt, result, crashes>>

Next ==
    \/ \E n \in Notification : Enqueue(n)
    \/ \E w \in Worker : Take(w) \/ Send(w) \/ Settle(w) \/ Crash(w)
    \/ Tick

Spec == Init /\ [][Next]_vars
-----------------------------------------------------------------------------
Row == [status : RowStatus, attempts : Nat, wait : Nat, position : Nat]

\* Every variable has its type; a worker with an answer has a row.
TypeOK ==
    /\ outbox \in [Notification -> Row]
    /\ delivered \in SUBSET Notification
    /\ sending \in [Worker -> Notification \cup {Nothing}]
    /\ attempt \in [Worker -> Nat]
    /\ result \in [Worker -> SendResult \cup {"NONE"}]
    /\ crashes \in Nat
    /\ \A w \in Worker : result[w] # "NONE" => sending[w] \in Notification

\* At least once: a row is SENT only if its message reached Telegram, and
\* DEAD_LETTER only after max_attempts attempts, also when the workers whose
\* leases ran out answer late and in any order.
SettledHonestly ==
    \A n \in Notification :
        /\ outbox[n].status = "SENT" => n \in delivered
        /\ outbox[n].status = "DEAD_LETTER" => outbox[n].attempts >= MaxAttempts

\* A late answer of a worker that lost its lease never reopens a settled row.
SettledForGood ==
    [][\A n \in Notification : outbox[n].status \in SettledStatus =>
          outbox'[n].status = outbox[n].status]_vars

\* Delivery is no endless loop: beyond max_attempts there are only attempts that
\* replace a crashed one and attempts that overlap another worker's.  A worker still
\* out with an attempt below the maximum may put the row into RETRY once, and the
\* answers of all the others, free then to take it again, are dropped meanwhile:
\* W workers make at most W + (W - 1) + ... + 1 attempts from max_attempts on.
AttemptsNearBound ==
    \A n \in Notification :
        outbox[n].attempts <=
            (MaxAttempts - 1) + crashes
              + (Cardinality(Worker) * (Cardinality(Worker) + 1)) \div 2

\* ADR 0011: retries are bounded by a maximum of attempts.
AttemptsBounded ==
    \A n \in Notification : outbox[n].attempts <= MaxAttempts
=============================================================================
