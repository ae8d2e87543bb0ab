----------------------- MODULE NotificationOutboxProofs -----------------------
(***************************************************************************)
(* Proofs about NotificationOutbox, for any number of notifications,       *)
(* workers, attempts and crashes.                                          *)
(***************************************************************************)
EXTENDS NotificationOutbox, FiniteSetTheorems, TLAPS

\* What a worker in the middle of process_one knows of the row it took, however
\* long ago: the row exists and has counted at least its attempt, and a success
\* it holds is a delivery.
InFlightFacts ==
    \A w \in Worker : sending[w] # Nothing =>
        /\ outbox[sending[w]].status # "ABSENT"
        /\ attempt[w] <= outbox[sending[w]].attempts
        /\ result[w] = "SUCCESS" => sending[w] \in delivered

OutboxInv == TypeOK /\ SettledHonestly /\ InFlightFacts

\* The columns a step leaves behind when it writes one row.
LEMMA RowWrites ==
  ASSUME NEW row \in Row, NEW s \in RowStatus, NEW k \in Nat, NEW d \in Nat
  PROVE  /\ [row EXCEPT !.status = s] \in Row
         /\ [row EXCEPT !.status = s, !.wait = d] \in Row
         /\ [row EXCEPT !.wait = d] \in Row
         /\ [row EXCEPT !.status = s, !.attempts = k, !.wait = d] \in Row
BY DEF Row

\* Taking a row.
LEMMA TakeStep ==
  ASSUME OutboxInv, NEW w \in Worker, Take(w)
  PROVE  OutboxInv' /\ \A n \in Notification :
           outbox[n].status \in SettledStatus => outbox'[n].status = outbox[n].status
<1>1. PICK n \in Notification :
        /\ Due(n)
        /\ outbox' = [outbox EXCEPT ![n] =
              [outbox[n] EXCEPT !.status = "SENDING", !.attempts = outbox[n].attempts + 1,
                                !.wait = SendingLease]]
        /\ sending' = [sending EXCEPT ![w] = n]
        /\ attempt' = [attempt EXCEPT ![w] = outbox[n].attempts + 1]
  BY DEF Take
<1>2. /\ outbox[n] \in Row /\ outbox[n].attempts \in Nat /\ outbox[n].attempts + 1 \in Nat
      /\ "SENDING" \in RowStatus /\ SendingLease \in Nat
  BY OutboxAssumption DEF OutboxInv, TypeOK, Row, RowStatus
<1>3. /\ outbox'[n] \in Row /\ outbox'[n].status = "SENDING"
      /\ outbox'[n].attempts = outbox[n].attempts + 1
      /\ \A m \in Notification \ {n} : outbox'[m] = outbox[m]
  <2>1. outbox'[n] \in Row
    BY <1>1, <1>2, RowWrites DEF OutboxInv, TypeOK
  <2>2. QED
    BY <1>1, <1>2, <2>1 DEF OutboxInv, TypeOK, Row
<1>4. TypeOK'
  BY <1>1, <1>2, <1>3 DEF Take, OutboxInv, TypeOK
<1>5. SettledHonestly'
  BY <1>3 DEF Take, OutboxInv, SettledHonestly
<1>6. InFlightFacts'
  <2> SUFFICES ASSUME NEW v \in Worker, sending'[v] # Nothing
               PROVE  /\ outbox'[sending'[v]].status # "ABSENT"
                      /\ attempt'[v] <= outbox'[sending'[v]].attempts
                      /\ result'[v] = "SUCCESS" => sending'[v] \in delivered'
    BY DEF InFlightFacts
  <2>1. CASE v = w
    <3>1. sending'[w] = n /\ attempt'[w] = outbox[n].attempts + 1
      BY <1>1 DEF OutboxInv, TypeOK
    <3>2. result'[w] = "NONE"
      BY OutboxAssumption DEF Take, OutboxInv, TypeOK
    <3>3. QED
      BY <1>2, <1>3, <2>1, <3>1, <3>2
  <2>2. CASE v # w
    <3>1. sending'[v] = sending[v] /\ attempt'[v] = attempt[v] /\ result'[v] = result[v]
      BY <1>1, <2>2 DEF Take, OutboxInv, TypeOK
    <3>2. /\ sending[v] \in Notification /\ attempt[v] \in Nat
          /\ outbox[sending[v]].attempts \in Nat
      BY <3>1 DEF OutboxInv, TypeOK, Row
    <3>3. QED
      BY <1>2, <1>3, <3>1, <3>2 DEF Take, OutboxInv, InFlightFacts
  <2>3. QED
    BY <2>1, <2>2
<1>7. \A m \in Notification :
        outbox[m].status \in SettledStatus => outbox'[m].status = outbox[m].status
  BY <1>1, <1>3 DEF Due, SettledStatus
<1>8. QED
  BY <1>4, <1>5, <1>6, <1>7 DEF OutboxInv

\* Settling a row: only a SENDING row changes, to what the answer stands for.
LEMMA SettleStep ==
  ASSUME OutboxInv, NEW w \in Worker, Settle(w)
  PROVE  OutboxInv' /\ \A n \in Notification :
           outbox[n].status \in SettledStatus => outbox'[n].status = outbox[n].status
<1> DEFINE n == sending[w]
<1>1. n \in Notification /\ n # Nothing
  BY OutboxAssumption DEF Settle, OutboxInv, TypeOK
<1> HIDE DEF n
<1>2. /\ outbox[n] \in Row /\ outbox[n].attempts \in Nat /\ attempt[w] \in Nat
      /\ attempt[w] <= outbox[n].attempts
      /\ result[w] = "SUCCESS" => n \in delivered
  BY <1>1 DEF n, OutboxInv, InFlightFacts, TypeOK, Row
<1>3. /\ StatusAfter(w) \in {"SENT", "FAILED", "DEAD_LETTER", "RETRY"}
      /\ StatusAfter(w) = "SENT" => n \in delivered
      /\ StatusAfter(w) = "DEAD_LETTER" => outbox[n].attempts >= MaxAttempts
  BY <1>2, OutboxAssumption DEF StatusAfter, Exhausted
<1>4. \/ outbox' = outbox
      \/ /\ outbox[n].status = "SENDING"
         /\ outbox'[n] \in Row /\ outbox'[n].attempts = outbox[n].attempts
         /\ outbox'[n].status = StatusAfter(w)
         /\ outbox' \in [Notification -> Row]
         /\ \A m \in Notification \ {n} : outbox'[m] = outbox[m]
  <2>1. CASE outbox' = outbox
    BY <2>1
  <2>2. CASE /\ Settleable(n) /\ StatusAfter(w) # "RETRY"
             /\ outbox' = [outbox EXCEPT ![n] = [outbox[n] EXCEPT !.status = StatusAfter(w)]]
    <3>1. StatusAfter(w) \in RowStatus
      BY <1>3 DEF RowStatus
    <3>2. [outbox[n] EXCEPT !.status = StatusAfter(w)] \in Row
      BY <1>2, <3>1, RowWrites
    <3>3. outbox \in [Notification -> Row]
      BY DEF OutboxInv, TypeOK
    <3>4. QED
      BY <1>1, <1>2, <2>2, <3>2, <3>3 DEF Settleable, Row
  <2>3. CASE /\ Settleable(n) /\ StatusAfter(w) = "RETRY"
             /\ \E delay \in 1..MaxBackoff :
                  outbox' = [outbox EXCEPT ![n] =
                               [outbox[n] EXCEPT !.status = "RETRY", !.wait = delay]]
    <3>1. PICK delay \in 1..MaxBackoff :
            outbox' = [outbox EXCEPT ![n] =
                         [outbox[n] EXCEPT !.status = "RETRY", !.wait = delay]]
      BY <2>3
    <3>2. delay \in Nat /\ "RETRY" \in RowStatus
      BY OutboxAssumption DEF RowStatus
    <3>3. [outbox[n] EXCEPT !.status = "RETRY", !.wait = delay] \in Row
      BY <1>2, <3>2, RowWrites
    <3>4. outbox \in [Notification -> Row]
      BY DEF OutboxInv, TypeOK
    <3>5. QED
      BY <1>1, <1>2, <2>3, <3>1, <3>3, <3>4 DEF Settleable, Row
  <2>4. QED
    BY <2>1, <2>2, <2>3 DEF Settle, n
<1>5. /\ sending'[w] = Nothing /\ result'[w] = "NONE"
      /\ \A v \in Worker \ {w} : /\ sending'[v] = sending[v] /\ attempt'[v] = attempt[v]
                                 /\ result'[v] = result[v]
      /\ sending' \in [Worker -> Notification \cup {Nothing}]
      /\ attempt' \in [Worker -> Nat]
      /\ result' \in [Worker -> SendResult \cup {"NONE"}]
      /\ UNCHANGED <<delivered, crashes>>
  BY DEF Settle, OutboxInv, TypeOK
<1>6. TypeOK'
  BY <1>4, <1>5 DEF OutboxInv, TypeOK
<1>7. SettledHonestly'
  BY <1>3, <1>4, <1>5 DEF OutboxInv, SettledHonestly
<1>8. InFlightFacts'
  <2> SUFFICES ASSUME NEW v \in Worker, sending'[v] # Nothing
               PROVE  /\ outbox'[sending'[v]].status # "ABSENT"
                      /\ attempt'[v] <= outbox'[sending'[v]].attempts
                      /\ result'[v] = "SUCCESS" => sending'[v] \in delivered'
    BY DEF InFlightFacts
  <2>1. v # w /\ sending[v] \in Notification /\ sending'[v] = sending[v]
    BY <1>5 DEF OutboxInv, TypeOK
  <2>2. /\ outbox'[sending[v]].attempts = outbox[sending[v]].attempts
        /\ outbox[sending[v]].status # "ABSENT" => outbox'[sending[v]].status # "ABSENT"
    BY <1>3, <1>4, <2>1
  <2>3. QED
    BY <1>5, <2>1, <2>2 DEF OutboxInv, InFlightFacts
<1>9. \A m \in Notification :
        outbox[m].status \in SettledStatus => outbox'[m].status = outbox[m].status
  BY <1>4 DEF SettledStatus
<1>10. QED
  BY <1>6, <1>7, <1>8, <1>9 DEF OutboxInv

\* Enqueueing a notification: the key was absent, so no worker holds its row.
LEMMA EnqueueStep ==
  ASSUME OutboxInv, NEW n \in Notification, Enqueue(n),
         IsFiniteSet(Notification)
  PROVE  OutboxInv' /\ \A m \in Notification :
           outbox[m].status \in SettledStatus => outbox'[m].status = outbox[m].status
<1>1. Cardinality(Queued) \in Nat
  BY FS_Subset, FS_CardinalityType DEF Queued
<1>2. /\ outbox'[n] \in Row /\ outbox'[n].status = "PENDING"
      /\ outbox' \in [Notification -> Row]
      /\ \A m \in Notification \ {n} : outbox'[m] = outbox[m]
  BY <1>1 DEF Enqueue, OutboxInv, TypeOK, Row, RowStatus
<1>3. TypeOK'
  BY <1>2 DEF Enqueue, OutboxInv, TypeOK
<1>4. SettledHonestly'
  BY <1>2 DEF Enqueue, OutboxInv, SettledHonestly
<1>5. InFlightFacts'
  <2> SUFFICES ASSUME NEW v \in Worker, sending[v] # Nothing
               PROVE  /\ outbox'[sending[v]].status # "ABSENT"
                      /\ attempt[v] <= outbox'[sending[v]].attempts
                      /\ result[v] = "SUCCESS" => sending[v] \in delivered
    BY DEF InFlightFacts, Enqueue
  <2>1. sending[v] \in Notification \ {n}
    BY DEF Enqueue, OutboxInv, InFlightFacts, TypeOK
  <2>2. QED
    BY <1>2, <2>1 DEF OutboxInv, InFlightFacts
<1>6. \A m \in Notification :
        outbox[m].status \in SettledStatus => outbox'[m].status = outbox[m].status
  BY <1>2 DEF Enqueue, SettledStatus
<1>7. QED
  BY <1>3, <1>4, <1>5, <1>6 DEF OutboxInv

\* The answer of the sender: a success is a delivery of the row in hand.
LEMMA SendStep ==
  ASSUME OutboxInv, NEW w \in Worker, Send(w)
  PROVE  OutboxInv' /\ outbox' = outbox
<1>1. PICK r \in SendResult, arrived \in BOOLEAN :
        /\ r = "SUCCESS" => arrived
        /\ result' = [result EXCEPT ![w] = r]
        /\ delivered' = IF arrived THEN delivered \cup {sending[w]} ELSE delivered
  BY DEF Send
<1>2. /\ sending[w] \in Notification
      /\ delivered \subseteq delivered' /\ delivered' \in SUBSET Notification
      /\ result'[w] = "SUCCESS" => sending[w] \in delivered'
      /\ \A v \in Worker \ {w} : result'[v] = result[v]
      /\ result' \in [Worker -> SendResult \cup {"NONE"}]
  BY <1>1 DEF Send, OutboxInv, TypeOK
<1>3. TypeOK'
  BY <1>2 DEF Send, OutboxInv, TypeOK
<1>4. SettledHonestly'
  BY <1>2 DEF Send, OutboxInv, SettledHonestly
<1>5. InFlightFacts'
  BY <1>2 DEF Send, OutboxInv, InFlightFacts
<1>6. QED
  BY <1>3, <1>4, <1>5 DEF Send, OutboxInv

\* A crash: the row keeps its lease, the worker forgets what it was doing.
LEMMA CrashStep ==
  ASSUME OutboxInv, NEW w \in Worker, Crash(w)
  PROVE  OutboxInv' /\ outbox' = outbox
<1>1. /\ sending'[w] = Nothing /\ result'[w] = "NONE"
      /\ \A v \in Worker \ {w} : /\ sending'[v] = sending[v] /\ attempt'[v] = attempt[v]
                                 /\ result'[v] = result[v]
      /\ sending' \in [Worker -> Notification \cup {Nothing}]
      /\ attempt' \in [Worker -> Nat]
      /\ result' \in [Worker -> SendResult \cup {"NONE"}]
      /\ outbox' = outbox /\ delivered' = delivered /\ crashes' \in Nat
  BY OutboxAssumption DEF Crash, OutboxInv, TypeOK
<1>2. TypeOK'
  BY <1>1 DEF OutboxInv, TypeOK
<1>3. SettledHonestly'
  BY <1>1 DEF OutboxInv, SettledHonestly
<1>4. InFlightFacts'
  BY <1>1 DEF OutboxInv, InFlightFacts
<1>5. QED
  BY <1>1, <1>2, <1>3, <1>4 DEF OutboxInv

\* Time only shortens waits.
LEMMA TickStep ==
  ASSUME OutboxInv, Tick
  PROVE  OutboxInv' /\ \A n \in Notification :
           outbox[n].status \in SettledStatus => outbox'[n].status = outbox[n].status
<1>1. \A n \in Notification : /\ outbox'[n] \in Row
                              /\ outbox'[n].status = outbox[n].status
                              /\ outbox'[n].attempts = outbox[n].attempts
  BY DEF Tick, OutboxInv, TypeOK, Row
<1>2. outbox' \in [Notification -> Row]
  BY <1>1 DEF Tick
<1>3. TypeOK'
  BY <1>2 DEF Tick, OutboxInv, TypeOK
<1>4. SettledHonestly'
  BY <1>1 DEF Tick, OutboxInv, SettledHonestly
<1>5. InFlightFacts'
  BY <1>1 DEF Tick, OutboxInv, InFlightFacts, TypeOK
<1>6. QED
  BY <1>1, <1>3, <1>4, <1>5 DEF OutboxInv

\* Every step preserves the invariant and every settled status.
LEMMA OutboxStep ==
  ASSUME IsFiniteSet(Notification), OutboxInv, [Next]_vars
  PROVE  OutboxInv' /\ \A n \in Notification :
           outbox[n].status \in SettledStatus => outbox'[n].status = outbox[n].status
<1>1. CASE \E n \in Notification : Enqueue(n)
  BY <1>1, EnqueueStep
<1>2. ASSUME NEW w \in Worker, Take(w) \/ Send(w) \/ Settle(w) \/ Crash(w)
      PROVE  OutboxInv' /\ \A n \in Notification :
           outbox[n].status \in SettledStatus => outbox'[n].status = outbox[n].status
  BY <1>2, TakeStep, SendStep, SettleStep, CrashStep
<1>3. CASE Tick
  BY <1>3, TickStep
<1>4. CASE UNCHANGED vars
  BY <1>4 DEF vars, OutboxInv, TypeOK, SettledHonestly, InFlightFacts
<1>5. QED
  BY <1>1, <1>2, <1>3, <1>4 DEF Next

\* No row is settled in the initial state and no worker holds one.
LEMMA OutboxInit ==
  ASSUME Init
  PROVE  OutboxInv
BY OutboxAssumption DEF Init, OutboxInv, TypeOK, SettledHonestly, InFlightFacts,
   AbsentRow, Row, RowStatus

\* The variables keep their types, and a worker with an answer has a row.
THEOREM OutboxTypeCorrect == IsFiniteSet(Notification) => (Spec => []TypeOK)
<1>1. SUFFICES ASSUME IsFiniteSet(Notification)
               PROVE  Spec => []TypeOK
  OBVIOUS
<1>2. Init => OutboxInv
  BY OutboxInit
<1>3. OutboxInv /\ [Next]_vars => OutboxInv'
  BY <1>1, OutboxStep
<1>4. OutboxInv => TypeOK
  BY DEF OutboxInv
<1>5. QED
  BY <1>2, <1>3, <1>4, PTL DEF Spec

\* SENT rows were delivered and DEAD_LETTER rows were tried max_attempts times,
\* for any number of overlapping workers and crashes.
THEOREM SettlementIsHonest == IsFiniteSet(Notification) => (Spec => []SettledHonestly)
<1>1. SUFFICES ASSUME IsFiniteSet(Notification)
               PROVE  Spec => []SettledHonestly
  OBVIOUS
<1>2. Init => OutboxInv
  BY OutboxInit
<1>3. OutboxInv /\ [Next]_vars => OutboxInv'
  BY <1>1, OutboxStep
<1>4. OutboxInv => SettledHonestly
  BY DEF OutboxInv
<1>5. QED
  BY <1>2, <1>3, <1>4, PTL DEF Spec

\* No late answer of a worker that lost its lease reopens a settled row.
THEOREM SettlementIsFinal == IsFiniteSet(Notification) => (Spec => SettledForGood)
<1>1. SUFFICES ASSUME IsFiniteSet(Notification)
               PROVE  Spec => SettledForGood
  OBVIOUS
<1>2. Init => OutboxInv
  BY OutboxInit
<1>3. OutboxInv /\ [Next]_vars =>
        /\ OutboxInv'
        /\ [\A n \in Notification : outbox[n].status \in SettledStatus =>
              outbox'[n].status = outbox[n].status]_vars
  BY <1>1, OutboxStep
<1>4. QED
  BY <1>2, <1>3, PTL DEF Spec, SettledForGood
-----------------------------------------------------------------------------
(* How far attempts can pass max_attempts.  _record compares the attempt a    *)
(* worker made with the maximum, so a worker with an earlier attempt, an      *)
(* early one, may still put the row into RETRY; while it stays there the      *)
(* answers of the others, the late ones, are dropped, and they take the row   *)
(* again.  Each early worker does this at most once.                          *)

W == Cardinality(Worker)

Early(n) == {w \in Worker : sending[w] = n /\ attempt[w] < MaxAttempts}
Late(n) == {w \in Worker : sending[w] = n /\ attempt[w] >= MaxAttempts}

\* Twice the attempts still possible with e early workers and no late one:
\* W + (W - 1) + ... + (W - e).
Reserve(e) == (e + 1) * (2 * W - e)

\* Twice the attempts ever possible.
Budget == 2 * (MaxAttempts - 1) + 2 * crashes + W * (W + 1)

\* From max_attempts on, the attempts made and those still possible stay within
\* the budget; a late worker that holds a SENDING row will settle it for good.
WithinBudget(n) ==
    outbox[n].attempts >= MaxAttempts =>
        /\ outbox[n].status \in SettledStatus => 2 * outbox[n].attempts <= Budget
        /\ outbox[n].status = "SENDING" =>
             2 * outbox[n].attempts + Reserve(Cardinality(Early(n)))
               <= Budget + 2 * Cardinality(Late(n))
        /\ outbox[n].status \notin SettledStatus \cup {"SENDING"} =>
             2 * outbox[n].attempts + Reserve(Cardinality(Early(n))) <= Budget

BoundInv == OutboxInv /\ \A n \in Notification : WithinBudget(n)

\* The arithmetic of the reserve, with k workers.
LEMMA ReserveStep ==
  ASSUME NEW k \in Nat, NEW e \in Nat
  PROVE  (e + 2) * (2 * k - (e + 1)) = (e + 1) * (2 * k - e) + 2 * (k - (e + 1))
BY SMTT(30)

\* A product of two naturals is one.
LEMMA ProductNat ==
  ASSUME NEW a \in Nat, NEW b \in Nat
  PROVE  a * b \in Nat
BY SMTT(30)

\* No number of early workers reserves more than all workers but one.
LEMMA ReserveTop ==
  ASSUME NEW k \in Nat, NEW e \in Nat, e <= k
  PROVE  (e + 1) * (2 * k - e) <= k * (k + 1)
<1>1. PICK d \in Nat : k = e + d
  <2>1. k - e \in Nat /\ k = e + (k - e)
    OBVIOUS
  <2>2. QED
    BY <2>1
<1>2. (e + 1) * (2 * k - e) + (d * d - d) = k * (k + 1)
  BY <1>1, SMTT(30)
<1>3. d * d - d >= 0
  <2>1. CASE d = 0
    BY <2>1
  <2>2. CASE d # 0
    <3>1. d - 1 \in Nat
      BY <2>2
    <3>2. d * (d - 1) \in Nat
      BY <3>1, ProductNat
    <3>3. d * (d - 1) = d * d - d
      BY SMTT(30)
    <3>4. QED
      BY <3>2, <3>3
  <2>3. QED
    BY <2>1, <2>2
<1>4. /\ (e + 1) * (2 * k - e) \in Int /\ d * d - d \in Int /\ k * (k + 1) \in Int
  OBVIOUS
<1>5. QED
  BY <1>2, <1>3, <1>4

\* The reserve covers the workers that are not early.
LEMMA ReserveCovers ==
  ASSUME NEW k \in Nat, NEW e \in Nat, NEW l \in Nat, e + l <= k
  PROVE  2 * l <= (e + 1) * (2 * k - e)
<1>1. 2 * k - e \in Nat /\ 2 * k - e >= 2 * l
  OBVIOUS
<1>2. e * (2 * k - e) \in Nat
  BY <1>1, ProductNat
<1>3. (e + 1) * (2 * k - e) = e * (2 * k - e) + (2 * k - e)
  BY SMTT(30)
<1>4. QED
  BY <1>1, <1>2, <1>3

\* Two disjoint parts of the workers.
LEMMA DisjointCrews ==
  ASSUME IsFiniteSet(Worker), NEW E, NEW L, E \subseteq Worker, L \subseteq Worker, E \cap L = {}
  PROVE  /\ IsFiniteSet(E) /\ IsFiniteSet(L)
         /\ Cardinality(E) \in Nat /\ Cardinality(L) \in Nat /\ W \in Nat
         /\ Cardinality(E) + Cardinality(L) <= W
<1>1. /\ IsFiniteSet(E) /\ IsFiniteSet(L) /\ IsFiniteSet(E \cup L)
      /\ Cardinality(E) \in Nat /\ Cardinality(L) \in Nat /\ W \in Nat
  BY FS_Subset, FS_CardinalityType DEF W
<1>2. Cardinality(E \cup L) = Cardinality(E) + Cardinality(L) - Cardinality({})
  BY <1>1, FS_Union
<1>3. Cardinality({}) = 0
  BY FS_EmptySet
<1>4. E \cup L \subseteq Worker
  OBVIOUS
<1>5. Cardinality(E \cup L) <= W
  BY <1>4, FS_Subset DEF W
<1>6. QED
  BY <1>1, <1>2, <1>3, <1>5

\* Early and late workers are such parts, before and after a step.
LEMMA CrewCounted ==
  ASSUME IsFiniteSet(Worker), NEW n
  PROVE  /\ TypeOK =>
              /\ IsFiniteSet(Early(n)) /\ IsFiniteSet(Late(n))
              /\ Cardinality(Early(n)) \in Nat /\ Cardinality(Late(n)) \in Nat /\ W \in Nat
              /\ Cardinality(Early(n)) + Cardinality(Late(n)) <= W
         /\ TypeOK' =>
              /\ Cardinality(Early(n)') \in Nat /\ Cardinality(Late(n)') \in Nat
              /\ Cardinality(Early(n)') + Cardinality(Late(n)') <= W
<1>1. ASSUME TypeOK PROVE Early(n) \cap Late(n) = {}
  BY <1>1, OutboxAssumption DEF Early, Late, TypeOK
<1>2. ASSUME TypeOK' PROVE Early(n)' \cap Late(n)' = {}
  BY <1>2, OutboxAssumption DEF Early, Late, TypeOK
<1>3. /\ Early(n) \subseteq Worker /\ Late(n) \subseteq Worker
      /\ Early(n)' \subseteq Worker /\ Late(n)' \subseteq Worker
  BY DEF Early, Late
<1>4. QED
  BY <1>1, <1>2, <1>3, DisjointCrews

\* What the invariant says, in numbers: the attempts a, the status s of a row, e early
\* and l late workers on it, c crashes, k workers.
Within(a, s, e, l, c, k) ==
    a >= MaxAttempts =>
        /\ s \in SettledStatus =>
             2 * a <= 2 * (MaxAttempts - 1) + 2 * c + k * (k + 1)
        /\ s = "SENDING" =>
             2 * a + (e + 1) * (2 * k - e)
               <= 2 * (MaxAttempts - 1) + 2 * c + k * (k + 1) + 2 * l
        /\ s \notin SettledStatus \cup {"SENDING"} =>
             2 * a + (e + 1) * (2 * k - e) <= 2 * (MaxAttempts - 1) + 2 * c + k * (k + 1)

\* The invariant of a row, spelled out.
LEMMA WithinIsNumbers ==
  ASSUME NEW n
  PROVE  WithinBudget(n) <=>
           Within(outbox[n].attempts, outbox[n].status, Cardinality(Early(n)),
                  Cardinality(Late(n)), crashes, W)
BY DEF WithinBudget, Within, Reserve, Budget

\* A row that is taken counts one more attempt and has one more worker: a late one,
\* the first to be late when the maximum is reached.
LEMMA TakeNumbers ==
  ASSUME NEW a \in Nat, NEW s \in RowStatus \ SettledStatus, NEW e \in Nat, NEW l \in Nat,
         NEW c \in Nat, NEW k \in Nat, NEW f \in Nat, NEW m \in Nat,
         Within(a, s, e, l, c, k), f + m <= k,
         a + 1 >= MaxAttempts => f = e /\ m = l + 1
  PROVE  Within(a + 1, "SENDING", f, m, c, k)
<1> DEFINE R == (e + 1) * (2 * k - e)
           T == k * (k + 1)
<1>1. MaxAttempts \in Nat \ {0} /\ "SENDING" \notin SettledStatus
  BY OutboxAssumption DEF SettledStatus
<1>2. SUFFICES ASSUME a + 1 >= MaxAttempts
               PROVE  2 * (a + 1) + R <= 2 * (MaxAttempts - 1) + 2 * c + T + 2 * (l + 1)
  BY <1>1 DEF Within
<1>3. R \in Int /\ T \in Nat /\ R <= T
  <2>1. e <= k
    BY <1>2
  <2>2. R <= T
    BY <2>1, ReserveTop
  <2>3. T \in Nat
    BY ProductNat
  <2>4. R \in Int
    OBVIOUS
  <2>5. QED
    BY <2>2, <2>3, <2>4
<1>4. CASE a < MaxAttempts
  <2> HIDE DEF R, T
  <2>1. QED
    BY <1>1, <1>2, <1>3, <1>4
<1>5. CASE a >= MaxAttempts
  <2>1. 2 * a + R <= 2 * (MaxAttempts - 1) + 2 * c + T + 2 * l
    <3>1. CASE s = "SENDING"
      BY <1>5, <3>1 DEF Within
    <3>2. CASE s # "SENDING"
      <4>1. 2 * a + R <= 2 * (MaxAttempts - 1) + 2 * c + T
        BY <1>5, <3>2 DEF Within
      <4> HIDE DEF R, T
      <4>2. QED
        BY <1>1, <1>3, <4>1
    <3>3. QED
      BY <3>1, <3>2
  <2> HIDE DEF R, T
  <2>2. QED
    BY <1>1, <1>3, <2>1
<1>6. QED
  BY <1>1, <1>4, <1>5

\* A worker that leaves a row it did not change, early or late: after a crash, which
\* the budget pays for, or because the row is not SENDING.
LEMMA LeaveNumbers ==
  ASSUME NEW a \in Nat, NEW s \in RowStatus, NEW e \in Nat, NEW l \in Nat,
         NEW c \in Nat, NEW k \in Nat, NEW f \in Nat, NEW m \in Nat, NEW d \in Nat,
         Within(a, s, e, l, c, k), e + l <= k,
         \/ e = f + 1 /\ m = l
         \/ e = f /\ l = m + 1,
         d = c + 1 \/ (d = c /\ s # "SENDING")
  PROVE  Within(a, s, f, m, d, k)
<1> DEFINE R == (e + 1) * (2 * k - e)
           S == (f + 1) * (2 * k - f)
           T == k * (k + 1)
<1>1. MaxAttempts \in Nat \ {0}
  BY OutboxAssumption
<1>2. S <= R /\ S \in Int /\ R \in Int /\ T \in Int
  <2>1. CASE e = f
    BY <2>1
  <2>2. CASE e = f + 1
    <3>1. (f + 2) * (2 * k - (f + 1)) = S + 2 * (k - (f + 1))
      BY ReserveStep
    <3>2. R = (f + 2) * (2 * k - (f + 1))
      BY <2>2
    <3>3. S \in Int /\ R \in Int /\ T \in Int /\ k - (f + 1) >= 0
      BY <2>2
    <3> HIDE DEF R, S
    <3>4. QED
      BY <3>1, <3>2, <3>3
  <2>3. QED
    BY <2>1, <2>2
<1>3. SUFFICES ASSUME a >= MaxAttempts
      PROVE  /\ s \in SettledStatus => 2 * a <= 2 * (MaxAttempts - 1) + 2 * d + T
             /\ s = "SENDING" => 2 * a + S <= 2 * (MaxAttempts - 1) + 2 * d + T + 2 * m
             /\ s \notin SettledStatus \cup {"SENDING"} =>
                  2 * a + S <= 2 * (MaxAttempts - 1) + 2 * d + T
  BY DEF Within
<1>4. /\ s \in SettledStatus => 2 * a <= 2 * (MaxAttempts - 1) + 2 * c + T
      /\ s = "SENDING" => 2 * a + R <= 2 * (MaxAttempts - 1) + 2 * c + T + 2 * l
      /\ s \notin SettledStatus \cup {"SENDING"} =>
           2 * a + R <= 2 * (MaxAttempts - 1) + 2 * c + T
  BY <1>3 DEF Within
<1> HIDE DEF R, S, T
<1>5. QED
  BY <1>1, <1>2, <1>3, <1>4

\* A worker whose answer settles a SENDING row, or, an early one, puts it into RETRY.
LEMMA SettleNumbers ==
  ASSUME NEW a \in Nat, NEW s \in RowStatus, NEW e \in Nat, NEW l \in Nat,
         NEW c \in Nat, NEW k \in Nat, NEW f \in Nat, NEW m \in Nat,
         Within(a, "SENDING", e, l, c, k), e + l <= k,
         \/ s \in SettledStatus
         \/ s = "RETRY" /\ e = f + 1
  PROVE  Within(a, s, f, m, c, k)
<1> DEFINE R == (e + 1) * (2 * k - e)
           S == (f + 1) * (2 * k - f)
           T == k * (k + 1)
<1>1. MaxAttempts \in Nat \ {0} /\ "SENDING" \notin SettledStatus /\ "RETRY" \notin SettledStatus
  BY OutboxAssumption DEF SettledStatus
<1>2. ASSUME a >= MaxAttempts
      PROVE  2 * a + R <= 2 * (MaxAttempts - 1) + 2 * c + T + 2 * l
  BY <1>2 DEF Within
<1>3. R \in Int /\ S \in Int /\ T \in Int
  OBVIOUS
<1>4. CASE s \in SettledStatus
  <2>1. 2 * l <= R
    BY ReserveCovers
  <2>2. a >= MaxAttempts => 2 * a <= 2 * (MaxAttempts - 1) + 2 * c + T
    <3> HIDE DEF R, S, T
    <3>1. QED
      BY <1>1, <1>2, <1>3, <2>1
  <2>3. QED
    BY <1>1, <1>4, <2>2 DEF Within
<1>5. CASE s = "RETRY" /\ e = f + 1
  <2>1. (f + 2) * (2 * k - (f + 1)) = S + 2 * (k - (f + 1))
    BY ReserveStep
  <2>2. R = (f + 2) * (2 * k - (f + 1))
    BY <1>5
  <2>3. a >= MaxAttempts => 2 * a + S <= 2 * (MaxAttempts - 1) + 2 * c + T
    <3> HIDE DEF R, S, T
    <3>1. QED
      BY <1>1, <1>2, <1>3, <1>5, <2>1, <2>2
  <2>4. QED
    BY <1>1, <1>5, <2>3 DEF Within
<1>6. QED
  BY <1>4, <1>5

\* The same, after a step.
LEMMA WithinIsNumbersNext ==
  ASSUME NEW n
  PROVE  WithinBudget(n)' <=>
           Within(outbox'[n].attempts, outbox'[n].status, Cardinality(Early(n)'),
                  Cardinality(Late(n)'), crashes', W)
BY DEF WithinBudget, Within, Reserve, Budget, W

\* The columns of a row and the crews on it have the types the numbers need.
LEMMA NumbersTyped ==
  ASSUME IsFiniteSet(Worker), TypeOK, NEW n \in Notification
  PROVE  /\ outbox[n].attempts \in Nat /\ outbox[n].status \in RowStatus
         /\ crashes \in Nat /\ MaxAttempts \in Nat \ {0}
         /\ Cardinality(Early(n)) \in Nat /\ Cardinality(Late(n)) \in Nat /\ W \in Nat
         /\ Cardinality(Early(n)) + Cardinality(Late(n)) <= W
<1>1. outbox[n] \in Row /\ crashes \in Nat
  BY DEF TypeOK
<1>2. outbox[n].attempts \in Nat /\ outbox[n].status \in RowStatus
  BY <1>1 DEF Row
<1>3. QED
  BY <1>1, <1>2, CrewCounted, OutboxAssumption

\* A step that leaves a row's columns and crew alone.
LEMMA RowUntouched ==
  ASSUME NEW n, WithinBudget(n), Early(n)' = Early(n), Late(n)' = Late(n),
         outbox'[n].attempts = outbox[n].attempts, outbox'[n].status = outbox[n].status,
         crashes' = crashes
  PROVE  WithinBudget(n)'
BY WithinIsNumbers, WithinIsNumbersNext

\* A worker that starts or ends a call leaves the crews of other rows alone.
LEMMA OtherCrews ==
  ASSUME NEW w \in Worker, NEW n,
         \A v \in Worker \ {w} : sending'[v] = sending[v] /\ attempt'[v] = attempt[v],
         sending[w] # n, sending'[w] # n
  PROVE  Early(n)' = Early(n) /\ Late(n)' = Late(n)
BY DEF Early, Late

\* Taking a row stays within the budget.
LEMMA TakeWithin ==
  ASSUME IsFiniteSet(Worker), BoundInv, OutboxInv', NEW w \in Worker, Take(w)
  PROVE  \A m \in Notification : WithinBudget(m)'
<1>1. PICK n \in Notification :
        /\ Due(n)
        /\ outbox' = [outbox EXCEPT ![n] =
              [outbox[n] EXCEPT !.status = "SENDING", !.attempts = outbox[n].attempts + 1,
                                !.wait = SendingLease]]
        /\ sending' = [sending EXCEPT ![w] = n]
        /\ attempt' = [attempt EXCEPT ![w] = outbox[n].attempts + 1]
  BY ZenonT(30) DEF Take
<1>2. /\ TypeOK /\ TypeOK' /\ crashes' = crashes /\ sending[w] = Nothing
      /\ Nothing \notin Notification
  BY OutboxAssumption DEF Take, BoundInv, OutboxInv
<1>3. /\ outbox'[n].status = "SENDING" /\ outbox'[n].attempts = outbox[n].attempts + 1
      /\ \A m \in Notification \ {n} : outbox'[m] = outbox[m]
      /\ sending'[w] = n /\ attempt'[w] = outbox[n].attempts + 1
      /\ \A v \in Worker \ {w} : sending'[v] = sending[v] /\ attempt'[v] = attempt[v]
  BY <1>1, <1>2 DEF TypeOK, Row
<1>4. ASSUME NEW m \in Notification, m # n PROVE WithinBudget(m)'
  <2>1. Early(m)' = Early(m) /\ Late(m)' = Late(m)
    BY <1>2, <1>3, <1>4, OtherCrews
  <2>2. QED
    BY <1>2, <1>3, <1>4, <2>1, RowUntouched DEF BoundInv
<1>5. WithinBudget(n)'
  <2> DEFINE a == outbox[n].attempts
             e == Cardinality(Early(n))
             l == Cardinality(Late(n))
             f == Cardinality(Early(n)')
             m == Cardinality(Late(n)')
  <2>1. /\ a \in Nat /\ e \in Nat /\ l \in Nat /\ W \in Nat /\ crashes \in Nat
        /\ MaxAttempts \in Nat \ {0} /\ outbox[n].status \in RowStatus \ SettledStatus
    BY <1>1, <1>2, NumbersTyped DEF Due, SettledStatus
  <2>2. f \in Nat /\ m \in Nat /\ f + m <= W
    BY <1>2, CrewCounted
  <2>3. ASSUME a + 1 >= MaxAttempts PROVE f = e /\ m = l + 1
    <3>1. Early(n)' = Early(n)
      BY <1>2, <1>3, <2>1, <2>3 DEF Early
    <3>2. Late(n)' = Late(n) \cup {w} /\ w \notin Late(n)
      BY <1>2, <1>3, <2>1, <2>3 DEF Late
    <3>3. IsFiniteSet(Late(n))
      BY <1>2, CrewCounted
    <3>4. QED
      BY <3>1, <3>2, <3>3, FS_AddElement
  <2>4. Within(a, outbox[n].status, e, l, crashes, W)
    BY WithinIsNumbers DEF BoundInv
  <2> HIDE DEF a, e, l, f, m
  <2>5. Within(a + 1, "SENDING", f, m, crashes, W)
    BY <2>1, <2>2, <2>3, <2>4, TakeNumbers
  <2>6. QED
    BY <1>2, <1>3, <2>5, WithinIsNumbersNext DEF a, f, m
<1>6. QED
  BY <1>4, <1>5

\* A worker that ends its call leaves the crew it was in, early or late.
LEMMA LeavesCrew ==
  ASSUME IsFiniteSet(Worker), TypeOK, NEW w \in Worker, NEW n \in Notification,
         sending[w] = n, sending'[w] = Nothing,
         \A v \in Worker \ {w} : sending'[v] = sending[v] /\ attempt'[v] = attempt[v]
  PROVE  /\ Cardinality(Early(n)') \in Nat /\ Cardinality(Late(n)') \in Nat
         /\ IF attempt[w] < MaxAttempts
            THEN /\ Cardinality(Early(n)) = Cardinality(Early(n)') + 1
                 /\ Cardinality(Late(n)) = Cardinality(Late(n)')
            ELSE /\ Cardinality(Early(n)) = Cardinality(Early(n)')
                 /\ Cardinality(Late(n)) = Cardinality(Late(n)') + 1
<1>1. /\ attempt[w] \in Nat /\ MaxAttempts \in Nat /\ n # Nothing
      /\ IsFiniteSet(Early(n)) /\ IsFiniteSet(Late(n))
  BY CrewCounted, OutboxAssumption DEF TypeOK
<1>2. Early(n)' = Early(n) \ {w} /\ Late(n)' = Late(n) \ {w}
  BY <1>1 DEF Early, Late
<1>3. /\ IsFiniteSet(Early(n)') /\ IsFiniteSet(Late(n)')
      /\ Cardinality(Early(n)') \in Nat /\ Cardinality(Late(n)') \in Nat
  BY <1>1, <1>2, FS_Subset, FS_CardinalityType
<1>4. CASE attempt[w] < MaxAttempts
  <2>1. w \in Early(n) /\ w \notin Late(n)
    BY <1>1, <1>4 DEF Early, Late
  <2>2. Early(n) = Early(n)' \cup {w} /\ w \notin Early(n)' /\ Late(n)' = Late(n)
    BY <1>2, <2>1
  <2>3. QED
    BY <1>3, <1>4, <2>2, FS_AddElement
<1>5. CASE ~(attempt[w] < MaxAttempts)
  <2>1. w \in Late(n) /\ w \notin Early(n)
    BY <1>1, <1>5 DEF Early, Late
  <2>2. Late(n) = Late(n)' \cup {w} /\ w \notin Late(n)' /\ Early(n)' = Early(n)
    BY <1>2, <2>1
  <2>3. QED
    BY <1>3, <1>5, <2>2, FS_AddElement
<1>6. QED
  BY <1>4, <1>5

\* The writes of the second transaction.
LEMMA SettleWrites ==
  ASSUME NEW w \in Worker, Settle(w)
  PROVE  /\ result[w] # "NONE" /\ UNCHANGED <<delivered, crashes>>
         /\ sending' = [sending EXCEPT ![w] = Nothing]
         /\ attempt' = [attempt EXCEPT ![w] = 0]
         /\ \/ ~Settleable(sending[w]) /\ outbox' = outbox
            \/ \E d \in Nat :
                 /\ Settleable(sending[w])
                 /\ outbox' = [outbox EXCEPT ![sending[w]] =
                       [outbox[sending[w]] EXCEPT !.status = StatusAfter(w), !.wait = d]]
            \/ /\ Settleable(sending[w])
               /\ outbox' = [outbox EXCEPT ![sending[w]] =
                     [outbox[sending[w]] EXCEPT !.status = StatusAfter(w)]]
<1>1. 1..MaxBackoff \subseteq Nat
  OBVIOUS
<1>2. QED
  BY <1>1, ZenonT(30) DEF Settle

\* Settling a row stays within the budget: only an early worker can reopen it.
LEMMA SettleWithin ==
  ASSUME IsFiniteSet(Worker), BoundInv, NEW w \in Worker, Settle(w)
  PROVE  \A m \in Notification : WithinBudget(m)'
<1>0. TypeOK /\ Nothing \notin Notification
  BY OutboxAssumption DEF BoundInv, OutboxInv
<1>writes. /\ result[w] # "NONE" /\ crashes' = crashes
      /\ sending' = [sending EXCEPT ![w] = Nothing]
      /\ attempt' = [attempt EXCEPT ![w] = 0]
  BY SettleWrites, Zenon
<1>1. PICK n \in Notification : n = sending[w]
  BY <1>0, <1>writes DEF TypeOK
<1>2. /\ crashes' = crashes /\ sending[w] = n /\ n # Nothing /\ sending'[w] = Nothing
      /\ \A v \in Worker \ {w} : sending'[v] = sending[v] /\ attempt'[v] = attempt[v]
  BY <1>0, <1>1, <1>writes DEF TypeOK
<1>3. \/ outbox' = outbox /\ outbox[n].status # "SENDING"
      \/ /\ outbox[n].status = "SENDING" /\ outbox'[n].attempts = outbox[n].attempts
         /\ outbox'[n].status = StatusAfter(w)
         /\ \A m \in Notification \ {n} : outbox'[m] = outbox[m]
  <2>1. CASE ~Settleable(n) /\ outbox' = outbox
    BY <2>1 DEF Settleable
  <2>2. CASE /\ Settleable(n)
             /\ outbox' = [outbox EXCEPT ![n] = [outbox[n] EXCEPT !.status = StatusAfter(w)]]
    BY <1>0, <2>2 DEF Settleable, TypeOK, Row
  <2>3. ASSUME NEW d \in Nat, Settleable(n),
               outbox' = [outbox EXCEPT ![n] =
                            [outbox[n] EXCEPT !.status = StatusAfter(w), !.wait = d]]
        PROVE  /\ outbox[n].status = "SENDING" /\ outbox'[n].attempts = outbox[n].attempts
               /\ outbox'[n].status = StatusAfter(w)
               /\ \A m \in Notification \ {n} : outbox'[m] = outbox[m]
    BY <1>0, <2>3 DEF Settleable, TypeOK, Row
  <2>4. QED
    <3>1. \/ ~Settleable(n) /\ outbox' = outbox
          \/ \E d \in Nat :
                /\ Settleable(n)
                /\ outbox' = [outbox EXCEPT ![n] =
                      [outbox[n] EXCEPT !.status = StatusAfter(w), !.wait = d]]
          \/ /\ Settleable(n)
             /\ outbox' = [outbox EXCEPT ![n] = [outbox[n] EXCEPT !.status = StatusAfter(w)]]
      BY <1>1, SettleWrites, Zenon
    <3>2. QED
      BY <2>1, <2>2, <2>3, <3>1, Zenon
<1>4. ASSUME NEW m \in Notification, m # n PROVE WithinBudget(m)'
  <2>1. Early(m)' = Early(m) /\ Late(m)' = Late(m)
    BY <1>0, <1>1, <1>2, <1>4, OtherCrews
  <2>2. outbox'[m] = outbox[m]
    BY <1>3, <1>4
  <2>3. QED
    BY <1>0, <1>1, <1>2, <2>1, <2>2, RowUntouched DEF BoundInv
<1>5. WithinBudget(n)'
  <2> DEFINE a == outbox[n].attempts
             e == Cardinality(Early(n))
             l == Cardinality(Late(n))
             f == Cardinality(Early(n)')
             m == Cardinality(Late(n)')
  <2>1. /\ a \in Nat /\ e \in Nat /\ l \in Nat /\ W \in Nat /\ crashes \in Nat
        /\ outbox[n].status \in RowStatus /\ e + l <= W
    BY <1>0, <1>1, <1>2, NumbersTyped
  <2>2. /\ f \in Nat /\ m \in Nat
        /\ IF attempt[w] < MaxAttempts THEN e = f + 1 /\ l = m ELSE e = f /\ l = m + 1
    BY <1>0, <1>1, <1>2, LeavesCrew
  <2>3. Within(a, outbox[n].status, e, l, crashes, W)
    BY <1>0, <1>1, <1>2, WithinIsNumbers DEF BoundInv
  <2>4. \/ StatusAfter(w) \in SettledStatus
        \/ StatusAfter(w) = "RETRY" /\ attempt[w] < MaxAttempts
    BY <1>0, <1>1, <1>2, OutboxAssumption DEF StatusAfter, SettledStatus, Exhausted, TypeOK
  <2> HIDE DEF a, e, l, f, m
  <2>5. CASE outbox' = outbox /\ outbox[n].status # "SENDING"
    <3>1. Within(a, outbox[n].status, f, m, crashes, W)
      BY <2>1, <2>2, <2>3, <2>5, LeaveNumbers
    <3>2. QED
      BY <1>0, <1>1, <1>2, <2>5, <3>1, WithinIsNumbersNext DEF a, f, m
  <2>6. CASE /\ outbox[n].status = "SENDING" /\ outbox'[n].attempts = outbox[n].attempts
             /\ outbox'[n].status = StatusAfter(w)
    <3>1. StatusAfter(w) \in RowStatus
      BY <2>4 DEF SettledStatus, RowStatus
    <3>2. Within(a, StatusAfter(w), f, m, crashes, W)
      BY <2>1, <2>2, <2>3, <2>4, <2>6, <3>1, SettleNumbers
    <3>3. QED
      BY <1>0, <1>1, <1>2, <2>6, <3>2, WithinIsNumbersNext DEF a, f, m
  <2>7. QED
    BY <1>3, <2>5, <2>6
<1>6. QED
  BY <1>4, <1>5

\* A crash stays within the budget it enlarges.
LEMMA CrashWithin ==
  ASSUME IsFiniteSet(Worker), BoundInv, NEW w \in Worker, Crash(w)
  PROVE  \A m \in Notification : WithinBudget(m)'
<1>0. TypeOK /\ Nothing \notin Notification
  BY OutboxAssumption DEF BoundInv, OutboxInv
<1>1. PICK n \in Notification : n = sending[w]
  BY <1>0 DEF Crash, TypeOK
<1>2. /\ crashes' = crashes + 1 /\ sending[w] = n /\ n # Nothing /\ sending'[w] = Nothing
      /\ \A v \in Worker \ {w} : sending'[v] = sending[v] /\ attempt'[v] = attempt[v]
  BY <1>0, <1>1 DEF Crash, TypeOK
<1>3. outbox' = outbox
  BY DEF Crash
<1>4. ASSUME NEW m \in Notification, m # n PROVE WithinBudget(m)'
  <2>1. Early(m)' = Early(m) /\ Late(m)' = Late(m)
    BY <1>0, <1>1, <1>2, <1>3, <1>4, OtherCrews
  <2>2. WithinBudget(m)
    BY DEF BoundInv
  <2> DEFINE e == Cardinality(Early(m))
             R == (e + 1) * (2 * W - e)
             T == W * (W + 1)
  <2>3. /\ crashes \in Nat /\ MaxAttempts \in Nat /\ outbox[m].attempts \in Nat
        /\ e \in Nat /\ Cardinality(Late(m)) \in Nat /\ W \in Nat
    BY <1>0, <1>1, <1>2, <1>3, NumbersTyped
  <2>4. R \in Int /\ T \in Int
    BY <2>3
  <2>5. /\ Budget = 2 * (MaxAttempts - 1) + 2 * crashes + T
        /\ Budget' = 2 * (MaxAttempts - 1) + 2 * (crashes + 1) + T
        /\ Reserve(Cardinality(Early(m))) = R /\ Reserve(Cardinality(Early(m)))' = R
    BY <1>0, <1>1, <1>2, <1>3, <2>1 DEF Budget, Reserve, W
  <2> HIDE DEF e, R, T
  <2>6. QED
    BY <1>0, <1>1, <1>2, <1>3, <2>1, <2>2, <2>3, <2>4, <2>5 DEF WithinBudget
<1>5. WithinBudget(n)'
  <2> DEFINE a == outbox[n].attempts
             e == Cardinality(Early(n))
             l == Cardinality(Late(n))
             f == Cardinality(Early(n)')
             m == Cardinality(Late(n)')
  <2>1. /\ a \in Nat /\ e \in Nat /\ l \in Nat /\ W \in Nat
        /\ crashes \in Nat /\ crashes + 1 \in Nat
        /\ outbox[n].status \in RowStatus /\ e + l <= W
    BY <1>0, <1>1, <1>2, <1>3, NumbersTyped
  <2>2. /\ f \in Nat /\ m \in Nat
        /\ IF attempt[w] < MaxAttempts THEN e = f + 1 /\ l = m ELSE e = f /\ l = m + 1
    BY <1>0, <1>1, <1>2, <1>3, LeavesCrew
  <2>3. Within(a, outbox[n].status, e, l, crashes, W)
    BY <1>0, <1>1, <1>2, <1>3, WithinIsNumbers DEF BoundInv
  <2> HIDE DEF a, e, l, f, m
  <2>4. Within(a, outbox[n].status, f, m, crashes + 1, W)
    BY <2>1, <2>2, <2>3, LeaveNumbers
  <2>5. QED
    BY <1>0, <1>1, <1>2, <1>3, <2>4, WithinIsNumbersNext DEF a, f, m
<1>6. QED
  BY <1>4, <1>5

\* BoundInv is inductive.
LEMMA BoundStep ==
  ASSUME IsFiniteSet(Notification), IsFiniteSet(Worker), BoundInv, [Next]_vars
  PROVE  BoundInv'
<1>1. OutboxInv' /\ TypeOK
  BY OutboxStep DEF BoundInv, OutboxInv
<1>2. ASSUME NEW w \in Worker, Take(w) \/ Settle(w) \/ Crash(w)
      PROVE  \A m \in Notification : WithinBudget(m)'
  BY <1>1, <1>2, TakeWithin, SettleWithin, CrashWithin
<1>3. ASSUME UNCHANGED <<sending, attempt, crashes>>,
             \A n \in Notification : /\ outbox'[n].attempts = outbox[n].attempts
                                     /\ outbox'[n].status = outbox[n].status
      PROVE  \A m \in Notification : WithinBudget(m)'
  <2>1. \A n : Early(n)' = Early(n) /\ Late(n)' = Late(n)
    BY <1>3 DEF Early, Late
  <2>2. QED
    BY <1>3, <2>1, RowUntouched DEF BoundInv
<1>4. ASSUME NEW n \in Notification, Enqueue(n)
      PROVE  \A m \in Notification : WithinBudget(m)'
  <2>1. \A k \in Notification : Early(k)' = Early(k) /\ Late(k)' = Late(k)
    BY <1>4 DEF Enqueue, Early, Late
  <2>2. outbox'[n].attempts = 0 /\ \A m \in Notification \ {n} : outbox'[m] = outbox[m]
    BY <1>1, <1>4 DEF Enqueue, TypeOK
  <2>3. WithinBudget(n)'
    BY <2>2, OutboxAssumption DEF WithinBudget
  <2>4. ASSUME NEW m \in Notification \ {n} PROVE WithinBudget(m)'
    BY <1>4, <2>1, <2>2, RowUntouched DEF BoundInv, Enqueue
  <2>5. QED
    BY <2>3, <2>4
<1>5. ASSUME NEW w \in Worker, Send(w)
      PROVE  \A m \in Notification : WithinBudget(m)'
  BY <1>3, <1>5 DEF Send
<1>6. ASSUME Tick PROVE \A m \in Notification : WithinBudget(m)'
  <2>1. \A n \in Notification : /\ outbox'[n].attempts = outbox[n].attempts
                                /\ outbox'[n].status = outbox[n].status
    BY <1>1, <1>6 DEF Tick, TypeOK, Row
  <2>2. QED
    BY <1>3, <1>6, <2>1 DEF Tick
<1>7. ASSUME UNCHANGED vars PROVE \A m \in Notification : WithinBudget(m)'
  BY <1>3, <1>7 DEF vars
<1>8. \A m \in Notification : WithinBudget(m)'
  BY <1>2, <1>4, <1>5, <1>6, <1>7 DEF Next
<1>9. QED
  BY <1>1, <1>8 DEF BoundInv

\* What is within the budget is within the bound.
LEMMA BudgetBounds ==
  ASSUME IsFiniteSet(Worker), BoundInv
  PROVE  AttemptsNearBound
<1> SUFFICES ASSUME NEW n \in Notification
             PROVE  outbox[n].attempts <= (MaxAttempts - 1) + crashes + (W * (W + 1)) \div 2
  BY DEF AttemptsNearBound, W
<1> DEFINE a == outbox[n].attempts
           e == Cardinality(Early(n))
           l == Cardinality(Late(n))
           R == (e + 1) * (2 * W - e)
           T == W * (W + 1)
<1>1. /\ a \in Nat /\ outbox[n].status \in RowStatus /\ crashes \in Nat
      /\ MaxAttempts \in Nat \ {0} /\ e \in Nat /\ l \in Nat /\ W \in Nat /\ e + l <= W
  BY NumbersTyped DEF BoundInv, OutboxInv
<1>2. /\ R \in Int /\ T \in Nat /\ 2 * l <= R
  BY <1>1, ReserveCovers, ProductNat
<1>3. a >= MaxAttempts =>
        /\ outbox[n].status \in SettledStatus => 2 * a <= 2 * (MaxAttempts - 1) + 2 * crashes + T
        /\ outbox[n].status = "SENDING" =>
             2 * a + R <= 2 * (MaxAttempts - 1) + 2 * crashes + T + 2 * l
        /\ outbox[n].status \notin SettledStatus \cup {"SENDING"} =>
             2 * a + R <= 2 * (MaxAttempts - 1) + 2 * crashes + T
  <2>1. WithinBudget(n)
    BY DEF BoundInv
  <2>2. QED
    BY <2>1 DEF WithinBudget, Reserve, Budget
<1> HIDE DEF a, e, l, R, T
<1>4. a >= MaxAttempts => 2 * a <= 2 * (MaxAttempts - 1) + 2 * crashes + T
  BY <1>1, <1>2, <1>3
<1>5. a <= (MaxAttempts - 1) + crashes + T \div 2
  BY <1>1, <1>2, <1>4
<1>6. QED
  BY <1>5 DEF a, T

\* A row is attempted at most max_attempts - 1 times, once more per crash, and
\* W + (W - 1) + ... + 1 times by the W overlapping workers: no loop is endless.
THEOREM AttemptsAreBounded ==
  IsFiniteSet(Notification) /\ IsFiniteSet(Worker) => (Spec => []AttemptsNearBound)
<1>1. SUFFICES ASSUME IsFiniteSet(Notification), IsFiniteSet(Worker)
               PROVE  Spec => []AttemptsNearBound
  OBVIOUS
<1>2. Init => BoundInv
  <2>1. ASSUME Init PROVE \A n \in Notification : WithinBudget(n)
    BY <2>1, OutboxAssumption DEF Init, AbsentRow, WithinBudget
  <2>2. QED
    BY <2>1, OutboxInit DEF BoundInv
<1>3. BoundInv /\ [Next]_vars => BoundInv'
  BY <1>1, BoundStep
<1>4. BoundInv => AttemptsNearBound
  BY <1>1, BudgetBounds
<1>5. QED
  BY <1>2, <1>3, <1>4, PTL DEF Spec
=============================================================================
