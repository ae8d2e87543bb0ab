-------------------------- MODULE SignalIntakeProofs --------------------------
(***************************************************************************)
(* TLAPS proofs about SignalIntake, for any number of deliveries, requests *)
(* and tasks.                                                              *)
(*                                                                         *)
(* The inductive invariant says what an open transaction may rely on: the  *)
(* keys it has inserted are in no other transaction and not in the         *)
(* database, the task it has locked is still waiting, and, once it shares  *)
(* the run, no recovery is under way.                                      *)
(***************************************************************************)
EXTENDS SignalIntake, TLAPS

Before == {"IDLE"} \cup InTransaction

\* Where a handler stands tells what it has done.
Stands ==
    \A h \in Handler :
        /\ pc[h] # "IDLE" => request[h] \in Request
        /\ pc[h] \in Before => code[h] = "NONE" /\ h \notin signals /\ h \notin rejections
        /\ pc[h] = "REJECT" => code[h] # "ACCEPTED" /\ h \notin rejections
        /\ pc[h] \in {"TASK", "RUN"} => request[h].task \in Task

\* A nonce is in one place: in the database or in one open transaction.
NoncesApart ==
    /\ nonces = {NonceKey(h) : h \in signals}
    /\ \A h \in Handler : HoldsNonce(h) =>
          /\ NonceKey(h) \notin nonces
          /\ \A g \in Handler : HoldsNonce(g) /\ NonceKey(g) = NonceKey(h) => g = h

\* A locked task waits for its signal and has one holder.
TasksApart ==
    \A h \in Handler : \A t \in Task : HoldsTask(h, t) =>
        /\ taskStatus[t] = "WAITING_SIGNAL"
        /\ \A g \in Handler : HoldsTask(g, t) => g = h

\* So is a flushed signal.
SignalsApart ==
    \A h \in Handler : HoldsSignal(h) =>
        /\ ~SignalTaken(h)
        /\ \A g \in Handler : HoldsSignal(g) /\ SameSignal(g, h) => g = h

\* While recovery has the run nobody shares it, and what it will write over is
\* what it has read.
RunApart ==
    /\ reconciling => ~RunShared
    /\ \A t \in Task : repair[t] # "KEEP" =>
          reconciling /\ repair[t] = "TIMED_OUT" /\ taskStatus[t] = "WAITING_SIGNAL"

IInv == /\ TypeOK /\ Stands /\ NoncesApart /\ TasksApart /\ SignalsApart /\ RunApart
        /\ StoredOnce /\ ReceivedIffStored /\ AnswersTrue

\* The initial states satisfy the invariant.
LEMMA InitIInv == Init => IInv
<1> SUFFICES ASSUME Init PROVE IInv
  OBVIOUS
<1> USE RequestAssumption, TimeAssumption
<1>1. TypeOK
  <2>1. /\ pc \in [Handler -> Place] /\ code \in [Handler -> Code]
        /\ taskStatus \in [Task -> TaskStatus]
    BY DEF Init, Place, Code, TaskStatus
  <2>2. /\ clock \in 0..MaxTime /\ received \in [Handler -> 0..MaxTime]
        /\ request \in [Handler -> Request \cup {NoRequest}]
        /\ repair \in [Task -> {"KEEP", "SIGNAL_RECEIVED", "TIMED_OUT"}]
    BY DEF Init
  <2>3. QED
    BY <2>1, <2>2 DEF Init, TypeOK
<1>2. Stands /\ NoncesApart /\ TasksApart /\ SignalsApart /\ RunApart
  BY DEF Init, Stands, NoncesApart, TasksApart, SignalsApart, RunApart, HoldsNonce,
         HoldsTask, HoldsSignal, SignalTaken, Before, InTransaction
<1>3. StoredOnce /\ ReceivedIffStored /\ AnswersTrue
  BY DEF Init, StoredOnce, ReceivedIffStored, AnswersTrue, DuplicateCode
<1>4. QED
  BY <1>1, <1>2, <1>3 DEF IInv

\* A handler moves on, or gives its reason; nothing else changes.
Moves(h, place, reason) ==
    /\ pc' = [pc EXCEPT ![h] = place]
    /\ code' = [code EXCEPT ![h] = reason]
    /\ UNCHANGED <<clock, disabled, request, received, dbVars, recoveryVars>>

\* A handler that gives up keeps the invariant, if its reason is true.
LEMMA MoveToReject ==
  ASSUME IInv, NEW h \in Handler, pc[h] \in InTransaction,
         NEW reason \in Code \ {"ACCEPTED"},
         reason \in DuplicateCode => \E g \in signals \ {h} :
              NonceKey(g) = NonceKey(h) \/ SameSignal(g, h),
         Moves(h, "REJECT", reason)
  PROVE  IInv'
<1>1. TypeOK'
  BY DEF IInv, TypeOK, Moves, Place, dbVars, recoveryVars
<1>2. Stands'
  BY DEF IInv, TypeOK, Moves, Stands, Before, InTransaction, dbVars, recoveryVars
<1>3. NoncesApart' /\ TasksApart' /\ SignalsApart'
  BY DEF IInv, TypeOK, Moves, dbVars, recoveryVars, NoncesApart, TasksApart, SignalsApart,
         HoldsNonce, HoldsTask, HoldsSignal, SignalTaken, SameSignal, NonceKey
<1>4. RunApart'
  BY DEF IInv, TypeOK, Moves, dbVars, recoveryVars, RunApart, RunShared
<1>5. StoredOnce' /\ ReceivedIffStored' /\ AnswersTrue'
  BY DEF IInv, TypeOK, Moves, dbVars, recoveryVars, StoredOnce, ReceivedIffStored,
         AnswersTrue, SameSignal, NonceKey, Stands, Before
<1>6. QED
  BY <1>1, <1>2, <1>3, <1>4, <1>5 DEF IInv

\* A step towards the commit keeps the invariant, if what it newly holds was free.
LEMMA MoveOn ==
  ASSUME IInv, NEW h \in Handler, pc[h] \in InTransaction,
         NEW place \in InTransaction \ {"REGISTRY"},
         Moves(h, place, code[h]),
         place \in {"TASK", "RUN"} => request[h].task \in Task,
         HoldsNonce(h)' => /\ NonceKey(h) \notin nonces
                           /\ \A g \in Handler \ {h} : HoldsNonce(g) => NonceKey(g) # NonceKey(h),
         \A t \in Task : HoldsTask(h, t)' =>
             /\ taskStatus[t] = "WAITING_SIGNAL"
             /\ \A g \in Handler \ {h} : ~HoldsTask(g, t),
         HoldsSignal(h)' => /\ ~SignalTaken(h)
                            /\ \A g \in Handler \ {h} : HoldsSignal(g) => ~SameSignal(g, h),
         place = "COMMIT" /\ request[h].task # NoTask => ~reconciling
  PROVE  IInv'
<1>1. TypeOK'
  BY DEF IInv, TypeOK, Moves, Place, dbVars, recoveryVars
<1>2. Stands'
  BY DEF IInv, TypeOK, Moves, Stands, Before, InTransaction, dbVars, recoveryVars
<1>3. NoncesApart'
  BY DEF IInv, TypeOK, Moves, dbVars, recoveryVars, NoncesApart, HoldsNonce, NonceKey
<1>4. TasksApart'
  BY DEF IInv, TypeOK, Moves, dbVars, recoveryVars, TasksApart, HoldsTask
<1>5. SignalsApart'
  BY DEF IInv, TypeOK, Moves, dbVars, recoveryVars, SignalsApart, HoldsSignal, SignalTaken,
         SameSignal
<1>6. RunApart'
  BY DEF IInv, TypeOK, Moves, dbVars, recoveryVars, RunApart, RunShared
<1>7. StoredOnce' /\ ReceivedIffStored' /\ AnswersTrue'
  BY DEF IInv, TypeOK, Moves, dbVars, recoveryVars, StoredOnce, ReceivedIffStored,
         AnswersTrue, SameSignal, NonceKey
<1>8. QED
  BY <1>1, <1>2, <1>3, <1>4, <1>5, <1>6, <1>7 DEF IInv

\* A handler that goes on moves.
LEMMA GotoMoves ==
  ASSUME TypeOK, NEW h \in Handler, NEW place, Goto(h, place),
         UNCHANGED <<clock, disabled, request, received, dbVars, recoveryVars>>
  PROVE  Moves(h, place, code[h])
BY DEF TypeOK, Goto, Moves

\* So is a refusal.
LEMMA RefuseMoves ==
  ASSUME NEW h \in Handler, NEW reason, Refuse(h, reason),
         UNCHANGED <<clock, disabled, request, received, dbVars, recoveryVars>>
  PROVE  Moves(h, "REJECT", reason)
BY DEF Refuse, Moves

\* A request that is refused on arrival or goes on to the registry.
LEMMA DeliverIInv ==
  ASSUME IInv, NEW h \in Handler, Deliver(h)
  PROVE  IInv'
<1> PICK r \in Request :
      /\ request' = [request EXCEPT ![h] = r]
      /\ received' = [received EXCEPT ![h] = clock]
      /\ IF Verify(r) # "PASS" THEN Refuse(h, Verify(r))
         ELSE IF CheckTimes(r) # "PASS" THEN Refuse(h, CheckTimes(r))
         ELSE Goto(h, "REGISTRY")
  BY DEF Deliver
<1>1. /\ pc[h] = "IDLE"
      /\ UNCHANGED <<clock, disabled, nonces, signals, taskStatus, rejections, reconciling, repair>>
  BY DEF Deliver, dbVars, recoveryVars
<1>2. PICK place \in {"REGISTRY", "REJECT"}, reason \in Code \ DuplicateCode :
        /\ reason # "ACCEPTED"
        /\ place = "REGISTRY" => reason = "NONE"
        /\ pc' = [pc EXCEPT ![h] = place] /\ code' = [code EXCEPT ![h] = reason]
  <2>1. CASE Verify(r) # "PASS"
    <3>1. Verify(r) \in Code \ (DuplicateCode \cup {"ACCEPTED"})
      BY <2>1 DEF Verify, Code, DuplicateCode
    <3>2. QED
      BY <2>1, <3>1 DEF Refuse
  <2>2. CASE Verify(r) = "PASS" /\ CheckTimes(r) # "PASS"
    <3>1. CheckTimes(r) \in Code \ (DuplicateCode \cup {"ACCEPTED"})
      BY <2>2 DEF CheckTimes, Code, DuplicateCode
    <3>2. QED
      BY <2>2, <3>1 DEF Refuse
  <2>3. CASE Verify(r) = "PASS" /\ CheckTimes(r) = "PASS"
    <3>1. code[h] = "NONE" /\ "NONE" \in Code \ DuplicateCode
      BY <1>1 DEF IInv, Stands, Before, Code, DuplicateCode
    <3>2. code' = [code EXCEPT ![h] = "NONE"] /\ pc' = [pc EXCEPT ![h] = "REGISTRY"]
      BY <2>3, <3>1 DEF Goto, IInv, TypeOK
    <3>3. QED
      BY <3>1, <3>2
  <2>4. QED
    BY <2>1, <2>2, <2>3
<1>3. h \notin signals /\ h \notin rejections /\ ~HoldsNonce(h) /\ ~HoldsSignal(h)
  BY <1>1 DEF IInv, Stands, Before, HoldsNonce, HoldsSignal
<1>4. TypeOK'
  BY <1>1, <1>2 DEF IInv, TypeOK, Place, InTransaction
<1>5. Stands'
  BY <1>1, <1>2, <1>3 DEF IInv, TypeOK, Stands, Before, InTransaction
<1>6. NoncesApart'
  <2>1. \A g \in signals : NonceKey(g)' = NonceKey(g)
    BY <1>3 DEF IInv, TypeOK, NonceKey
  <2>2. \A g \in Handler : HoldsNonce(g)' => HoldsNonce(g) /\ g # h
    BY <1>1, <1>2 DEF IInv, TypeOK, HoldsNonce
  <2>3. \A g \in Handler : g # h => NonceKey(g)' = NonceKey(g)
    BY DEF IInv, TypeOK, NonceKey
  <2>4. nonces' = {NonceKey(g)' : g \in signals'}
    BY <1>1, <2>1 DEF IInv, NoncesApart
  <2>5. ASSUME NEW k \in Handler, HoldsNonce(k)'
        PROVE  /\ NonceKey(k)' \notin nonces'
               /\ \A g \in Handler : HoldsNonce(g)' /\ NonceKey(g)' = NonceKey(k)' => g = k
    BY <1>1, <2>2, <2>3, <2>5 DEF IInv, NoncesApart
  <2>6. QED
    BY <2>4, <2>5 DEF NoncesApart
<1>7. TasksApart'
  BY <1>1, <1>2 DEF IInv, TypeOK, TasksApart, HoldsTask
<1>8. SignalsApart'
  BY <1>1, <1>2, <1>3 DEF IInv, TypeOK, SignalsApart, HoldsSignal, SignalTaken, SameSignal
<1>9. RunApart'
  BY <1>1, <1>2 DEF IInv, TypeOK, RunApart, RunShared
<1>10. \A g \in signals : request'[g] = request[g]
  BY <1>3 DEF IInv, TypeOK
<1>11. StoredOnce' /\ ReceivedIffStored'
  BY <1>1, <1>10 DEF IInv, TypeOK, StoredOnce, ReceivedIffStored, SameSignal, NonceKey
<1>12. AnswersTrue'
  <2>1. \A g \in Handler \ {h} : request'[g] = request[g] /\ code'[g] = code[g]
    BY <1>2 DEF IInv, TypeOK
  <2>2. \A g \in Handler \ {h}, k \in signals : k # h /\ (NonceKey(k) = NonceKey(g))' = (NonceKey(k) = NonceKey(g))
                                               /\ SameSignal(k, g)' = SameSignal(k, g)
    BY <1>3, <1>10, <2>1 DEF SameSignal, NonceKey
  <2>3. code'[h] \in Code \ DuplicateCode /\ code'[h] # "ACCEPTED" /\ h \notin signals'
    BY <1>1, <1>2, <1>3 DEF IInv, TypeOK
  <2>4. signals' = signals /\ rejections' = rejections
    BY <1>1
  <2>5. QED
    BY <2>1, <2>2, <2>3, <2>4 DEF IInv, AnswersTrue
<1>13. QED
  BY <1>4, <1>5, <1>6, <1>7, <1>8, <1>9, <1>11, <1>12 DEF IInv

\* Giving up with a reason that speaks of no other signal is always sound.
LEMMA PlainRefusal ==
  ASSUME IInv, NEW h \in Handler, pc[h] \in InTransaction,
         NEW reason \in Code \ (DuplicateCode \cup {"ACCEPTED"}), Refuse(h, reason),
         UNCHANGED <<clock, disabled, request, received, dbVars, recoveryVars>>
  PROVE  IInv'
BY RefuseMoves, MoveToReject

\* Before the nonce is inserted the transaction holds nothing.
LEMMA ReadRegistryIInv ==
  ASSUME IInv, NEW h \in Handler, ReadRegistry(h)
  PROVE  IInv'
<1>1. /\ pc[h] = "REGISTRY" /\ pc[h] \in InTransaction
      /\ UNCHANGED <<clock, disabled, request, received, dbVars, recoveryVars>>
  BY DEF ReadRegistry, InTransaction
<1>2. \/ Goto(h, "NONCE")
      \/ \E reason \in {"AGENT_DISABLED", "SNAPSHOT_NOT_OPEN", "SIGNAL_SNAPSHOT_TIME_MISMATCH"} :
            Refuse(h, reason)
  BY DEF ReadRegistry
<1>3. ASSUME NEW reason \in {"AGENT_DISABLED", "SNAPSHOT_NOT_OPEN",
                             "SIGNAL_SNAPSHOT_TIME_MISMATCH"}, Refuse(h, reason)
      PROVE  IInv'
  <2>1. reason \in Code \ (DuplicateCode \cup {"ACCEPTED"})
    BY DEF Code, DuplicateCode
  <2>2. QED
    BY <1>1, <1>3, <2>1, PlainRefusal
<1>4. ASSUME Goto(h, "NONCE") PROVE IInv'
  <2>1. Moves(h, "NONCE", code[h])
    BY <1>1, <1>4, GotoMoves DEF IInv
  <2>2. ~HoldsNonce(h)' /\ ~HoldsSignal(h)' /\ \A t \in Task : ~HoldsTask(h, t)'
    BY <2>1 DEF Moves, IInv, TypeOK, HoldsNonce, HoldsSignal, HoldsTask
  <2>3. QED
    BY <1>1, <2>1, <2>2, MoveOn DEF InTransaction
<1>5. QED
  BY <1>2, <1>3, <1>4

\* The insert of the nonce waits for every open transaction with the same key.
LEMMA InsertNonceIInv ==
  ASSUME IInv, NEW h \in Handler, InsertNonce(h)
  PROVE  IInv'
<1>1. /\ pc[h] = "NONCE" /\ pc[h] \in InTransaction
      /\ \A g \in Handler \ {h} : HoldsNonce(g) => NonceKey(g) # NonceKey(h)
      /\ UNCHANGED <<clock, disabled, request, received, dbVars, recoveryVars>>
  BY DEF InsertNonce, InTransaction
<1>2. CASE NonceKey(h) \in nonces
  <2>1. Moves(h, "REJECT", "REPLAY_OR_DUPLICATE")
    BY <1>1, <1>2, RefuseMoves DEF InsertNonce
  <2>2. \E g \in signals \ {h} : NonceKey(g) = NonceKey(h)
    BY <1>1, <1>2 DEF IInv, NoncesApart, Stands, Before
  <2>3. "REPLAY_OR_DUPLICATE" \in Code \ {"ACCEPTED"}
    BY DEF Code, DuplicateCode
  <2>4. QED
    BY <1>1, <2>1, <2>2, <2>3, MoveToReject
<1>3. CASE NonceKey(h) \notin nonces
  <2> DEFINE place == IF request[h].task = NoTask THEN "MESSAGE" ELSE "TASK"
  <2>1. Moves(h, place, code[h])
    BY <1>1, <1>3, GotoMoves DEF InsertNonce, IInv
  <2>2. place = "TASK" => request[h].task \in Task
    BY <1>1, RequestAssumption DEF IInv, Stands, RequestShape
  <2>3. ~HoldsSignal(h)' /\ \A t \in Task : ~HoldsTask(h, t)'
    BY <2>1, RequestAssumption DEF Moves, IInv, TypeOK, HoldsSignal, HoldsTask
  <2>4. place \in InTransaction \ {"REGISTRY"} /\ place # "COMMIT" /\ place # "RUN"
    BY DEF InTransaction
  <2> HIDE DEF place
  <2>5. QED
    BY <1>1, <1>3, <2>1, <2>2, <2>3, <2>4, MoveOn
<1>4. QED
  BY <1>2, <1>3

\* A task is locked while it waits for its signal, or the handler gives up.
LEMMA LockTaskIInv ==
  ASSUME IInv, NEW h \in Handler, LockTask(h)
  PROVE  IInv'
<1> DEFINE t == request[h].task
<1>1. /\ pc[h] = "TASK" /\ pc[h] \in InTransaction /\ t \in Task
      /\ \A g \in Handler \ {h} : ~HoldsTask(g, t)
      /\ UNCHANGED <<clock, disabled, request, received, dbVars, recoveryVars>>
      /\ IF TaskVerdict(h, t) = "PASS" THEN Goto(h, "MESSAGE") ELSE Refuse(h, TaskVerdict(h, t))
  BY DEF LockTask, InTransaction, IInv, Stands
<1>2. CASE TaskVerdict(h, t) = "PASS"
  <2>1. Moves(h, "MESSAGE", code[h])
    BY <1>1, <1>2, GotoMoves DEF IInv
  <2>2. taskStatus[t] = "WAITING_SIGNAL"
    BY <1>2 DEF TaskVerdict
  <2>3. \A u \in Task : HoldsTask(h, u)' => u = t
    BY <2>1 DEF Moves, IInv, TypeOK, HoldsTask
  <2>4. ~HoldsSignal(h)' /\ HoldsNonce(h)
    BY <1>1, <2>1 DEF Moves, IInv, TypeOK, HoldsSignal, HoldsNonce
  <2>5. /\ NonceKey(h) \notin nonces
        /\ \A g \in Handler \ {h} : HoldsNonce(g) => NonceKey(g) # NonceKey(h)
    BY <2>4 DEF IInv, NoncesApart
  <2>6. QED
    BY <1>1, <2>1, <2>2, <2>3, <2>4, <2>5, MoveOn DEF InTransaction
<1>3. CASE TaskVerdict(h, t) # "PASS"
  <2>1. Moves(h, "REJECT", TaskVerdict(h, t))
    BY <1>1, <1>3, RefuseMoves
  <2>2. TaskVerdict(h, t) \in Code \ {"ACCEPTED"}
    BY <1>3 DEF TaskVerdict, Code, DuplicateCode
  <2>3. ASSUME TaskVerdict(h, t) \in DuplicateCode
        PROVE  \E g \in signals \ {h} : SameSignal(g, h)
    <3>1. taskStatus[t] = "SIGNAL_RECEIVED"
      BY <2>3, <1>3 DEF TaskVerdict, DuplicateCode
    <3>2. PICK g \in signals : request[g].task = t
      BY <1>1, <3>1 DEF IInv, ReceivedIffStored
    <3>3. t # NoTask /\ g # h
      BY <1>1, RequestAssumption DEF IInv, Stands, Before
    <3>4. QED
      BY <3>2, <3>3 DEF SameSignal
  <2>4. QED
    BY <1>1, <2>1, <2>2, <2>3, MoveToReject
<1>4. QED
  BY <1>2, <1>3

\* What a handler that has the nonce, and perhaps the task, relies on.
LEMMA Held ==
  ASSUME IInv, NEW h \in Handler, pc[h] \in {"MESSAGE", "INSERT", "RUN", "COMMIT"}
  PROVE  /\ NonceKey(h) \notin nonces
         /\ \A g \in Handler \ {h} : HoldsNonce(g) => NonceKey(g) # NonceKey(h)
         /\ \A t \in Task : request[h].task = t =>
               /\ taskStatus[t] = "WAITING_SIGNAL"
               /\ \A g \in Handler \ {h} : ~HoldsTask(g, t)
         /\ h \notin signals /\ h \notin rejections /\ request[h] \in Request
<1>1. HoldsNonce(h) /\ \A t \in Task : request[h].task = t => HoldsTask(h, t)
  BY DEF HoldsNonce, HoldsTask
<1>2. pc[h] \in Before /\ pc[h] # "IDLE"
  BY DEF Before, InTransaction
<1>3. QED
  BY <1>1, <1>2 DEF IInv, NoncesApart, TasksApart, Stands

\* The message is looked up: found, it is a duplicate.
LEMMA ReadMessageIInv ==
  ASSUME IInv, NEW h \in Handler, ReadMessage(h)
  PROVE  IInv'
<1>1. /\ pc[h] = "MESSAGE" /\ pc[h] \in InTransaction
      /\ UNCHANGED <<clock, disabled, request, received, dbVars, recoveryVars>>
  BY DEF ReadMessage, InTransaction
<1>2. CASE \E g \in signals : request[g].message = request[h].message
  <2>1. Moves(h, "REJECT", "DUPLICATE_MESSAGE_ID")
    BY <1>1, <1>2, RefuseMoves DEF ReadMessage
  <2>2. \E g \in signals \ {h} : SameSignal(g, h)
    BY <1>1, <1>2, Held DEF SameSignal
  <2>3. "DUPLICATE_MESSAGE_ID" \in Code \ {"ACCEPTED"}
    BY DEF Code, DuplicateCode
  <2>4. QED
    BY <1>1, <2>1, <2>2, <2>3, MoveToReject
<1>3. CASE ~\E g \in signals : request[g].message = request[h].message
  <2>1. Moves(h, "INSERT", code[h])
    BY <1>1, <1>3, GotoMoves DEF ReadMessage, IInv
  <2>2. ~HoldsSignal(h)' /\ \A t \in Task : HoldsTask(h, t)' => request[h].task = t
    BY <2>1 DEF Moves, IInv, TypeOK, HoldsSignal, HoldsTask
  <2>3. QED
    BY <1>1, <2>1, <2>2, Held, MoveOn DEF InTransaction
<1>4. QED
  BY <1>2, <1>3

\* The signal is flushed once no open transaction holds a conflicting one.
LEMMA InsertSignalIInv ==
  ASSUME IInv, NEW h \in Handler, InsertSignal(h)
  PROVE  IInv'
<1>1. /\ pc[h] = "INSERT" /\ pc[h] \in InTransaction
      /\ \A g \in Handler \ {h} : HoldsSignal(g) => ~SameSignal(g, h)
      /\ UNCHANGED <<clock, disabled, request, received, dbVars, recoveryVars>>
  BY DEF InsertSignal, InTransaction
<1>2. CASE SignalTaken(h)
  <2>1. Moves(h, "REJECT", "REPLAY_OR_DUPLICATE")
    BY <1>1, <1>2, RefuseMoves DEF InsertSignal
  <2>2. \E g \in signals \ {h} : SameSignal(g, h)
    BY <1>1, <1>2, Held DEF SignalTaken
  <2>3. "REPLAY_OR_DUPLICATE" \in Code \ {"ACCEPTED"}
    BY DEF Code, DuplicateCode
  <2>4. QED
    BY <1>1, <2>1, <2>2, <2>3, MoveToReject
<1>3. CASE ~SignalTaken(h)
  <2> DEFINE place == IF request[h].task = NoTask THEN "COMMIT" ELSE "RUN"
  <2>1. Moves(h, place, code[h])
    BY <1>1, <1>3, GotoMoves DEF InsertSignal, IInv
  <2>2. place = "RUN" => request[h].task \in Task
    BY <1>1, Held, RequestAssumption DEF RequestShape
  <2>3. \A t \in Task : HoldsTask(h, t)' => request[h].task = t
    BY <2>1 DEF Moves, HoldsTask
  <2>4. /\ place \in InTransaction \ {"REGISTRY"} /\ place # "TASK"
        /\ place = "COMMIT" => request[h].task = NoTask
    BY DEF InTransaction
  <2> HIDE DEF place
  <2>5. QED
    BY <1>1, <1>3, <2>1, <2>2, <2>3, <2>4, Held, MoveOn
<1>4. QED
  BY <1>2, <1>3

\* The run is shared when recovery does not have it.
LEMMA ShareRunIInv ==
  ASSUME IInv, NEW h \in Handler, ShareRun(h)
  PROVE  IInv'
<1>1. /\ pc[h] = "RUN" /\ pc[h] \in InTransaction /\ ~reconciling
      /\ UNCHANGED <<clock, disabled, request, received, dbVars, recoveryVars>>
      /\ Goto(h, "COMMIT")
  BY DEF ShareRun, InTransaction
<1>2. Moves(h, "COMMIT", code[h])
  BY <1>1, GotoMoves DEF IInv
<1>3. HoldsSignal(h)
  BY <1>1 DEF HoldsSignal
<1>4. ~SignalTaken(h) /\ \A g \in Handler \ {h} : HoldsSignal(g) => ~SameSignal(g, h)
  BY <1>3 DEF IInv, SignalsApart
<1>5. \A t \in Task : HoldsTask(h, t)' => request[h].task = t
  BY <1>2 DEF Moves, HoldsTask
<1>6. QED
  BY <1>1, <1>2, <1>4, <1>5, Held, MoveOn DEF InTransaction

\* The commit stores a nonce, a message and a task result that are all new.
LEMMA StoreIInv ==
  ASSUME IInv, NEW h \in Handler, pc[h] = "COMMIT", Store(h),
         NEW place \in {"REJECT", "DONE"}, NEW reason \in {"ACCEPTED", "DATABASE_UNAVAILABLE"},
         place = "REJECT" => reason # "ACCEPTED",
         pc' = [pc EXCEPT ![h] = place], code' = [code EXCEPT ![h] = reason],
         UNCHANGED <<clock, disabled, request, received, recoveryVars>>
  PROVE  IInv'
<1> DEFINE t == request[h].task
<1>1. /\ nonces' = nonces \cup {NonceKey(h)} /\ signals' = signals \cup {h}
      /\ rejections' = rejections
      /\ taskStatus' = IF t = NoTask THEN taskStatus
                       ELSE [taskStatus EXCEPT ![t] = "SIGNAL_RECEIVED"]
      /\ \A g \in Handler : NonceKey(g)' = NonceKey(g)
      /\ \A g, k \in Handler : SameSignal(g, k)' = SameSignal(g, k)
  BY DEF Store, NonceKey, SameSignal
<1>2. /\ NonceKey(h) \notin nonces /\ request[h] \in Request
      /\ h \notin signals /\ h \notin rejections
      /\ \A g \in Handler \ {h} : HoldsNonce(g) => NonceKey(g) # NonceKey(h)
      /\ \A u \in Task : t = u => /\ taskStatus[u] = "WAITING_SIGNAL"
                                  /\ \A g \in Handler \ {h} : ~HoldsTask(g, u)
  BY Held
<1>3. /\ \A g \in signals : ~SameSignal(g, h)
      /\ \A g \in Handler : HoldsSignal(g) /\ SameSignal(g, h) => g = h
  BY DEF IInv, SignalsApart, HoldsSignal, SignalTaken
<1>4. /\ \A g \in Handler : HoldsNonce(g)' => HoldsNonce(g) /\ g # h
      /\ \A g \in Handler : HoldsSignal(g)' => HoldsSignal(g) /\ g # h
      /\ \A g \in Handler, u \in Task : HoldsTask(g, u)' => HoldsTask(g, u) /\ g # h
  BY DEF IInv, TypeOK, HoldsNonce, HoldsSignal, HoldsTask
<1>5. TypeOK'
  <2>1. NonceKey(h) \in Agent \X Nonce
    BY <1>2, RequestAssumption DEF RequestShape, NonceKey
  <2>2. taskStatus' \in [Task -> TaskStatus]
    BY <1>1 DEF IInv, TypeOK, TaskStatus
  <2>3. pc' \in [Handler -> Place] /\ code' \in [Handler -> Code]
    BY DEF IInv, TypeOK, Place, Code
  <2>4. QED
    BY <1>1, <2>1, <2>2, <2>3 DEF IInv, TypeOK, recoveryVars
<1>6. Stands'
  BY <1>1, <1>2 DEF IInv, TypeOK, Stands, Before, InTransaction
<1>7. NoncesApart'
  <2>1. nonces' = {NonceKey(g)' : g \in signals'}
    BY <1>1 DEF IInv, TypeOK, NoncesApart
  <2>2. ASSUME NEW k \in Handler, HoldsNonce(k)'
        PROVE  /\ NonceKey(k)' \notin nonces'
               /\ \A g \in Handler : HoldsNonce(g)' /\ NonceKey(g)' = NonceKey(k)' => g = k
    BY <1>1, <1>2, <1>4, <2>2 DEF IInv, NoncesApart
  <2>3. QED
    BY <2>1, <2>2 DEF NoncesApart
<1>8. TasksApart'
  <2>1. \A g \in Handler, u \in Task : HoldsTask(g, u)' => taskStatus'[u] = taskStatus[u]
    BY <1>1, <1>2, <1>4 DEF IInv, TypeOK
  <2>2. QED
    BY <1>4, <2>1 DEF IInv, TasksApart
<1>9. SignalsApart'
  <2>1. \A g, k \in Handler : SameSignal(g, k) = SameSignal(k, g)
    BY DEF SameSignal
  <2>2. ASSUME NEW k \in Handler, HoldsSignal(k)'
        PROVE  /\ ~SignalTaken(k)'
               /\ \A g \in Handler : HoldsSignal(g)' /\ SameSignal(g, k)' => g = k
    BY <1>1, <1>3, <1>4, <2>1, <2>2 DEF IInv, TypeOK, SignalsApart, SignalTaken
  <2>3. QED
    BY <2>2 DEF SignalsApart
<1>10. RunApart'
  <2>1. reconciling => t = NoTask
    BY DEF IInv, RunApart, RunShared
  <2>2. reconciling' = reconciling /\ repair' = repair
    BY DEF recoveryVars
  <2>3. RunShared' => RunShared
    BY DEF RunShared, IInv, TypeOK
  <2>4. QED
    BY <1>1, <2>1, <2>2, <2>3 DEF IInv, RunApart
<1>11. StoredOnce'
  <2>1. \A g, k \in Handler : SameSignal(g, k) = SameSignal(k, g)
    BY DEF SameSignal
  <2>2. \A g \in signals : NonceKey(g) # NonceKey(h)
    BY <1>2 DEF IInv, NoncesApart
  <2>3. QED
    BY <1>1, <1>3, <2>1, <2>2 DEF IInv, TypeOK, StoredOnce
<1>12. ReceivedIffStored'
  <2>1. \A u \in Task : (\E g \in signals' : request'[g].task = u)
                           <=> (u = t \/ \E g \in signals : request[g].task = u)
    BY <1>1
  <2>2. \A u \in Task : taskStatus'[u] = "SIGNAL_RECEIVED"
                           <=> (u = t \/ taskStatus[u] = "SIGNAL_RECEIVED")
    BY <1>1, RequestAssumption DEF IInv, TypeOK
  <2>3. QED
    BY <2>1, <2>2 DEF IInv, ReceivedIffStored
<1>13. AnswersTrue'
  <2>1. ASSUME NEW g \in Handler \ {h} PROVE code'[g] = code[g]
    BY DEF IInv, TypeOK
  <2>2. code'[h] = reason /\ reason \notin DuplicateCode
    BY DEF IInv, TypeOK, DuplicateCode
  <2>3. QED
    BY <1>1, <1>2, <2>1, <2>2 DEF IInv, TypeOK, AnswersTrue
<1>14. QED
  BY <1>5, <1>6, <1>7, <1>8, <1>9, <1>10, <1>11, <1>12, <1>13 DEF IInv

\* The audit of a rejection and the answer change no signal.
LEMMA RejectIInv ==
  ASSUME IInv, NEW h \in Handler, Reject(h)
  PROVE  IInv'
<1>1. /\ pc[h] = "REJECT" /\ pc' = [pc EXCEPT ![h] = "DONE"] /\ code' = code
      /\ rejections' \in {rejections, rejections \cup {h}}
      /\ UNCHANGED <<clock, disabled, request, received, nonces, signals, taskStatus,
                     reconciling, repair>>
  BY DEF Reject, RecordRejection, Goto, recoveryVars
<1>2. TypeOK'
  BY <1>1 DEF IInv, TypeOK, Place
<1>3. Stands'
  BY <1>1 DEF IInv, TypeOK, Stands, Before, InTransaction
<1>4. NoncesApart' /\ TasksApart' /\ SignalsApart'
  BY <1>1 DEF IInv, TypeOK, NoncesApart, TasksApart, SignalsApart, HoldsNonce, HoldsTask,
              HoldsSignal, SignalTaken, SameSignal, NonceKey
<1>5. RunApart'
  BY <1>1 DEF IInv, TypeOK, RunApart, RunShared
<1>6. StoredOnce' /\ ReceivedIffStored'
  BY <1>1 DEF IInv, StoredOnce, ReceivedIffStored, SameSignal, NonceKey
<1>7. AnswersTrue'
  <2>1. code[h] # "ACCEPTED"
    BY <1>1 DEF IInv, Stands
  <2>2. QED
    BY <1>1, <2>1 DEF IInv, AnswersTrue, SameSignal, NonceKey
<1>8. QED
  BY <1>2, <1>3, <1>4, <1>5, <1>6, <1>7 DEF IInv

\* Recovery finds no stored signal whose task is not received, so all it ever
\* plans is to time a waiting task out.
LEMMA ReconcileReadIInv ==
  ASSUME IInv, ReconcileRead
  PROVE  IInv'
<1>1. \A t \in Task : /\ RepairOf(t) \in {"KEEP", "TIMED_OUT"}
                      /\ RepairOf(t) # "KEEP" => taskStatus[t] = "WAITING_SIGNAL"
  BY DEF RepairOf, IInv, ReceivedIffStored
<1>2. /\ ~RunShared /\ reconciling' = TRUE /\ repair' = [t \in Task |-> RepairOf(t)]
      /\ UNCHANGED <<clock, disabled, pc, request, received, code, nonces, signals,
                     taskStatus, rejections>>
  BY DEF ReconcileRead, handlerVars, dbVars
<1> HIDE DEF RepairOf
<1>3. TypeOK'
  BY <1>1, <1>2 DEF IInv, TypeOK
<1>4. RunApart'
  BY <1>1, <1>2 DEF RunApart, RunShared
<1>5. Stands' /\ NoncesApart' /\ TasksApart' /\ SignalsApart' /\ StoredOnce'
        /\ ReceivedIffStored' /\ AnswersTrue'
  BY <1>2 DEF IInv, Stands, NoncesApart, TasksApart, SignalsApart, HoldsNonce, HoldsTask,
              HoldsSignal, SignalTaken, SameSignal, NonceKey, StoredOnce,
              ReceivedIffStored, AnswersTrue
<1>6. QED
  BY <1>3, <1>4, <1>5 DEF IInv

\* What recovery writes over is still what it read: the row is not locked, and
\* nobody could store a signal meanwhile.
LEMMA ReconcileWriteIInv ==
  ASSUME IInv, ReconcileWrite
  PROVE  IInv'
<1>1. /\ reconciling' = FALSE /\ repair' = [t \in Task |-> "KEEP"]
      /\ taskStatus' = [t \in Task |-> IF repair[t] = "KEEP" THEN taskStatus[t] ELSE repair[t]]
      /\ \A t \in Task, h \in Handler : repair[t] # "KEEP" => ~HoldsTask(h, t)
      /\ UNCHANGED <<clock, disabled, pc, request, received, code, nonces, signals, rejections>>
  BY DEF ReconcileWrite, RepairBlocked, handlerVars
<1>2. \A t \in Task : repair[t] # "KEEP" =>
        repair[t] = "TIMED_OUT" /\ taskStatus[t] = "WAITING_SIGNAL"
  BY DEF IInv, RunApart
<1>3. TypeOK'
  BY <1>1, <1>2 DEF IInv, TypeOK, TaskStatus
<1>4. TasksApart'
  BY <1>1 DEF IInv, TasksApart, HoldsTask
<1>5. ReceivedIffStored'
  BY <1>1, <1>2 DEF IInv, ReceivedIffStored
<1>6. RunApart'
  BY <1>1 DEF RunApart
<1>7. Stands' /\ NoncesApart' /\ SignalsApart' /\ StoredOnce' /\ AnswersTrue'
  BY <1>1 DEF IInv, Stands, NoncesApart, SignalsApart, HoldsNonce, HoldsSignal,
              SignalTaken, SameSignal, NonceKey, StoredOnce, AnswersTrue
<1>8. QED
  BY <1>3, <1>4, <1>5, <1>6, <1>7 DEF IInv

\* A recovery that fails leaves the database as it was.
LEMMA ReconcileFailsIInv ==
  ASSUME IInv, ReconcileFails
  PROVE  IInv'
<1>1. /\ reconciling' = FALSE /\ repair' = [t \in Task |-> "KEEP"]
      /\ UNCHANGED <<clock, disabled, pc, request, received, code, nonces, signals,
                     taskStatus, rejections>>
  BY DEF ReconcileFails, handlerVars, dbVars
<1>2. TypeOK' /\ RunApart'
  BY <1>1 DEF IInv, TypeOK, RunApart
<1>3. Stands' /\ NoncesApart' /\ TasksApart' /\ SignalsApart' /\ StoredOnce'
        /\ ReceivedIffStored' /\ AnswersTrue'
  BY <1>1 DEF IInv, Stands, NoncesApart, TasksApart, SignalsApart, HoldsNonce, HoldsTask,
              HoldsSignal, SignalTaken, SameSignal, NonceKey, StoredOnce,
              ReceivedIffStored, AnswersTrue
<1>4. QED
  BY <1>2, <1>3 DEF IInv

\* A crash of the hub rolls every open transaction back.
LEMMA HubCrashIInv ==
  ASSUME IInv, HubCrash
  PROVE  IInv'
<1>1. /\ pc' = [h \in Handler |-> IF pc[h] \in {"IDLE", "DONE"} THEN pc[h] ELSE "LOST"]
      /\ UNCHANGED <<clock, disabled, request, received, code, nonces, signals, taskStatus,
                     rejections, reconciling, repair>>
  BY DEF HubCrash, dbVars, recoveryVars
<1>2. TypeOK'
  BY <1>1 DEF IInv, TypeOK, Place
<1>3. Stands'
  BY <1>1 DEF IInv, TypeOK, Stands, Before, InTransaction
<1>4. /\ \A h \in Handler : ~HoldsNonce(h)' /\ ~HoldsSignal(h)'
      /\ \A h \in Handler, t \in Task : ~HoldsTask(h, t)'
      /\ ~RunShared'
  BY <1>1 DEF HoldsNonce, HoldsSignal, HoldsTask, RunShared
<1>5. NoncesApart'
  BY <1>1, <1>4 DEF IInv, NoncesApart, NonceKey
<1>6. TasksApart' /\ SignalsApart' /\ RunApart'
  BY <1>1, <1>4 DEF IInv, TasksApart, SignalsApart, RunApart
<1>7. StoredOnce' /\ ReceivedIffStored' /\ AnswersTrue'
  BY <1>1 DEF IInv, StoredOnce, ReceivedIffStored, AnswersTrue, SameSignal, NonceKey
<1>8. QED
  BY <1>2, <1>3, <1>5, <1>6, <1>7 DEF IInv

\* The clock and the registry are read, and never part of what is relied on.
LEMMA OutsideIInv ==
  ASSUME IInv, UNCHANGED <<handlerVars, dbVars, recoveryVars>>,
         clock' \in 0..MaxTime, disabled' \subseteq Agent
  PROVE  IInv'
BY DEF IInv, handlerVars, dbVars, recoveryVars, TypeOK, Stands, NoncesApart, TasksApart,
       SignalsApart, HoldsNonce, HoldsTask, HoldsSignal, SignalTaken, SameSignal, NonceKey,
       StoredOnce, ReceivedIffStored, AnswersTrue, RunApart, RunShared

\* A handler's step keeps the invariant.
LEMMA HandlerIInv ==
  ASSUME IInv, NEW h \in Handler,
         \/ Deliver(h) \/ HandlerStep(h)
         \/ CommitUnknown(h) \/ DatabaseFails(h) \/ BreakDeadlock(h)
  PROVE  IInv'
<1>1. "DATABASE_UNAVAILABLE" \in Code \ (DuplicateCode \cup {"ACCEPTED"})
  BY DEF Code, DuplicateCode
<1>2. ASSUME Commit(h) PROVE IInv'
  BY <1>2, StoreIInv DEF Commit
<1>3. ASSUME CommitUnknown(h) PROVE IInv'
  BY <1>3, StoreIInv DEF CommitUnknown, Refuse
<1>4. ASSUME DatabaseFails(h) PROVE IInv'
  BY <1>1, <1>4, PlainRefusal DEF DatabaseFails
<1>5. ASSUME BreakDeadlock(h) PROVE IInv'
  <2>1. pc[h] \in InTransaction
    BY <1>5 DEF BreakDeadlock, Deadlocked, InTransaction
  <2>2. CASE ReconcileFails
    BY <2>2, ReconcileFailsIInv
  <2>3. CASE /\ Refuse(h, "DATABASE_UNAVAILABLE")
             /\ UNCHANGED <<clock, disabled, request, received, dbVars, recoveryVars>>
    BY <1>1, <2>1, <2>3, PlainRefusal
  <2>4. QED
    BY <1>5, <2>2, <2>3 DEF BreakDeadlock
<1>6. QED
  BY <1>2, <1>3, <1>4, <1>5, DeliverIInv, ReadRegistryIInv, InsertNonceIInv, LockTaskIInv,
     ReadMessageIInv, InsertSignalIInv, ShareRunIInv, RejectIInv DEF HandlerStep

\* Every step keeps the invariant.
LEMMA NextIInv == IInv /\ [Next]_vars => IInv'
<1> SUFFICES ASSUME IInv, [Next]_vars PROVE IInv'
  OBVIOUS
<1>1. ASSUME SyncRegistry PROVE IInv'
  BY <1>1, OutsideIInv, RequestAssumption DEF SyncRegistry, IInv, TypeOK
<1>2. ASSUME Tick PROVE IInv'
  BY <1>2, OutsideIInv, TimeAssumption DEF Tick, IInv, TypeOK
<1>3. CASE UNCHANGED vars
  BY <1>3, OutsideIInv DEF vars, IInv, TypeOK
<1>4. CASE Next
  BY <1>1, <1>2, <1>4, HandlerIInv, ReconcileReadIInv, ReconcileWriteIInv, ReconcileFailsIInv,
     HubCrashIInv DEF Next
<1>5. QED
  BY <1>3, <1>4

\* The invariant holds in every reachable state.
LEMMA IntakeInvariant == Spec => []IInv
BY InitIInv, NextIInv, PTL DEF Spec

\* Every variable of the ingestion has its type.
THEOREM IntakeTypes == Spec => []TypeOK
<1>1. IInv => TypeOK
  BY DEF IInv
<1>2. QED
  BY <1>1, IntakeInvariant, PTL

\* No interleaving of deliveries, recoveries and failures stores a request, a
\* message or a task's result twice.
THEOREM NothingStoredTwice == Spec => []StoredOnce
<1>1. IInv => StoredOnce
  BY DEF IInv
<1>2. QED
  BY <1>1, IntakeInvariant, PTL

\* A task is received exactly when its signal is stored, also beside recovery,
\* which writes what it read without a lock.
THEOREM TasksAgreeWithSignals == Spec => []ReceivedIffStored
<1>1. IInv => ReceivedIffStored
  BY DEF IInv
<1>2. QED
  BY <1>1, IntakeInvariant, PTL

\* The reasons the hub gives are true.
THEOREM ReasonsAreTrue == Spec => []AnswersTrue
<1>1. IInv => AnswersTrue
  BY DEF IInv
<1>2. QED
  BY <1>1, IntakeInvariant, PTL
=============================================================================
