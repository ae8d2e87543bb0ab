------------------------- MODULE AgentRuntimeProofs -------------------------
(***************************************************************************)
(* Proofs about AgentRuntime for every number of tasks, commands and       *)
(* restarts and every capacity of the store: type correctness, no command  *)
(* accepted twice, no analysis repeated while its task is remembered, and  *)
(* the refinement of ExecutionContract.                                    *)
(***************************************************************************)
EXTENDS AgentRuntime, FiniteSetTheorems, TLAPS

Entry == [task : Served, body : BodyColumns]

\* A claim leaves a row with the body it had, and a body is typed.
LEMMA ClaimKeepsBody ==
  ASSUME NEW r \in Row, NEW at \in Int
  PROVE  Claimed(r, at) \in Row /\ Body(Claimed(r, at)) = Body(r) /\ Body(r) \in BodyColumns
<1>1. PICK s : s = [r EXCEPT !.attempt_count = r.attempt_count + 1]
  OBVIOUS
<1>2. Claimed(r, at) = [s EXCEPT !.updated_at = at]
  BY <1>1, Zenon DEF Claimed
<1>3. s \in Row /\ s.created_at = r.created_at /\ s.signal_deadline = r.signal_deadline
  BY <1>1 DEF Row
<1>4. PICK u : u = [s EXCEPT !.updated_at = at]
  OBVIOUS
<1>5. /\ u \in Row
      /\ u.created_at = s.created_at /\ u.signal_deadline = s.signal_deadline
  BY <1>3, <1>4 DEF Row
<1>6. Claimed(r, at) = u
  BY <1>2, <1>4
<1>7. QED
  BY <1>3, <1>5, <1>6 DEF Row, Body, BodyColumns

\* The process's clock and nonce lifetime are natural numbers.
LEMMA Numbers == /\ Skew \in Nat \ {0} /\ NonceTtl \in Nat \ {0}
                 /\ MaxEntries \in Nat \ {0} /\ MaxCommands \in Nat
                 /\ Served \subseteq Task /\ Offset \subseteq Int
                 /\ Deadline \in [Task -> Nat]
BY RuntimeAssumption

\* Counting one up, or down from a positive count.
LEMMA Counting ==
  ASSUME NEW S, NEW f \in [S -> Nat], NEW x \in S
  PROVE  /\ [f EXCEPT ![x] = @ + 1] \in [S -> Nat]
         /\ f[x] > 0 => [f EXCEPT ![x] = @ - 1] \in [S -> Nat]
<1>1. f[x] \in Nat /\ f[x] + 1 \in Nat /\ (f[x] > 0 => f[x] - 1 \in Nat)
  OBVIOUS
<1>2. QED
  BY <1>1
-----------------------------------------------------------------------------
(* The task store *)

Distinct == \A j, k \in DOMAIN store : store[j].task = store[k].task => j = k

\* What is kept when a task enters the store: all tasks but an evicted one.
Kept == IF Full THEN Remembered \ {Head(store).task} ELSE Remembered

\* A new task enters: the store stays bounded and without duplicates, and
\* exactly the evicted task is forgotten.
LEMMA StoreAppend ==
  ASSUME store \in Seq(Entry), Len(store) <= MaxEntries, Distinct,
         NEW e \in Entry, e.task \notin Remembered,
         store' = Append(IF Full THEN Tail(store) ELSE store, e)
  PROVE  /\ store' \in Seq(Entry) /\ Len(store') <= MaxEntries
         /\ Distinct'
         /\ Remembered' = Kept \cup {e.task}
         /\ Full => Head(store).task \in Remembered
<1> USE Numbers
<1>1. CASE ~Full
  <2>1. Len(store) < MaxEntries /\ store' = Append(store, e)
    BY <1>1 DEF Full
  <2>2. store' \in Seq(Entry) /\ Len(store') = Len(store) + 1
    <3>1. Append(store, e) \in Seq(Entry)
      OBVIOUS
    <3>2. Len(Append(store, e)) = Len(store) + 1
      OBVIOUS
    <3>3. QED
      BY <2>1, <3>1, <3>2
  <2>3. /\ \A k \in 1..Len(store) : store'[k] = store[k]
        /\ store'[Len(store) + 1] = e
    BY <2>1
  <2>4. Distinct'
    BY <2>2, <2>3 DEF Distinct, Remembered
  <2>5. Remembered' = Remembered \cup {e.task}
    BY <2>2, <2>3 DEF Remembered
  <2>6. QED
    BY <1>1, <2>1, <2>2, <2>4, <2>5 DEF Kept
<1>2. CASE Full
  <2>1. Len(store) = MaxEntries /\ Len(store) >= 1 /\ store' = Append(Tail(store), e)
    BY <1>2 DEF Full
  <2>2. store' \in Seq(Entry) /\ Len(store') = Len(store)
    BY <2>1
  <2>3. /\ \A k \in 1..(Len(store) - 1) : store'[k] = store[k + 1]
        /\ store'[Len(store)] = e
        /\ Head(store) = store[1]
    BY <2>1
  <2>4. Distinct'
    BY <2>1, <2>2, <2>3 DEF Distinct, Remembered
  <2>5. Remembered' = (Remembered \ {Head(store).task}) \cup {e.task}
    <3>1. ASSUME NEW u \in Remembered' PROVE u \in (Remembered \ {Head(store).task}) \cup {e.task}
      <4>1. PICK k \in 1..Len(store) : u = store'[k].task
        BY <2>2, <3>1 DEF Remembered
      <4>2. CASE k = Len(store)
        BY <2>3, <4>1, <4>2
      <4>3. CASE k # Len(store)
        <5>1. k \in 1..(Len(store) - 1) /\ k + 1 \in DOMAIN store /\ 1 \in DOMAIN store
          BY <2>1, <4>3
        <5>2. u = store[k + 1].task
          BY <2>3, <4>1, <5>1
        <5>3. QED
          BY <2>3, <5>1, <5>2 DEF Remembered, Distinct
      <4>4. QED
        BY <4>2, <4>3
    <3>2. ASSUME NEW u \in Remembered, u # Head(store).task PROVE u \in Remembered'
      <4>1. PICK k \in 1..Len(store) : u = store[k].task
        BY <3>2 DEF Remembered
      <4>2. k # 1 /\ k - 1 \in 1..(Len(store) - 1) /\ k - 1 \in DOMAIN store'
        BY <2>1, <2>2, <2>3, <3>2, <4>1
      <4>3. store'[k - 1] = store[k]
        BY <2>3, <4>1, <4>2
      <4>4. QED
        BY <4>1, <4>2, <4>3 DEF Remembered
    <3>3. e.task \in Remembered'
      BY <2>1, <2>2, <2>3 DEF Remembered
    <3>4. QED
      BY <3>1, <3>2, <3>3
  <2>6. Head(store).task \in Remembered
    BY <2>1, <2>3 DEF Remembered
  <2>7. QED
    BY <1>2, <2>1, <2>2, <2>4, <2>5, <2>6 DEF Kept
<1>3. QED
  BY <1>1, <1>2
-----------------------------------------------------------------------------
(* Types, and commands identified by their nonces *)

\* A nonce names at most one command, the next one is fresh, and only a command
\* that was sent is accepted.
NonceFacts ==
    /\ IsFiniteSet(network)
    /\ \A c \in network : c.nonce <= Cardinality(network)
    /\ \A c, d \in network : c.nonce = d.nonce => c = d
    /\ \A n \in Nonce : accepted[n] >= 1 => \E c \in network : c.nonce = n

BaseInv == TypeOK /\ NonceFacts /\ Distinct

\* The process starts with an empty store and nothing on its way.
LEMMA BaseInit == Init => BaseInv
<1> SUFFICES ASSUME Init PROVE BaseInv
  OBVIOUS
<1>1. IsFiniteSet(network)
  BY FS_EmptySet DEF Init
<1>2. store \in Seq(Entry) /\ Len(store) = 0 /\ DOMAIN store = {} /\ Remembered = {}
  BY DEF Init, Remembered
<1>3. TypeOK
  <2>1. row \in [Task -> Row]
    BY Numbers DEF Init, Row
  <2>2. QED
    BY <1>2, <2>1, Numbers DEF Init, TypeOK, Entry
<1>4. NonceFacts
  BY <1>1 DEF Init, NonceFacts
<1>5. QED
  BY <1>2, <1>3, <1>4 DEF BaseInv, Distinct

\* The orchestrator's fresh nonce belongs to no other command.
LEMMA DispatchBase ==
  ASSUME BaseInv, NEW t \in Task, Dispatch(t)
  PROVE  BaseInv'
<1> DEFINE n == Cardinality(network) + 1
<1>1. PICK d \in Offset :
         /\ row' = [row EXCEPT ![t] = Claimed(@, now + d)]
         /\ network' = network \cup
               {[nonce |-> n, task |-> t, timestamp |-> now + d, body |-> Body(row'[t])]}
  BY DEF Dispatch
<1>2. Cardinality(network) \in Nat /\ IsFiniteSet(network)
  BY FS_CardinalityType DEF BaseInv, NonceFacts
<1>3. n \in Nonce /\ n <= MaxCommands
  BY <1>2, Numbers DEF Dispatch, Nonce
<1>a. row' \in [Task -> Row] /\ Body(row'[t]) \in BodyColumns
  BY <1>1, ClaimKeepsBody, Numbers DEF BaseInv, TypeOK
<1> DEFINE new == [nonce |-> n, task |-> t, timestamp |-> now + d, body |-> Body(row'[t])]
<1>4. new \in Command /\ now + d \in Int
  BY <1>3, <1>a, Numbers DEF Command, BaseInv, TypeOK
<1>5. TypeOK'
  BY <1>1, <1>4, <1>a DEF Dispatch, BaseInv, TypeOK, storeVars, execVars, historyVars, Remembered
<1>6. new \notin network /\ \A c \in network : c.nonce # n /\ c.nonce \in Nonce
  BY <1>2 DEF BaseInv, TypeOK, NonceFacts, Command, Nonce
<1>7. IsFiniteSet(network') /\ Cardinality(network') = n
  BY <1>1, <1>2, <1>6, FS_AddElement
<1>8. NonceFacts'
  <2>1. \A c \in network' : c.nonce <= Cardinality(network')
    <3>1. ASSUME NEW c \in network PROVE c.nonce <= n
      <4>1. c.nonce <= Cardinality(network) /\ c.nonce \in Nat
        BY <1>6 DEF BaseInv, NonceFacts, Nonce
      <4>2. QED
        BY <1>2, <4>1
    <3>2. new.nonce <= n
      BY <1>2
    <3>3. QED
      BY <1>1, <1>7, <3>1, <3>2
  <2>2. \A c, d2 \in network' : c.nonce = d2.nonce => c = d2
    BY <1>1, <1>6 DEF BaseInv, NonceFacts
  <2>3. \A m \in Nonce : accepted'[m] >= 1 => \E c \in network' : c.nonce = m
    BY <1>1 DEF Dispatch, historyVars, BaseInv, NonceFacts
  <2>4. QED
    BY <1>7, <2>1, <2>2, <2>3 DEF NonceFacts
<1>9. Distinct'
  BY DEF Dispatch, storeVars, BaseInv, Distinct
<1>10. QED
  BY <1>5, <1>8, <1>9 DEF BaseInv

\* What a recorded delivery writes into the nonce table.
LEMMA RecordType ==
  ASSUME TypeOK, NEW c \in network, Record(c)
  PROVE  /\ c \in Command /\ c.task \in Served /\ c.nonce \in Nonce /\ c.body \in BodyColumns
         /\ nonces' \subseteq [nonce : Nonce, expiry : Nat]
<1>1. c \in Command
  BY DEF TypeOK
<1>2. c.task \in Served /\ c.nonce \in Nonce /\ c.body \in BodyColumns
  BY <1>1 DEF Record, Admissible, Command
<1>3. NonceExpiry \in Nat
  BY Numbers DEF NonceExpiry, TypeOK
<1>4. QED
  BY <1>1, <1>2, <1>3 DEF Record, LiveNonces, TypeOK

\* A step that leaves the commands and the store alone.
LEMMA SameStoreBase ==
  ASSUME BaseInv, TypeOK', UNCHANGED <<network, store>>,
         \A n \in Nonce : accepted'[n] >= 1 =>
             accepted[n] >= 1 \/ \E c \in network : c.nonce = n
  PROVE  BaseInv'
<1>1. NonceFacts'
  BY DEF BaseInv, NonceFacts
<1>2. Distinct'
  BY DEF BaseInv, Distinct
<1>3. QED
  BY <1>1, <1>2 DEF BaseInv

\* A delivery, whatever its answer, keeps the store and the nonces in order.
LEMMA DeliverBase ==
  ASSUME BaseInv, NEW c \in network, Deliver(c)
  PROVE  BaseInv'
<1>1. TypeOK
  BY DEF BaseInv
<1>2. CASE RefuseReplay(c)
  <2>1. nonces' \subseteq [nonce : Nonce, expiry : Nat]
    BY <1>1, <1>2 DEF RefuseReplay, LiveNonces, TypeOK
  <2>2. TypeOK'
    BY <1>1, <1>2, <2>1 DEF RefuseReplay, TypeOK, execVars, historyVars, Remembered
  <2>3. QED
    BY <1>2, <2>2, SameStoreBase DEF RefuseReplay, historyVars
<1>3. CASE AcceptAgain(c)
  <2>1. nonces' \subseteq [nonce : Nonce, expiry : Nat] /\ c.nonce \in Nonce
    BY <1>1, <1>3, RecordType DEF AcceptAgain
  <2>2. accepted' = [accepted EXCEPT ![c.nonce] = @ + 1] \/ accepted' = accepted
    BY <1>3 DEF AcceptAgain
  <2>3. accepted' \in [Nonce -> Nat]
    <3>1. accepted \in [Nonce -> Nat]
      BY <1>1 DEF TypeOK
    <3>2. QED
      BY <2>1, <2>2, <3>1, Counting
  <2>4. TypeOK'
    BY <1>1, <1>3, <2>1, <2>3 DEF AcceptAgain, TypeOK, execVars, Remembered
  <2>5. \A n \in Nonce : accepted'[n] >= 1 => accepted[n] >= 1 \/ \E d \in network : d.nonce = n
    BY <1>1, <2>1, <2>2 DEF TypeOK
  <2>6. QED
    BY <1>3, <2>4, <2>5, SameStoreBase DEF AcceptAgain
<1>4. CASE AcceptNew(c)
  <2> DEFINE entry == [task |-> c.task, body |-> c.body]
  <2>1. nonces' \subseteq [nonce : Nonce, expiry : Nat] /\ c.nonce \in Nonce /\ c.task \in Served
        /\ c.body \in BodyColumns
    BY <1>1, <1>4, RecordType DEF AcceptNew
  <2>2. c.task \in Task
    BY <2>1, Numbers
  <2>3. entry \in Entry /\ entry.task = c.task
    BY <2>1, <2>2 DEF Entry
  <2>4. store \in Seq(Entry) /\ Len(store) <= MaxEntries /\ Distinct
    BY DEF BaseInv, TypeOK, Entry
  <2>5. /\ c.task \notin Remembered
        /\ store' = Append(IF Full THEN Tail(store) ELSE store, entry)
    BY <1>4 DEF AcceptNew
  <2>6. /\ store' \in Seq(Entry) /\ Len(store') <= MaxEntries /\ Distinct'
        /\ Remembered' = Kept \cup {c.task}
        /\ Full => Head(store).task \in Remembered
    BY <2>3, <2>4, <2>5, StoreAppend
  <2>7. Remembered \subseteq Task
    <3>1. \A k \in DOMAIN store : store[k] \in Entry
      BY <2>4
    <3>2. \A k \in DOMAIN store : store[k].task \in Task
      BY <3>1, Numbers DEF Entry
    <3>3. QED
      BY <3>2 DEF Remembered
  <2>8. accepted' \in [Nonce -> Nat] /\ starts' \in [Task -> Nat] /\ running' \in [Task -> Nat]
    <3>1. accepted \in [Nonce -> Nat] /\ starts \in [Task -> Nat] /\ running \in [Task -> Nat]
      BY <1>1 DEF TypeOK
    <3>2. /\ accepted' = [accepted EXCEPT ![c.nonce] = @ + 1]
          /\ starts' = [starts EXCEPT ![c.task] = @ + 1]
          /\ running' = [running EXCEPT ![c.task] = @ + 1]
      BY <1>4 DEF AcceptNew
    <3>3. QED
      BY <2>1, <2>2, <3>1, <3>2, Counting
  <2>9. forgets' \in [Task -> Nat]
    BY <1>1, <1>4, <2>6, <2>7 DEF AcceptNew, TypeOK
  <2>10. answered' \subseteq Remembered'
    BY <1>1, <1>4, <2>6 DEF AcceptNew, Kept, TypeOK
  <2>11. TypeOK'
    BY <1>1, <1>4, <2>1, <2>6, <2>8, <2>9, <2>10 DEF AcceptNew, TypeOK, Entry
  <2>12. \A n \in Nonce : accepted'[n] >= 1 => accepted[n] >= 1 \/ n = c.nonce
    BY <1>1, <1>4, <2>1 DEF AcceptNew, TypeOK
  <2>13. NonceFacts'
    BY <1>4, <2>12 DEF AcceptNew, BaseInv, NonceFacts
  <2>14. QED
    BY <2>6, <2>11, <2>13 DEF BaseInv
<1>5. QED
  BY <1>2, <1>3, <1>4 DEF Deliver

\* The executions do not touch the store.
LEMMA ExecuteBase ==
  ASSUME BaseInv, NEW t \in Task, Execute(t)
  PROVE  BaseInv'
<1>1. running' \in [Task -> Nat] /\ posting' \in [Task -> Nat]
  <2>1. running \in [Task -> Nat] /\ posting \in [Task -> Nat]
    BY DEF BaseInv, TypeOK
  <2>2. /\ \/ running' = running
           \/ running[t] > 0 /\ running' = [running EXCEPT ![t] = @ - 1]
        /\ \/ posting' = posting
           \/ posting' = [posting EXCEPT ![t] = @ + 1]
           \/ posting[t] > 0 /\ posting' = [posting EXCEPT ![t] = @ - 1]
    BY DEF Execute, Analyse, AnalysisRaises, HubAnswers, PostFails
  <2>3. QED
    BY <2>1, <2>2, Counting
<1>2. UNCHANGED <<now, row, network, nonces, store, restarts, accepted, starts, forgets>>
  BY DEF Execute, Analyse, AnalysisRaises, HubAnswers, PostFails, storeVars, historyVars
<1>3. answered' \subseteq Remembered
  BY DEF Execute, Analyse, AnalysisRaises, HubAnswers, PostFails, storeVars, BaseInv, TypeOK
<1>4. TypeOK'
  BY <1>1, <1>2, <1>3 DEF BaseInv, TypeOK, Remembered
<1>5. QED
  BY <1>2, <1>4, SameStoreBase

\* A restart empties store and nonces at once.
LEMMA RestartBase ==
  ASSUME BaseInv, Restart
  PROVE  BaseInv'
<1>1. store' \in Seq(Entry) /\ Len(store') = 0 /\ DOMAIN store' = {} /\ Remembered' = {}
  BY DEF Restart, Remembered
<1>2. forgets' \in [Task -> Nat]
  BY DEF Restart, BaseInv, TypeOK
<1>3. TypeOK'
  BY <1>1, <1>2, Numbers DEF Restart, BaseInv, TypeOK, Entry
<1>4. NonceFacts'
  BY DEF Restart, BaseInv, NonceFacts
<1>5. QED
  BY <1>1, <1>3, <1>4 DEF BaseInv, Distinct

\* BaseInv is inductive.
LEMMA BaseStep ==
  ASSUME BaseInv, [Next]_vars
  PROVE  BaseInv'
<1>1. CASE Tick
  <2>1. TypeOK'
    BY <1>1 DEF Tick, BaseInv, TypeOK, storeVars, execVars, historyVars, Remembered
  <2>2. QED
    BY <1>1, <2>1, SameStoreBase DEF Tick, storeVars, historyVars
<1>2. CASE UNCHANGED vars
  BY <1>2 DEF vars, storeVars, execVars, historyVars, BaseInv, TypeOK, NonceFacts,
              Distinct, Remembered
<1>3. QED
  BY <1>1, <1>2, DispatchBase, DeliverBase, ExecuteBase, RestartBase DEF Next

\* BaseInv holds in every reachable state.
LEMMA BaseInvariant == Spec => []BaseInv
BY BaseInit, BaseStep, PTL DEF Spec

\* Every variable of the runtime keeps its type, and the store its capacity.
THEOREM RuntimeTypes == Spec => []TypeOK
<1>1. BaseInv => TypeOK
  BY DEF BaseInv
<1>2. QED
  BY <1>1, BaseInvariant, PTL
-----------------------------------------------------------------------------
(* An accepted command's nonce is remembered for as long as the command is   *)
(* young enough to be accepted again.                                        *)

StillKnown(c) == \E m \in nonces : m.nonce = c.nonce /\ m.expiry > c.timestamp + Skew
TooOld(c) == now > c.timestamp + Skew

ReplayFacts ==
    \A c \in network : accepted[c.nonce] >= 1 =>
        accepted[c.nonce] = 1 /\ (StillKnown(c) \/ TooOld(c))

ReplayInv == BaseInv /\ ReplayFacts

\* Dropping the expired nonces leaves no command young and unknown.
LEMMA PurgeKeeps ==
  ASSUME TypeOK, NEW c \in network, StillKnown(c) \/ TooOld(c), LiveNonces \subseteq nonces',
         now' = now
  PROVE  StillKnown(c)' \/ TooOld(c)'
<1>1. c.timestamp \in Int /\ Skew \in Nat /\ now \in Nat
  BY Numbers DEF TypeOK, Command
<1>2. CASE TooOld(c)
  BY <1>2 DEF TooOld
<1>3. CASE StillKnown(c)
  <2>1. PICK m \in nonces : m.nonce = c.nonce /\ m.expiry > c.timestamp + Skew
    BY <1>3 DEF StillKnown
  <2>2. m.expiry \in Nat
    BY DEF TypeOK
  <2>3. CASE m.expiry > now
    BY <2>1, <2>3 DEF LiveNonces, StillKnown
  <2>4. CASE ~(m.expiry > now)
    BY <1>1, <2>1, <2>2, <2>4 DEF TooOld
  <2>5. QED
    BY <2>3, <2>4
<1>4. QED
  BY <1>2, <1>3

\* A command whose nonce is taken as new has not been accepted before, and is
\* known until it is too old.
LEMMA RecordFirst ==
  ASSUME ReplayInv, NonceTtl > 2 * Skew, NEW c \in network, Record(c), now' = now
  PROVE  accepted[c.nonce] = 0 /\ StillKnown(c)'
<1>1. /\ c.timestamp \in Int /\ c.nonce \in Nonce /\ now \in Nat /\ accepted[c.nonce] \in Nat
      /\ Skew \in Nat /\ NonceTtl \in Nat
  BY Numbers DEF ReplayInv, BaseInv, TypeOK, Command
<1>2. now - c.timestamp <= Skew /\ now - c.timestamp >= -Skew
  BY DEF Record, Admissible
<1>3. ~TooOld(c)
  BY <1>1, <1>2 DEF TooOld
<1>4. ~StillKnown(c)
  <2>1. SUFFICES ASSUME NEW m \in nonces, m.nonce = c.nonce, m.expiry > c.timestamp + Skew
                 PROVE  FALSE
    BY DEF StillKnown
  <2>2. m.expiry \in Nat
    BY DEF ReplayInv, BaseInv, TypeOK
  <2>3. m.expiry > now
    BY <1>1, <1>2, <2>1, <2>2
  <2>4. QED
    BY <2>1, <2>3 DEF Record, LiveNonces
<1>5. accepted[c.nonce] = 0
  BY <1>1, <1>3, <1>4 DEF ReplayInv, ReplayFacts
<1>6. StillKnown(c)'
  <2>1. [nonce |-> c.nonce, expiry |-> NonceExpiry] \in nonces'
    BY DEF Record
  <2>2. NonceExpiry > c.timestamp + Skew
    BY <1>1, <1>2 DEF NonceExpiry
  <2>3. QED
    BY <2>1, <2>2 DEF StillKnown
<1>7. QED
  BY <1>5, <1>6

\* No step forgets a nonce whose command is still young enough to be accepted.
LEMMA ReplayStep ==
  ASSUME ReplayInv, [Next]_vars, NonceTtl > 2 * Skew
  PROVE  ReplayInv'
<1>1. BaseInv /\ BaseInv' /\ TypeOK
  BY BaseStep DEF ReplayInv, BaseInv
<1>2. ASSUME NEW c \in network, Deliver(c) PROVE ReplayFacts'
  <2>1. now' = now /\ network' = network /\ LiveNonces \subseteq nonces'
    BY <1>2 DEF Deliver, RefuseReplay, AcceptAgain, AcceptNew, Record
  <2>2. \A d \in network : accepted[d.nonce] >= 1 =>
           accepted[d.nonce] = 1 /\ (StillKnown(d)' \/ TooOld(d)')
    BY <1>1, <2>1, PurgeKeeps DEF ReplayInv, ReplayFacts
  <2>3. CASE accepted' = accepted
    BY <2>1, <2>2, <2>3 DEF ReplayFacts
  <2>4. CASE accepted' # accepted
    <3>1. Record(c) /\ accepted' = [accepted EXCEPT ![c.nonce] = @ + 1]
      BY <1>2, <2>4 DEF Deliver, RefuseReplay, AcceptAgain, AcceptNew, historyVars
    <3>2. accepted[c.nonce] = 0 /\ StillKnown(c)'
      BY <2>1, <3>1, RecordFirst
    <3>3. accepted \in [Nonce -> Nat] /\ c.nonce \in Nonce
      BY <1>1, <3>1, RecordType DEF TypeOK
    <3>4. \A d \in network : d.nonce = c.nonce => d = c
      BY <1>1 DEF BaseInv, NonceFacts
    <3>5. accepted'[c.nonce] = 1
      BY <3>1, <3>2, <3>3
    <3>6. \A d \in network : d # c => accepted'[d.nonce] = accepted[d.nonce]
      BY <3>1, <3>3, <3>4
    <3>7. QED
      BY <2>1, <2>2, <3>2, <3>5, <3>6 DEF ReplayFacts
  <2>5. QED
    BY <2>3, <2>4
<1>3. ASSUME NEW t \in Task, Dispatch(t) PROVE ReplayFacts'
  <2>1. UNCHANGED <<now, nonces, accepted>>
    BY <1>3 DEF Dispatch, storeVars, historyVars
  <2>2. PICK new \in network' : network' = network \cup {new} /\ new.nonce = Cardinality(network) + 1
    <3>1. PICK d \in Offset :
            network' = network \cup {[nonce |-> Cardinality(network) + 1, task |-> t,
                                      timestamp |-> now + d, body |-> Body(row'[t])]}
      BY <1>3 DEF Dispatch
    <3>2. PICK x : x = [nonce |-> Cardinality(network) + 1, task |-> t,
                        timestamp |-> now + d, body |-> Body(row'[t])]
      OBVIOUS
    <3>3. x \in network' /\ network' = network \cup {x} /\ x.nonce = Cardinality(network) + 1
      BY <3>1, <3>2
    <3>4. QED
      BY <3>3
  <2>3. \A c \in network : c.nonce # new.nonce
    <3>1. Cardinality(network) \in Nat
      BY <1>1, FS_CardinalityType DEF BaseInv, NonceFacts
    <3>2. \A c \in network : c.nonce \in Nat /\ c.nonce <= Cardinality(network)
      BY <1>1 DEF BaseInv, NonceFacts, TypeOK, Command, Nonce
    <3>3. QED
      BY <2>2, <3>1, <3>2
  <2>4. new.nonce \in Nonce
    BY <1>1 DEF BaseInv, TypeOK, Command
  <2>5. ~(accepted[new.nonce] >= 1)
    BY <1>1, <2>3, <2>4 DEF BaseInv, NonceFacts
  <2>6. \A c \in network : StillKnown(c)' = StillKnown(c) /\ TooOld(c)' = TooOld(c)
    BY <2>1 DEF StillKnown, TooOld
  <2>7. QED
    BY <2>1, <2>2, <2>5, <2>6 DEF ReplayInv, ReplayFacts
<1>4. ASSUME Tick PROVE ReplayFacts'
  <2>1. UNCHANGED <<network, nonces, accepted>> /\ now' = now + 1
    BY <1>4 DEF Tick, storeVars, historyVars
  <2>2. ASSUME NEW c \in network, TooOld(c) PROVE TooOld(c)'
    <3>1. c.timestamp \in Int /\ Skew \in Nat /\ now \in Nat
      BY <1>1, Numbers DEF TypeOK, Command
    <3>2. QED
      BY <2>1, <2>2, <3>1 DEF TooOld
  <2>3. \A c \in network : StillKnown(c) => StillKnown(c)'
    BY <2>1 DEF StillKnown
  <2>4. \A c \in network : TooOld(c) => TooOld(c)'
    BY <2>2
  <2>5. SUFFICES ASSUME NEW c \in network, accepted[c.nonce] >= 1
                 PROVE  accepted[c.nonce] = 1 /\ (StillKnown(c)' \/ TooOld(c)')
    BY <2>1 DEF ReplayFacts
  <2>6. QED
    BY <2>3, <2>4, <2>5 DEF ReplayInv, ReplayFacts
<1>5. ASSUME Restart PROVE ReplayFacts'
  <2>1. network' = network /\ \A c \in network : accepted'[c.nonce] = 0
    BY <1>1, <1>5 DEF Restart, TypeOK, Command
  <2>2. SUFFICES ASSUME NEW c \in network, accepted'[c.nonce] >= 1 PROVE FALSE
    BY <2>1 DEF ReplayFacts
  <2>3. QED
    BY <2>1, <2>2
<1>6. ASSUME UNCHANGED vars \/ \E t \in Task : Execute(t) PROVE ReplayFacts'
  <2>1. UNCHANGED <<now, network, nonces, accepted>>
    BY <1>6 DEF vars, storeVars, historyVars, Execute, Analyse, AnalysisRaises,
                HubAnswers, PostFails
  <2>2. \A c \in network : /\ StillKnown(c) => StillKnown(c)'
                           /\ TooOld(c) => TooOld(c)'
    BY <2>1 DEF StillKnown, TooOld
  <2>3. SUFFICES ASSUME NEW c \in network, accepted[c.nonce] >= 1
                 PROVE  accepted[c.nonce] = 1 /\ (StillKnown(c)' \/ TooOld(c)')
    BY <2>1 DEF ReplayFacts
  <2>4. QED
    BY <2>2, <2>3 DEF ReplayInv, ReplayFacts
<1>7. QED
  BY <1>1, <1>2, <1>3, <1>4, <1>5, <1>6 DEF Next, ReplayInv

\* With a nonce lifetime above twice the clock skew, a process accepts no command
\* twice, whatever the network repeats or delays.
THEOREM NoReplayAccepted == Spec => []AcceptedOnce
<1>1. CASE NonceTtl > 2 * Skew
  <2>1. Init => ReplayInv
    <3>1. Init => ReplayFacts
      BY DEF Init, ReplayFacts
    <3>2. QED
      BY <3>1, BaseInit DEF ReplayInv
  <2>2. ReplayInv /\ [Next]_vars => ReplayInv'
    BY <1>1, ReplayStep
  <2>3. ReplayInv => AcceptedOnce
    <3>1. SUFFICES ASSUME ReplayInv, NEW n \in Nonce PROVE accepted[n] <= 1
      BY DEF AcceptedOnce
    <3>2. accepted[n] \in Nat
      BY <3>1 DEF ReplayInv, BaseInv, TypeOK
    <3>3. accepted[n] >= 1 => accepted[n] = 1
      BY <3>1 DEF ReplayInv, BaseInv, NonceFacts, ReplayFacts
    <3>4. QED
      BY <3>2, <3>3
  <2>4. QED
    BY <2>1, <2>2, <2>3, PTL DEF Spec
<1>2. CASE ~(NonceTtl > 2 * Skew)
  <2>1. AcceptedOnce
    BY <1>2 DEF AcceptedOnce
  <2>2. QED
    BY <2>1, PTL
<1>3. QED
  BY <1>1, <1>2
-----------------------------------------------------------------------------
(* Every start of a task but one is paid for by a loss of it.                *)

StartsPaid == \A t \in Task : starts[t] = forgets[t] + IF t \in Remembered THEN 1 ELSE 0

AcceptedStarted == \A c \in network : accepted[c.nonce] >= 1 => starts[c.task] >= 1

WorkInv == BaseInv /\ StartsPaid /\ AcceptedStarted

\* A new task is the only one started, and the evicted one the only one lost.
LEMMA AcceptNewWork ==
  ASSUME BaseInv, NEW c \in network, AcceptNew(c)
  PROVE  /\ c.task \in Task /\ c.nonce \in Nonce
         /\ c.task \notin Remembered /\ c.task \in Remembered'
         /\ Remembered' = Kept \cup {c.task}
         /\ Full => Head(store).task \in Remembered /\ Head(store).task \in Task
<1>1. c.nonce \in Nonce /\ c.task \in Served /\ c.task \in Task /\ c.body \in BodyColumns
  BY RecordType, Numbers DEF AcceptNew, BaseInv
<1> DEFINE entry == [task |-> c.task, body |-> c.body]
<1>2. entry \in Entry /\ entry.task = c.task
  BY <1>1 DEF Entry
<1>3. store \in Seq(Entry) /\ Len(store) <= MaxEntries /\ Distinct
  BY DEF BaseInv, TypeOK, Entry
<1>4. /\ c.task \notin Remembered
      /\ store' = Append(IF Full THEN Tail(store) ELSE store, entry)
  BY DEF AcceptNew
<1>5. Remembered' = Kept \cup {c.task} /\ (Full => Head(store).task \in Remembered)
  BY <1>2, <1>3, <1>4, StoreAppend
<1>6. Remembered \subseteq Task
  <2>1. \A k \in DOMAIN store : store[k] \in Entry
    BY <1>3
  <2>2. \A k \in DOMAIN store : store[k].task \in Task
    BY <2>1, Numbers DEF Entry
  <2>3. QED
    BY <2>2 DEF Remembered
<1>7. QED
  BY <1>1, <1>4, <1>5, <1>6

\* A step that starts and forgets nothing and accepts at most what was started.
LEMMA WorkKept ==
  ASSUME WorkInv, BaseInv', UNCHANGED <<network, store, starts, forgets>>,
         \A c \in network : accepted'[c.nonce] >= 1 =>
            accepted[c.nonce] >= 1 \/ c.task \in Remembered
  PROVE  WorkInv'
<1>1. Remembered' = Remembered
  BY DEF Remembered
<1>2. StartsPaid'
  BY <1>1 DEF WorkInv, StartsPaid
<1>3. ASSUME NEW c \in network, c.task \in Remembered PROVE starts[c.task] >= 1
  <2>1. c.task \in Task /\ forgets[c.task] \in Nat
    BY DEF WorkInv, BaseInv, TypeOK, Command
  <2>2. QED
    BY <1>3, <2>1 DEF WorkInv, StartsPaid
<1>4. AcceptedStarted'
  BY <1>3 DEF WorkInv, AcceptedStarted
<1>5. QED
  BY <1>2, <1>4 DEF WorkInv

\* WorkInv is inductive.
LEMMA WorkStep ==
  ASSUME WorkInv, [Next]_vars
  PROVE  WorkInv'
<1>1. BaseInv /\ BaseInv' /\ TypeOK
  BY BaseStep DEF WorkInv, BaseInv
<1>2. ASSUME NEW c \in network, AcceptNew(c) PROVE WorkInv'
  <2>1. /\ c.task \in Task /\ c.nonce \in Nonce
        /\ c.task \notin Remembered /\ c.task \in Remembered'
        /\ Remembered' = Kept \cup {c.task}
        /\ Full => Head(store).task \in Remembered /\ Head(store).task \in Task
    BY <1>1, <1>2, AcceptNewWork
  <2>2. /\ starts' = [starts EXCEPT ![c.task] = @ + 1]
        /\ forgets' = IF Full THEN [forgets EXCEPT ![Head(store).task] = @ + 1] ELSE forgets
        /\ accepted' = [accepted EXCEPT ![c.nonce] = @ + 1]
        /\ network' = network
    BY <1>2 DEF AcceptNew
  <2>3. /\ starts \in [Task -> Nat] /\ forgets \in [Task -> Nat] /\ accepted \in [Nonce -> Nat]
        /\ \A d \in network : d.task \in Task /\ d.nonce \in Nonce
    BY <1>1 DEF TypeOK, Command
  <2>4. ASSUME NEW t \in Task
        PROVE  starts'[t] = forgets'[t] + IF t \in Remembered' THEN 1 ELSE 0
    <3>1. starts[t] = forgets[t] + IF t \in Remembered THEN 1 ELSE 0
      BY DEF WorkInv, StartsPaid
    <3>2. CASE t = c.task
      <4>1. starts'[t] = starts[t] + 1
        BY <2>2, <2>3, <3>2
      <4>2. forgets'[t] = forgets[t]
        BY <2>1, <2>2, <2>3, <3>2
      <4>3. t \notin Remembered /\ t \in Remembered' /\ forgets[t] \in Nat
        BY <2>1, <2>3, <3>2
      <4>4. QED
        BY <3>1, <4>1, <4>2, <4>3
    <3>3. CASE t # c.task /\ ~Full
      <4>1. starts'[t] = starts[t] /\ forgets'[t] = forgets[t]
        BY <2>2, <2>3, <3>3
      <4>2. t \in Remembered' <=> t \in Remembered
        BY <2>1, <3>3 DEF Kept
      <4>3. QED
        BY <3>1, <4>1, <4>2
    <3>4. CASE t # c.task /\ Full /\ t # Head(store).task
      <4>1. starts'[t] = starts[t] /\ forgets'[t] = forgets[t]
        BY <2>2, <2>3, <3>4
      <4>2. t \in Remembered' <=> t \in Remembered
        BY <2>1, <3>4 DEF Kept
      <4>3. QED
        BY <3>1, <4>1, <4>2
    <3>5. CASE t # c.task /\ Full /\ t = Head(store).task
      <4>1. starts'[t] = starts[t] /\ forgets'[t] = forgets[t] + 1
        BY <2>2, <2>3, <3>5
      <4>2. t \in Remembered /\ t \notin Remembered' /\ forgets[t] \in Nat
        BY <2>1, <2>3, <3>5 DEF Kept
      <4>3. QED
        BY <3>1, <4>1, <4>2
    <3>6. QED
      BY <3>2, <3>3, <3>4, <3>5
  <2>5. ASSUME NEW d \in network, accepted'[d.nonce] >= 1 PROVE starts'[d.task] >= 1
    <3>1. starts'[d.task] >= starts[d.task] /\ starts[d.task] \in Nat
      BY <2>1, <2>2, <2>3
    <3>2. CASE d = c
      BY <2>1, <2>2, <2>3, <3>2
    <3>3. CASE d # c
      <4>1. d.nonce # c.nonce
        BY <1>1, <3>3 DEF BaseInv, NonceFacts
      <4>2. accepted[d.nonce] >= 1
        BY <2>2, <2>3, <2>5, <4>1
      <4>3. starts[d.task] >= 1
        BY <4>2 DEF WorkInv, AcceptedStarted
      <4>4. starts'[d.task] \in Nat
        BY <2>2, <2>3, <2>1
      <4>5. QED
        BY <3>1, <4>3, <4>4
    <3>4. QED
      BY <3>2, <3>3
  <2>6. StartsPaid' /\ AcceptedStarted'
    BY <2>2, <2>4, <2>5 DEF StartsPaid, AcceptedStarted
  <2>7. QED
    BY <1>1, <2>6 DEF WorkInv
<1>3. ASSUME NEW c \in network, AcceptAgain(c) PROVE WorkInv'
  <2>1. UNCHANGED <<network, store, starts, forgets>> /\ c.task \in Remembered
        /\ (accepted' = accepted \/ accepted' = [accepted EXCEPT ![c.nonce] = @ + 1])
    BY <1>3 DEF AcceptAgain
  <2>2. \A d \in network : accepted'[d.nonce] >= 1 =>
           accepted[d.nonce] >= 1 \/ d.task \in Remembered
    <3>1. SUFFICES ASSUME NEW d \in network, accepted'[d.nonce] >= 1
                   PROVE  accepted[d.nonce] >= 1 \/ d.task \in Remembered
      OBVIOUS
    <3>2. CASE d = c
      BY <2>1, <3>2
    <3>3. CASE d # c
      <4>1. d.nonce # c.nonce
        BY <1>1, <3>3 DEF BaseInv, NonceFacts
      <4>2. accepted'[d.nonce] = accepted[d.nonce]
        BY <1>1, <2>1, <4>1 DEF TypeOK, Command
      <4>3. QED
        BY <3>1, <4>2
    <3>4. QED
      BY <3>2, <3>3
  <2>3. QED
    BY <1>1, <2>1, <2>2, WorkKept
<1>4. ASSUME \/ Tick \/ UNCHANGED vars
             \/ \E t \in Task : Execute(t)
             \/ \E c \in network : RefuseReplay(c)
      PROVE  WorkInv'
  <2>1. UNCHANGED <<network, store, starts, forgets, accepted>>
    BY <1>4 DEF Tick, vars, storeVars, historyVars, RefuseReplay, Execute, Analyse,
                AnalysisRaises, HubAnswers, PostFails
  <2>2. QED
    BY <1>1, <2>1, WorkKept
<1>5. ASSUME NEW t \in Task, Dispatch(t) PROVE WorkInv'
  <2>1. UNCHANGED <<store, starts, forgets, accepted>>
    BY <1>5 DEF Dispatch, storeVars, historyVars
  <2>2. StartsPaid'
    BY <2>1 DEF WorkInv, StartsPaid, Remembered
  <2>3. ASSUME NEW c \in network', accepted'[c.nonce] >= 1 PROVE starts'[c.task] >= 1
    <3>1. c.nonce \in Nonce
      BY <1>1 DEF BaseInv, TypeOK, Command
    <3>2. PICK d \in network : d.nonce = c.nonce
      BY <1>1, <2>1, <2>3, <3>1 DEF BaseInv, NonceFacts
    <3>3. d \in network'
      BY <1>5 DEF Dispatch
    <3>4. c = d
      BY <1>1, <3>2, <3>3 DEF BaseInv, NonceFacts
    <3>5. QED
      BY <2>1, <2>3, <3>4 DEF WorkInv, AcceptedStarted
  <2>4. AcceptedStarted'
    BY <2>3 DEF AcceptedStarted
  <2>5. QED
    BY <1>1, <2>2, <2>4 DEF WorkInv
<1>6. ASSUME Restart PROVE WorkInv'
  <2>1. Remembered' = {}
    BY <1>6 DEF Restart, Remembered
  <2>2. \A t \in Task : forgets'[t] = forgets[t] + IF t \in Remembered THEN 1 ELSE 0
    BY <1>6 DEF Restart
  <2>3. forgets' \in [Task -> Nat]
    BY <1>1 DEF BaseInv, TypeOK
  <2>4. StartsPaid'
    BY <1>6, <2>1, <2>2, <2>3 DEF Restart, WorkInv, StartsPaid
  <2>5. \A c \in network : accepted'[c.nonce] = 0
    BY <1>1, <1>6 DEF Restart, TypeOK, Command
  <2>6. AcceptedStarted'
    BY <1>6, <2>5 DEF Restart, AcceptedStarted
  <2>7. QED
    BY <1>1, <2>4, <2>6 DEF WorkInv
<1>7. QED
  BY <1>2, <1>3, <1>4, <1>5, <1>6 DEF Next, Deliver

\* Deliveries and retries never repeat an analysis whose task is remembered, and
\* nothing is acknowledged that was not started.
THEOREM NoWorkRepeated == Spec => []WorkNotRepeated
<1>1. Init => WorkInv
  <2>1. Init => Remembered = {}
    BY DEF Init, Remembered
  <2>2. Init => StartsPaid
    BY <2>1 DEF Init, StartsPaid
  <2>3. Init => AcceptedStarted
    BY DEF Init, AcceptedStarted
  <2>4. QED
    BY <2>2, <2>3, BaseInit DEF WorkInv
<1>2. WorkInv => WorkNotRepeated
  <2>1. SUFFICES ASSUME WorkInv PROVE WorkNotRepeated
    OBVIOUS
  <2>2. ASSUME NEW t \in Task PROVE starts[t] <= 1 + forgets[t]
    <3>1. starts[t] = forgets[t] + IF t \in Remembered THEN 1 ELSE 0
      BY <2>1 DEF WorkInv, StartsPaid
    <3>2. forgets[t] \in Nat
      BY <2>1 DEF WorkInv, BaseInv, TypeOK
    <3>3. QED
      BY <3>1, <3>2
  <2>3. QED
    BY <2>1, <2>2 DEF WorkNotRepeated, WorkInv, AcceptedStarted
<1>3. QED
  BY <1>1, <1>2, WorkStep, PTL DEF Spec
-----------------------------------------------------------------------------
(* Retries carry the same body *)

\* Whatever was sent of a task, and whatever is remembered of it, carries the
\* body that its row still has.
SameBodies ==
    /\ \A c \in network : c.body = Body(row[c.task])
    /\ \A k \in DOMAIN store : store[k].body = Body(row[store[k].task])

\* A claim changes no task's body: what was sent and remembered stays the same,
\* and the new command agrees with it.
LEMMA DispatchSameBodies ==
  ASSUME TypeOK, SameBodies, NEW t \in Task, Dispatch(t)
  PROVE  SameBodies'
<1>1. PICK d \in Offset :
         /\ row' = [row EXCEPT ![t] = Claimed(@, now + d)]
         /\ network' = network \cup
               {[nonce |-> Cardinality(network) + 1, task |-> t, timestamp |-> now + d,
                 body |-> Body(row'[t])]}
  BY DEF Dispatch
<1>2. \A u \in Task : Body(row'[u]) = Body(row[u])
  <2>1. row \in [Task -> Row] /\ now + d \in Int
    BY Numbers DEF TypeOK
  <2>2. Body(Claimed(row[t], now + d)) = Body(row[t])
    BY <2>1, ClaimKeepsBody
  <2>3. row'[t] = Claimed(row[t], now + d) /\ \A u \in Task : u # t => row'[u] = row[u]
    BY <1>1, <2>1
  <2>4. QED
    BY <2>2, <2>3
<1>3. \A c \in network : c.task \in Task
  BY DEF TypeOK, Command
<1>4. \A k \in DOMAIN store : store[k].task \in Task
  <2>1. store \in Seq(Entry)
    BY DEF TypeOK, Entry
  <2>2. \A k \in DOMAIN store : store[k] \in Entry
    BY <2>1
  <2>3. QED
    BY <2>2, Numbers DEF Entry
<1>5. \A c \in network' : c \in network \/ c.body = Body(row'[c.task])
  BY <1>1
<1>6. \A c \in network' : c.body = Body(row'[c.task])
  BY <1>2, <1>3, <1>5 DEF SameBodies
<1>7. store' = store
  BY DEF Dispatch, storeVars
<1>8. \A k \in DOMAIN store' : store'[k].body = Body(row'[store'[k].task])
  BY <1>2, <1>4, <1>7 DEF SameBodies
<1>9. QED
  BY <1>6, <1>8 DEF SameBodies

\* The store holds what it held, and at most one new entry.
LEMMA BodiesStep ==
  ASSUME BaseInv, SameBodies, [Next]_vars
  PROVE  SameBodies'
<1>1. ASSUME UNCHANGED <<row, network, store>> PROVE SameBodies'
  BY <1>1 DEF SameBodies
<1>2. ASSUME NEW c \in network, AcceptNew(c) PROVE SameBodies'
  <2> DEFINE entry == [task |-> c.task, body |-> c.body]
  <2>1. entry.body = Body(row[entry.task])
    BY DEF SameBodies
  <2>2. c.nonce \in Nonce /\ c.task \in Served /\ c.task \in Task /\ c.body \in BodyColumns
    BY <1>2, RecordType, Numbers DEF AcceptNew, BaseInv
  <2>3. entry \in Entry
    BY <2>2 DEF Entry
  <2>4. store \in Seq(Entry) /\ store' = Append(IF Full THEN Tail(store) ELSE store, entry)
    BY <1>2 DEF AcceptNew, BaseInv, TypeOK, Entry
  <2>5. Full => Len(store) >= 1
    BY Numbers DEF Full
  <2>a. row' = row /\ network' = network
    BY <1>2 DEF AcceptNew
  <2> HIDE DEF entry
  <2>6. \A k \in DOMAIN store' : store'[k] = entry \/ \E j \in DOMAIN store : store'[k] = store[j]
    <3>1. CASE Full
      <4>1. store' = Append(Tail(store), entry) /\ Len(store) >= 1
        BY <2>4, <2>5, <3>1
      <4>2. /\ Len(store') = Len(store)
            /\ \A k \in 1..(Len(store) - 1) : store'[k] = store[k + 1]
            /\ store'[Len(store)] = entry
            /\ DOMAIN store' = 1..Len(store)
        BY <2>3, <2>4, <4>1
      <4>3. SUFFICES ASSUME NEW k \in 1..Len(store), k # Len(store)
                     PROVE  \E j \in DOMAIN store : store'[k] = store[j]
        BY <4>2
      <4>4. k + 1 \in DOMAIN store /\ k \in 1..(Len(store) - 1)
        BY <2>4, <4>1, <4>3
      <4>5. QED
        BY <4>2, <4>4
    <3>2. CASE ~Full
      <4>1. store' = Append(store, entry)
        BY <2>4, <3>2
      <4>2. /\ DOMAIN store' = 1..(Len(store) + 1) /\ DOMAIN store = 1..Len(store)
            /\ \A k \in 1..Len(store) : store'[k] = store[k]
            /\ store'[Len(store) + 1] = entry
        BY <2>3, <2>4, <4>1
      <4>3. Len(store) \in Nat
        BY <2>4
      <4>4. \A k \in 1..(Len(store) + 1) : k \in 1..Len(store) \/ k = Len(store) + 1
        BY <4>3
      <4>5. QED
        BY <4>2, <4>4
    <3>3. QED
      BY <3>1, <3>2
  <2>7. QED
    BY <2>1, <2>6, <2>a DEF SameBodies
<1>3. ASSUME Restart PROVE SameBodies'
  BY <1>3 DEF Restart, SameBodies
<1>4. ASSUME \/ Tick \/ UNCHANGED vars
             \/ \E t \in Task : Execute(t)
             \/ \E c \in network : RefuseReplay(c) \/ AcceptAgain(c)
      PROVE  UNCHANGED <<row, network, store>>
  BY <1>4 DEF Tick, vars, storeVars, RefuseReplay, AcceptAgain, Execute, Analyse,
              AnalysisRaises, HubAnswers, PostFails
<1>5. ASSUME NEW t \in Task, Dispatch(t) PROVE SameBodies'
  BY <1>5, DispatchSameBodies DEF BaseInv
<1>6. QED
  BY <1>1, <1>2, <1>3, <1>4, <1>5 DEF Next, Deliver

\* However often a task is claimed, evicted and sent again, no command on its way
\* can be refused as a conflicting duplicate.
THEOREM NoConflictOnRetry == Spec => []RetryNeverConflicts
<1>1. Init => SameBodies
  BY DEF Init, SameBodies
<1>2. SameBodies => RetryNeverConflicts
  BY DEF SameBodies, RetryNeverConflicts
<1>3. QED
  BY <1>1, <1>2, BodiesStep, BaseInvariant, PTL DEF Spec
-----------------------------------------------------------------------------
(* Refinement *)

StatusOf == [t \in Task |-> IF t \notin Remembered THEN "IDLE"
                            ELSE IF t \in answered THEN "DONE" ELSE "WORKING"]

\* A new task is accepted, in place of an evicted one if the store is full.
LEMMA AcceptNewRefines ==
  ASSUME BaseInv, NEW c \in network, AcceptNew(c)
  PROVE  Contract!Next
<1>1. /\ c.task \in Task
      /\ c.task \notin Remembered /\ c.task \in Remembered'
      /\ Remembered' = Kept \cup {c.task}
      /\ Full => Head(store).task \in Remembered /\ Head(store).task \in Task
  BY AcceptNewWork
<1>2. answered \subseteq Remembered
  BY DEF BaseInv, TypeOK
<1>3. answered' = IF Full THEN answered \ {Head(store).task} ELSE answered
  BY DEF AcceptNew
<1>4. StatusOf[c.task] = "IDLE"
  BY <1>1 DEF StatusOf
<1>5. CASE ~Full
  <2>1. StatusOf' = [StatusOf EXCEPT ![c.task] = "WORKING"]
    BY <1>1, <1>2, <1>3, <1>5 DEF StatusOf, Kept
  <2>2. Contract!Accept(c.task)
    BY <1>4, <2>1 DEF Contract!Accept, StatusOf
  <2>3. QED
    BY <1>1, <2>2 DEF Contract!Next
<1>6. CASE Full
  <2>1. PICK u \in Task : u = Head(store).task
    BY <1>1, <1>6
  <2>2. u # c.task
    BY <1>1, <1>6, <2>1
  <2>3. StatusOf' = [StatusOf EXCEPT ![c.task] = "WORKING", ![u] = "IDLE"]
    BY <1>1, <1>2, <1>3, <1>6, <2>1, <2>2 DEF StatusOf, Kept
  <2>4. Contract!Replace(c.task, u)
    BY <1>4, <2>2, <2>3 DEF Contract!Replace, StatusOf
  <2>5. QED
    BY <1>1, <2>4 DEF Contract!Next
<1>7. QED
  BY <1>5, <1>6

\* Every step is a step of the contract or invisible to it.
LEMMA RuntimeContractStep ==
  ASSUME BaseInv, [Next]_vars
  PROVE  Contract!Next \/ UNCHANGED StatusOf
<1>1. ASSUME UNCHANGED <<store, answered>> PROVE UNCHANGED StatusOf
  BY <1>1 DEF StatusOf, Remembered
<1>2. ASSUME \/ Tick \/ UNCHANGED vars
             \/ \E t \in Task : Analyse(t) \/ AnalysisRaises(t) \/ PostFails(t) \/ Dispatch(t)
             \/ \E c \in network : RefuseReplay(c) \/ AcceptAgain(c)
      PROVE  UNCHANGED <<store, answered>>
  BY <1>2 DEF Tick, vars, storeVars, RefuseReplay, AcceptAgain, Analyse,
              AnalysisRaises, PostFails, Dispatch
<1>3. ASSUME NEW t \in Task, HubAnswers(t) PROVE Contract!Next \/ UNCHANGED StatusOf
  <2>1. Remembered' = Remembered /\ answered' = answered \cup ({t} \cap Remembered)
    BY <1>3 DEF HubAnswers, Remembered
  <2>2. CASE StatusOf[t] = "WORKING"
    <3>1. t \in Remembered
      BY <2>2 DEF StatusOf
    <3>2. StatusOf' = [StatusOf EXCEPT ![t] = "DONE"]
      BY <2>1, <3>1 DEF StatusOf
    <3>3. Contract!Answered(t)
      BY <2>2, <3>2 DEF Contract!Answered, StatusOf
    <3>4. QED
      BY <3>3 DEF Contract!Next
  <2>3. CASE StatusOf[t] # "WORKING"
    BY <2>1, <2>3 DEF StatusOf
  <2>4. QED
    BY <2>2, <2>3
<1>4. ASSUME Restart PROVE Contract!Next
  <2>1. Remembered' = {}
    BY <1>4 DEF Restart, Remembered
  <2>2. StatusOf' = [t \in Task |-> "IDLE"]
    BY <2>1 DEF StatusOf
  <2>3. Contract!Forget(Task)
    BY <2>2 DEF Contract!Forget, StatusOf
  <2>4. QED
    BY <2>3 DEF Contract!Next
<1>5. QED
  BY <1>1, <1>2, <1>3, <1>4, AcceptNewRefines DEF Next, Deliver, Execute

\* The agent runtime implements the execution contract.
THEOREM RuntimeImplementsContract == Spec => KeepsContract
<1>1. Init => Contract!Init
  <2>1. Init => Remembered = {}
    BY DEF Init, Remembered
  <2>2. QED
    BY <2>1 DEF Contract!Init
<1>2. ASSUME BaseInv, [Next]_vars PROVE [Contract!Next]_StatusOf
  BY <1>2, RuntimeContractStep
<1>3. QED
  BY <1>1, <1>2, BaseInvariant, PTL DEF Spec, KeepsContract, Contract!Spec, StatusOf
=============================================================================
