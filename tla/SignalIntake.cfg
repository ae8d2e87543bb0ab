\* Two deliveries, two agents, one task of a run under recovery.
SPECIFICATION FairSpec
CONSTANTS
    h1 = h1  h2 = h2   A = A  B = B  m1 = m1  m2 = m2
    n1 = n1  n2 = n2  t1 = t1
    NoTask = NoTask  NoRequest = NoRequest
    Handler = {h1, h2}
    Request <- MCRequest
    Agent = {A, B}  Message = {m1, m2}  Nonce = {n1, n2}  Task = {t1}  Retiring = {B}
    TaskAgent <- MCTaskAgent
    MaxSkew = 1  SignalTtl = 2
    SnapshotExpiry = 2  SignalDeadline = 1  MaxTime = 2
INVARIANTS TypeOK StoredOnce ReceivedIffStored AnswersTrue
PROPERTY EveryDeliveryAnswered
