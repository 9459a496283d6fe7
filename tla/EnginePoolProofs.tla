--------------------------- MODULE EnginePoolProofs ---------------------------
(***************************************************************************)
(* Proofs about EnginePool for every number of tasks, clients of the pool,  *)
(* migration files and schema changes.                                      *)
(***************************************************************************)
EXTENDS EnginePool, FoldLemmas

(* The inductive invariant.                                                 *)

\* What a task holds is decided by what it does and where it stands.
Coherent(q) ==
    /\ q \in Request
    /\ q.op = "none" <=> q.pc = "idle"
    /\ q.pc = "idle" => q.clients = 0 /\ q.lock = "none"
    /\ q.pc = "Client" =>
         \/ q.op = "Rows" /\ q.clients = 0 /\ q.lock = "read"
         \/ q.op \in {"Sql", "Preview", "Reload"} /\ q.clients = 0 /\ q.lock = "none"
         \/ q.op = "Apply" /\ q.clients \in 0..2 /\ q.lock = "none"
    /\ q.pc = "Lock" =>
         q.op \in Reading \cup Refreshing /\ q.clients = Kept(q.op) /\ q.lock = "none"
    /\ q.pc = "Query" => q.op = "Rows" /\ q.clients = 1 /\ q.lock = "read"
    /\ q.pc = "Execute" => q.op = "Sql" /\ q.clients = 1 /\ q.lock = "none"
    /\ q.pc \in {"Introspect", "ReadColumns"} =>
         \/ q.op \in {"Reload", "Preview"} /\ q.clients = 1 /\ q.lock = "none"
         \/ q.op = "Apply" /\ q.clients = 2 /\ q.lock = "none"
    /\ q.pc \in {"CheckApplied", "RunSql", "Record", "Commit"} =>
         q.op = "Apply" /\ q.clients = 1 /\ q.lock = "none"
    /\ q.pc = "Attach" =>
         \/ q.op = "Apply" /\ q.clients = 3 /\ q.lock = "none"
         \/ q.op = "Reload" /\ q.clients = 1 /\ q.lock = "write"
    /\ q.op = "Apply" => q.file \in Files
    /\ q.clients = 0 => q.session = Clean
    /\ q.clients <= 1 => q.behind = Clean

TasksCoherent ==
    /\ req \in [Requests -> Request]
    /\ \A r \in Requests : Coherent(req[r]) /\ (Busy(r) => req[r].op \in Serves[r])

\* A queue holds the tasks that wait, each once.
Orderly(queue, tasks) ==
    /\ queue \in Seq(Requests)
    /\ \A r \in Requests : Queued(queue, r) <=> r \in tasks
    /\ \A i, j \in DOMAIN queue : queue[i] = queue[j] => i = j

WaitingAt(pc) == {r \in Requests : At(r, pc)}

QueuesOrderly ==
    /\ Orderly(poolQueue, WaitingAt("Client"))
    /\ Orderly(lockQueue, WaitingAt("Lock"))

\* What the tasks hold, task by task.
Held == [r \in Requests |-> req[r].clients]

ClientsAddUp == free \in Nat /\ free + Total(Held, Requests) = PoolSize

\* The leftover sessions of the pool are sessions of clients in the pool.
LeftoverIn(sessions, clients) ==
    sessions \in Seq(Session \ {Clean}) /\ Len(sessions) <= clients

\* A writer is alone, and what a reader saw is what is cached.
GuardsExclude ==
    /\ \A r, q \in Requests : req[r].lock = "write" /\ r # q => req[q].lock = "none"
    /\ \A r \in Requests : req[r].lock = "read" => req[r].saw = cache

\* A refresh that has swapped its result in and is not answered yet.
Swapped(r) ==
    \/ At(r, "Attach")
    \/ At(r, "Client") /\ req[r].op = "Apply" /\ req[r].clients = 2

\* A refresh on its way with a version: it read what was committed.
SwapsVersion(r) == Swapping(r) /\ ~req[r].misread

VersionsKnown ==
    /\ db \in Nat /\ cache \in Nat /\ promised \in Nat
    /\ raced \in BOOLEAN /\ misread \in BOOLEAN
    /\ ~misread => cache <= db
    /\ promised <= db
    /\ \A r \in Requests : req[r].since <= db
    /\ \A r \in Requests : SwapsVersion(r) => req[r].saw <= db /\ req[r].since <= req[r].saw

\* Unless two refreshes overlapped, what is cached, and what is about to be,
\* includes what was promised and what will be.
PromisesHold ==
    ~raced =>
        /\ ~misread => promised <= cache
        /\ \A r \in Requests : Swapped(r) /\ ~misread => req[r].since <= cache
        /\ \A r \in Requests : SwapsVersion(r) => promised <= req[r].saw
        /\ \A r, q \in Requests : SwapsVersion(r) /\ Swapped(q) => req[q].since <= req[r].saw

FilesRecorded ==
    /\ recorded \subseteq Files
    /\ commits \in [Files -> Nat]
    /\ MigrationAppliedOnce
    /\ \A r \in Requests : At(r, "Commit") => req[r].file \notin recorded
    /\ \A r, q \in Requests : At(r, "Commit") /\ At(q, "Commit") /\ r # q
                                => req[r].file # req[q].file

IInv ==
    /\ TasksCoherent
    /\ QueuesOrderly
    /\ ClientsAddUp
    /\ LeftoverIn(leftover, free)
    /\ GuardsExclude
    /\ VersionsKnown
    /\ PromisesHold
    /\ FilesRecorded

-----------------------------------------------------------------------------
(* Queues.                                                                  *)

\* A task that starts to wait goes to the end of the queue.
LEMMA AppendOrderly ==
    ASSUME NEW queue, NEW tasks, Orderly(queue, tasks), NEW r \in Requests, r \notin tasks
    PROVE  Orderly(Append(queue, r), tasks \cup {r})
  <1> DEFINE longer == Append(queue, r)
  <1>1. /\ queue \in Seq(Requests)
        /\ longer \in Seq(Requests)
        /\ Len(longer) = Len(queue) + 1
        /\ DOMAIN queue = 1..Len(queue) /\ DOMAIN longer = 1..(Len(queue) + 1)
        /\ \A i \in 1..Len(queue) : longer[i] = queue[i]
        /\ longer[Len(queue) + 1] = r
        /\ Len(queue) \in Nat
    BY DEF Orderly
  <1> HIDE DEF longer
  <1>2. \A q \in Requests : Queued(longer, q) <=> q \in tasks \cup {r}
    <2>1. ASSUME NEW q \in Requests, Queued(longer, q)
          PROVE  q \in tasks \cup {r}
      BY <1>1, <2>1 DEF Orderly, Queued
    <2>2. ASSUME NEW q \in tasks, q \in Requests
          PROVE  Queued(longer, q)
      BY <1>1, <2>2 DEF Orderly, Queued
    <2>3. Queued(longer, r)
      BY <1>1 DEF Queued
    <2>4. QED
      BY <2>1, <2>2, <2>3
  <1>3. ASSUME NEW i \in DOMAIN longer, NEW j \in DOMAIN longer, longer[i] = longer[j]
        PROVE  i = j
    <2>1. \A k \in 1..Len(queue) : queue[k] # r
      BY <1>1 DEF Orderly, Queued
    <2>2. QED
      BY <1>1, <1>3, <2>1 DEF Orderly
  <1>4. QED
    BY <1>1, <1>2, <1>3 DEF Orderly, longer

\* The task at the head of the queue leaves it, and the others move up.
LEMMA TailOrderly ==
    ASSUME NEW queue, NEW tasks, Orderly(queue, tasks), NEW r \in Requests, r \in tasks,
           Head(queue) = r
    PROVE  Orderly(Tail(queue), tasks \ {r})
  <1> DEFINE rest == Tail(queue)
  <1>1. Queued(queue, r)
    BY DEF Orderly
  <1>2. /\ queue \in Seq(Requests)
        /\ Len(queue) \in Nat /\ Len(queue) > 0
        /\ DOMAIN queue = 1..Len(queue)
        /\ queue[1] = r
    BY <1>1 DEF Orderly, Queued
  <1>3. /\ rest \in Seq(Requests)
        /\ DOMAIN rest = 1..(Len(queue) - 1)
        /\ \A i \in 1..(Len(queue) - 1) : rest[i] = queue[i + 1]
    BY <1>2
  <1> HIDE DEF rest
  <1>4. \A q \in Requests : Queued(rest, q) <=> q \in tasks \ {r}
    <2>1. ASSUME NEW q \in Requests, Queued(rest, q)
          PROVE  q \in tasks \ {r}
      <3>1. PICK i \in 1..(Len(queue) - 1) : queue[i + 1] = q
        BY <1>3, <2>1 DEF Queued
      <3>2. i + 1 \in DOMAIN queue /\ i + 1 # 1
        BY <1>2, <3>1
      <3>3. QED
        BY <1>2, <3>1, <3>2 DEF Orderly, Queued
    <2>2. ASSUME NEW q \in Requests, q \in tasks, q # r
          PROVE  Queued(rest, q)
      <3>1. PICK i \in 1..Len(queue) : queue[i] = q
        BY <1>2, <2>2 DEF Orderly, Queued
      <3>2. i - 1 \in 1..(Len(queue) - 1) /\ (i - 1) + 1 = i
        BY <1>2, <2>2, <3>1
      <3>3. QED
        BY <1>3, <3>1, <3>2 DEF Queued
    <2>3. QED
      BY <2>1, <2>2
  <1>5. ASSUME NEW i \in DOMAIN rest, NEW j \in DOMAIN rest, rest[i] = rest[j]
        PROVE  i = j
    <2>1. i + 1 \in DOMAIN queue /\ j + 1 \in DOMAIN queue /\ queue[i + 1] = queue[j + 1]
      BY <1>2, <1>3, <1>5
    <2>2. i + 1 = j + 1
      BY <2>1 DEF Orderly
    <2>3. QED
      BY <1>2, <1>3, <2>2
  <1>6. QED
    BY <1>3, <1>4, <1>5 DEF Orderly, rest

\* A task that gives up its place leaves the order of the others as it was.
LEMMA WithoutOrderly ==
    ASSUME NEW queue, NEW tasks, Orderly(queue, tasks), NEW r \in Requests
    PROVE  Orderly(Without(queue, r), tasks \ {r})
  <1> DEFINE place == CHOOSE i \in DOMAIN queue : queue[i] = r
             shorter == SubSeq(queue, 1, place - 1) \o SubSeq(queue, place + 1, Len(queue))
             n == Len(queue)
  <1>1. CASE ~Queued(queue, r)
    BY <1>1 DEF Without, Orderly
  <1>2. CASE Queued(queue, r)
    <2>1. Without(queue, r) = shorter
      BY <1>2 DEF Without
    <2>2. place \in DOMAIN queue /\ queue[place] = r
      BY <1>2 DEF Queued
    <2> HIDE DEF place
    <2>3. /\ queue \in Seq(Requests)
          /\ n \in Nat /\ n > 0
          /\ DOMAIN queue = 1..n
          /\ place \in 1..n
      BY <2>2 DEF Orderly
    <2>4. /\ shorter \in Seq(Requests)
          /\ DOMAIN shorter = 1..(n - 1)
          /\ \A i \in 1..(n - 1) : shorter[i] = IF i < place THEN queue[i] ELSE queue[i + 1]
      BY <2>3, CutOut
    <2> HIDE DEF shorter, n
    <2>5. ASSUME NEW i \in 1..(n - 1)
          PROVE  \E k \in 1..n : /\ k # place /\ shorter[i] = queue[k]
                                 /\ k = IF i < place THEN i ELSE i + 1
      BY <2>3, <2>4
    <2>6. ASSUME NEW k \in 1..n, k # place
          PROVE  \E i \in 1..(n - 1) : shorter[i] = queue[k]
      <3>1. CASE k < place
        BY <2>3, <2>4, <2>6, <3>1
      <3>2. CASE ~(k < place)
        <4>1. k - 1 \in 1..(n - 1) /\ ~(k - 1 < place) /\ (k - 1) + 1 = k
          BY <2>3, <2>6, <3>2
        <4>2. QED
          BY <2>4, <4>1
      <3>3. QED
        BY <3>1, <3>2
    <2>7. \A q \in Requests : Queued(shorter, q) <=> q \in tasks \ {r}
      <3>1. ASSUME NEW q \in Requests, Queued(shorter, q)
            PROVE  q \in tasks \ {r}
        <4>1. PICK k \in 1..n : k # place /\ q = queue[k]
          BY <2>4, <2>5, <3>1 DEF Queued
        <4>2. QED
          BY <2>2, <2>3, <4>1 DEF Orderly, Queued
      <3>2. ASSUME NEW q \in Requests, q \in tasks, q # r
            PROVE  Queued(shorter, q)
        <4>1. PICK k \in 1..n : queue[k] = q
          BY <2>3, <3>2 DEF Orderly, Queued
        <4>2. k # place
          BY <2>2, <3>2, <4>1
        <4>3. QED
          BY <2>4, <2>6, <4>1, <4>2 DEF Queued
      <3>3. QED
        BY <3>1, <3>2
    <2>8. ASSUME NEW i \in DOMAIN shorter, NEW j \in DOMAIN shorter, shorter[i] = shorter[j]
          PROVE  i = j
      <3>1. PICK k \in 1..n : shorter[i] = queue[k] /\ k = IF i < place THEN i ELSE i + 1
        BY <2>4, <2>5
      <3>2. PICK m \in 1..n : shorter[j] = queue[m] /\ m = IF j < place THEN j ELSE j + 1
        BY <2>4, <2>5
      <3>3. k = m
        BY <2>3, <2>8, <3>1, <3>2 DEF Orderly
      <3>4. QED
        BY <2>3, <2>4, <3>1, <3>2, <3>3
    <2>9. QED
      BY <2>1, <2>4, <2>7, <2>8 DEF Orderly
  <1>3. QED
    BY <1>1, <1>2

-----------------------------------------------------------------------------
(* Sums.                                                                    *)

\* The sum of ResourcesAccounted is the total of what the tasks hold.
LEMMA HeldSum ==
    ASSUME \A r \in Requests : req[r].clients \in Nat
    PROVE  MapThenSumSet(LAMBDA r : req[r].clients, Requests) = Total(Held, Requests)
  <1> DEFINE P(it) == it = [s \in SUBSET Requests |->
                              IF s = {} THEN 0
                              ELSE req[CHOOSE x \in s : TRUE].clients
                                     + it[s \ {CHOOSE x \in s : TRUE}]]
             Q(it) == it = [s \in SUBSET Requests |-> IF s = {} THEN 0
                                                     ELSE Held[Pick(s)] + it[s \ {Pick(s)}]]
  <1>1. MapThenSumSet(LAMBDA r : req[r].clients, Requests) = (CHOOSE it : P(it))[Requests]
    BY DEF MapThenSumSet, MapThenFoldSet
  <1>2. ASSUME NEW it PROVE P(it) <=> Q(it)
    <2>1. \A s \in SUBSET Requests : s # {} => Held[Pick(s)] = req[Pick(s)].clients
      BY PickIn DEF Held
    <2>2. QED
      BY <2>1 DEF Pick
  <1>3. IsFiniteSet(Requests) /\ \A r \in Requests : Held[r] \in Nat
    BY PoolAssumption DEF Held
  <1>4. /\ \E it : Q(it)
        /\ \A it : Q(it) => it[Requests] = Total(Held, Requests)
    BY <1>3, TotalIsFold
  <1> HIDE DEF P, Q
  <1>5. P(CHOOSE it : P(it))
    BY <1>2, <1>4
  <1>6. QED
    BY <1>1, <1>2, <1>4, <1>5

\* ... and so is the sum of what they may keep.
LEMMA KeptSum ==
    ASSUME NEW f, \A r \in Requests : f[r] = KeptBy(r) /\ f[r] \in Nat
    PROVE  MapThenSumSet(KeptBy, Requests) = Total(f, Requests)
  <1> DEFINE P(it) == it = [s \in SUBSET Requests |->
                              IF s = {} THEN 0
                              ELSE KeptBy(CHOOSE x \in s : TRUE)
                                     + it[s \ {CHOOSE x \in s : TRUE}]]
             Q(it) == it = [s \in SUBSET Requests |-> IF s = {} THEN 0
                                                     ELSE f[Pick(s)] + it[s \ {Pick(s)}]]
  <1>1. MapThenSumSet(KeptBy, Requests) = (CHOOSE it : P(it))[Requests]
    BY DEF MapThenSumSet, MapThenFoldSet
  <1>2. ASSUME NEW it PROVE P(it) <=> Q(it)
    <2>1. \A s \in SUBSET Requests : s # {} => f[Pick(s)] = KeptBy(Pick(s))
      BY PickIn
    <2>2. QED
      BY <2>1 DEF Pick
  <1>3. IsFiniteSet(Requests) /\ \A r \in Requests : f[r] \in Nat
    BY PoolAssumption
  <1>4. /\ \E it : Q(it)
        /\ \A it : Q(it) => it[Requests] = Total(f, Requests)
    BY <1>3, TotalIsFold
  <1> HIDE DEF P, Q
  <1>5. P(CHOOSE it : P(it))
    BY <1>2, <1>4
  <1>6. QED
    BY <1>1, <1>2, <1>4, <1>5

-----------------------------------------------------------------------------
(* One step of one task, whichever it is.                                   *)

\* How a queue changes when task r waited before and waits after.
QueueMoves(queue, next, r, before, after) ==
    \/ after /\ ~before /\ next = Append(queue, r)
    \/ before /\ ~after /\ Head(queue) = r /\ next = Tail(queue)
    \/ ~after /\ next = Without(queue, r)
    \/ (before <=> after) /\ next = queue

\* The record of task r becomes k, and the rest keeps pace.
Moves(r, k) ==
    /\ req' = [req EXCEPT ![r] = k]
    /\ Coherent(k)
    /\ k.op # "none" => k.op \in Serves[r]
    /\ free' \in Nat /\ free' + k.clients = free + req[r].clients
    /\ LeftoverIn(leftover', free')
    /\ QueueMoves(poolQueue, poolQueue', r, At(r, "Client"), k.pc = "Client")
    /\ QueueMoves(lockQueue, lockQueue', r, At(r, "Lock"), k.pc = "Lock")
    /\ k.lock = "read" => /\ cache' = cache
                          /\ \/ req[r].lock = "read" /\ k.saw = req[r].saw
                             \/ Holding("write") = {} /\ k.saw = cache
    /\ k.lock = "write" => \A q \in Requests : req[q].lock = "none"
    /\ cache' # cache => \A q \in Requests : req[q].lock = "none"

\* The part of the invariant that such a step keeps, whatever the task does.
Resources ==
    TasksCoherent /\ QueuesOrderly /\ ClientsAddUp /\ LeftoverIn(leftover, free) /\ GuardsExclude

\* A queue that moves with its task stays in order.
LEMMA QueueMovesOrderly ==
    ASSUME NEW queue, NEW next, NEW tasks, NEW left, NEW r \in Requests, NEW before, NEW after,
           Orderly(queue, tasks), QueueMoves(queue, next, r, before, after),
           before <=> r \in tasks, after <=> r \in left,
           \A q \in Requests : q # r => (q \in tasks <=> q \in left),
           tasks \subseteq Requests, left \subseteq Requests
    PROVE  Orderly(next, left)
  <1>1. CASE after /\ ~before /\ next = Append(queue, r)
    <2>1. left = tasks \cup {r}
      BY <1>1
    <2>2. QED
      BY <1>1, <2>1, AppendOrderly
  <1>2. CASE before /\ ~after /\ Head(queue) = r /\ next = Tail(queue)
    <2>1. left = tasks \ {r}
      BY <1>2
    <2>2. QED
      BY <1>2, <2>1, TailOrderly
  <1>3. CASE ~after /\ next = Without(queue, r)
    <2>1. left = tasks \ {r}
      BY <1>3
    <2>2. QED
      BY <1>3, <2>1, WithoutOrderly
  <1>4. CASE (before <=> after) /\ next = queue
    <2>1. left = tasks
      BY <1>4
    <2>2. QED
      BY <1>4, <2>1
  <1>5. QED
    BY <1>1, <1>2, <1>3, <1>4 DEF QueueMoves

\* A step of one task whose record, queues and clients move together keeps the
\* clients, the guards and the queues of all tasks accounted for.
LEMMA MovesKeepsResources ==
    ASSUME Resources, NEW r \in Requests, NEW k, Moves(r, k)
    PROVE  Resources'
  <1> USE DEF Resources
  <1>1. /\ req \in [Requests -> Request]
        /\ k \in Request
        /\ req' \in [Requests -> Request]
        /\ req'[r] = k
        /\ \A q \in Requests : q # r => req'[q] = req[q]
    BY DEF Moves, TasksCoherent, Coherent
  <1>2. TasksCoherent'
    BY <1>1 DEF Moves, TasksCoherent, Busy
  <1>3. Orderly(poolQueue', WaitingAt("Client")')
    <2>1. /\ At(r, "Client") <=> r \in WaitingAt("Client")
          /\ k.pc = "Client" <=> r \in WaitingAt("Client")'
          /\ \A q \in Requests : q # r => (q \in WaitingAt("Client")
                                             <=> q \in WaitingAt("Client")')
          /\ WaitingAt("Client") \subseteq Requests /\ WaitingAt("Client")' \subseteq Requests
      BY <1>1 DEF WaitingAt, At
    <2>2. /\ Orderly(poolQueue, WaitingAt("Client"))
          /\ QueueMoves(poolQueue, poolQueue', r, At(r, "Client"), k.pc = "Client")
      BY DEF QueuesOrderly, Moves
    <2>3. QED
      BY <2>1, <2>2, QueueMovesOrderly
  <1>4. Orderly(lockQueue', WaitingAt("Lock")')
    <2>1. /\ At(r, "Lock") <=> r \in WaitingAt("Lock")
          /\ k.pc = "Lock" <=> r \in WaitingAt("Lock")'
          /\ \A q \in Requests : q # r => (q \in WaitingAt("Lock")
                                             <=> q \in WaitingAt("Lock")')
          /\ WaitingAt("Lock") \subseteq Requests /\ WaitingAt("Lock")' \subseteq Requests
      BY <1>1 DEF WaitingAt, At
    <2>2. /\ Orderly(lockQueue, WaitingAt("Lock"))
          /\ QueueMoves(lockQueue, lockQueue', r, At(r, "Lock"), k.pc = "Lock")
      BY DEF QueuesOrderly, Moves
    <2>3. QED
      BY <2>1, <2>2, QueueMovesOrderly
  <1>5. QueuesOrderly'
    <2>1. Orderly(poolQueue, WaitingAt("Client"))' /\ Orderly(lockQueue, WaitingAt("Lock"))'
      BY <1>3, <1>4 DEF Orderly, Queued
    <2>2. QED
      BY <2>1 DEF QueuesOrderly
  <1>6. ClientsAddUp'
    <2>1. /\ Held[r] = req[r].clients /\ Held'[r] = k.clients
          /\ \A q \in Requests : Held[q] \in Nat /\ Held'[q] \in Nat
          /\ \A q \in Requests : q # r => Held'[q] = Held[q]
      BY <1>1 DEF Held, Request
    <2>2. IsFiniteSet(Requests)
      BY PoolAssumption
    <2>3. Total(Held', Requests) + req[r].clients = Total(Held, Requests) + k.clients
      BY <2>1, <2>2, TotalChange
    <2>4. Total(Held', Requests) \in Nat /\ Total(Held, Requests) \in Nat
      BY <2>1, <2>2, TotalStep
    <2>5. k.clients \in Nat /\ req[r].clients \in Nat
      BY <1>1 DEF Request
    <2>6. /\ free \in Nat /\ free + Total(Held, Requests) = PoolSize
          /\ free' \in Nat /\ free' + k.clients = free + req[r].clients
      BY DEF ClientsAddUp, Moves
    <2>7. free' + Total(Held', Requests) = PoolSize
      BY <2>3, <2>4, <2>5, <2>6
    <2>8. QED
      BY <2>6, <2>7 DEF ClientsAddUp
  <1>7. GuardsExclude'
    <2>1. ASSUME NEW p \in Requests, NEW q \in Requests, req'[p].lock = "write", p # q
          PROVE  req'[q].lock = "none"
      <3>1. \A x \in Requests : req[x].lock \in {"none", "read", "write"}
        BY <1>1 DEF Request
      <3>2. k.lock \in {"none", "read", "write"}
        BY <1>1 DEF Request
      <3>3. CASE p = r
        BY <1>1, <2>1, <3>3 DEF Moves
      <3>4. CASE q = r
        <4>1. req[p].lock = "write" /\ req[r].lock = "none" /\ p \in Holding("write")
          BY <1>1, <2>1, <3>4 DEF GuardsExclude, Holding
        <4>2. k.lock # "write" /\ k.lock # "read"
          BY <4>1 DEF Moves
        <4>3. QED
          BY <1>1, <3>2, <3>4, <4>2
      <3>5. CASE p # r /\ q # r
        BY <1>1, <2>1, <3>5 DEF GuardsExclude
      <3>6. QED
        BY <3>3, <3>4, <3>5
    <2>2. ASSUME NEW q \in Requests, req'[q].lock = "read"
          PROVE  req'[q].saw = cache'
      <3>1. CASE q = r
        BY <1>1, <2>2, <3>1 DEF Moves, GuardsExclude
      <3>2. CASE q # r
        BY <1>1, <2>2, <3>2 DEF Moves, GuardsExclude
      <3>3. QED
        BY <3>1, <3>2
    <2>3. QED
      BY <2>1, <2>2 DEF GuardsExclude
  <1>8. LeftoverIn(leftover, free)'
    BY DEF Moves, LeftoverIn
  <1>9. QED
    BY <1>2, <1>5, <1>6, <1>7, <1>8

\* What a client may be left in is a session.
LEMMA CleanIsSession == Clean \in Session /\ Failed \in Session
  BY DEF Clean, Failed, Session

LEMMA BrokenIsSession ==
    ASSUME NEW session \in Session
    PROVE  Broken(session) \in Session /\ (session = Clean => Broken(session) = Clean)
  BY CleanIsSession DEF Broken, Clean

\* A client goes back with one session, which counts if its transaction is open.
LEMMA ReturnedIsShort ==
    ASSUME NEW session \in Session
    PROVE  /\ Returned(session) \in Seq(Session \ {Clean})
           /\ Len(Returned(session)) = IF session = Clean THEN 0 ELSE 1
  <1>1. CASE session = Clean
    <2>1. Returned(session) = <<>>
      BY <1>1 DEF Returned
    <2>2. <<>> \in Seq(Session \ {Clean}) /\ Len(<<>>) = 0
      OBVIOUS
    <2>3. QED
      BY <1>1, <2>1, <2>2
  <1>2. CASE session # Clean
    <2>1. Returned(session) = <<session>>
      BY <1>2 DEF Returned
    <2>2. session \in Session \ {Clean}
      BY <1>2
    <2>3. \A S : session \in S => <<session>> \in Seq(S) /\ Len(<<session>>) = 1
      OBVIOUS
    <2>4. QED
      BY <1>2, <2>1, <2>2, <2>3
  <1>3. QED
    BY <1>1, <1>2

LEMMA ThreeInARow ==
    ASSUME NEW S, NEW a \in Seq(S), NEW b \in Seq(S), NEW c \in Seq(S)
    PROVE  a \o b \o c \in Seq(S) /\ Len(a \o b \o c) = Len(a) + Len(b) + Len(c)
  <1>1. a \o b \in Seq(S) /\ Len(a \o b) = Len(a) + Len(b)
    OBVIOUS
  <1>2. QED
    BY <1>1

\* A task that ends: the task keeps nothing.
LEMMA LeaveMoves ==
    ASSUME Resources, NEW r \in Requests, NEW session \in Session, Leave(r, session),
           session = Clean \/ req[r].clients > 0,
           cache' # cache => \A q \in Requests : req[q].lock = "none"
    PROVE  Moves(r, Idle)
  <1>1. /\ req[r].clients \in Nat /\ free \in Nat
        /\ req[r].behind \in Session
        /\ req[r].clients <= 1 => req[r].behind = Clean
    BY DEF Resources, TasksCoherent, Coherent, Request, ClientsAddUp
  <1>2. Coherent(Idle)
    BY CleanIsSession DEF Coherent, Idle, Request
  <1>3. LeftoverIn(leftover', free')
    <2> DEFINE first == Returned(req[r].behind)
               last == Returned(session)
    <2>1. /\ leftover \in Seq(Session \ {Clean}) /\ Len(leftover) <= free
          /\ free' = free + req[r].clients
          /\ leftover' = leftover \o first \o last
      BY DEF Resources, LeftoverIn, Leave
    <2>2. /\ first \in Seq(Session \ {Clean})
          /\ Len(first) = IF req[r].behind = Clean THEN 0 ELSE 1
      BY <1>1, ReturnedIsShort
    <2>3. /\ last \in Seq(Session \ {Clean})
          /\ Len(last) = IF session = Clean THEN 0 ELSE 1
      BY ReturnedIsShort
    <2> HIDE DEF first, last
    <2>4. /\ leftover' \in Seq(Session \ {Clean})
          /\ Len(leftover') = Len(leftover) + Len(first) + Len(last)
      <3>1. \A S : leftover \in Seq(S) /\ first \in Seq(S) /\ last \in Seq(S) =>
                     /\ leftover \o first \o last \in Seq(S)
                     /\ Len(leftover \o first \o last) = Len(leftover) + Len(first) + Len(last)
        BY ThreeInARow
      <3>2. QED
        BY <2>1, <2>2, <2>3, <3>1, Zenon
    <2>5. /\ Len(leftover) \in Nat /\ Len(first) \in Nat /\ Len(last) \in Nat
          /\ Len(first) + Len(last) <= req[r].clients
      BY <1>1, <2>1, <2>2, <2>3
    <2>6. Len(leftover') <= free'
      BY <1>1, <2>1, <2>4, <2>5
    <2>7. QED
      BY <2>4, <2>6 DEF LeftoverIn
  <1>4. QED
    BY <1>1, <1>2, <1>3 DEF Moves, Leave, Idle, QueueMoves

\* A step that neither introspects nor swaps keeps what is known of versions.
LEMMA QuietKeepsVersions ==
    ASSUME IInv, NEW r \in Requests, NEW k \in Request, req' = [req EXCEPT ![r] = k],
           db' \in Nat, db <= db', UNCHANGED <<cached, promised, raced>>,
           k.since <= db',
           Swapping(r)' => /\ Swapping(r) /\ k.saw = req[r].saw /\ k.since = req[r].since
                           /\ k.misread = req[r].misread,
           Swapped(r)' => Swapped(r) /\ k.since = req[r].since
    PROVE  VersionsKnown' /\ PromisesHold'
  <1>1. /\ req \in [Requests -> Request]
        /\ req'[r] = k
        /\ \A q \in Requests : q # r => req'[q] = req[q]
        /\ \A q \in Requests : req'[q] \in Request
    BY DEF IInv, TasksCoherent
  <1>2. \A q \in Requests : /\ req[q].saw \in Nat /\ req[q].since \in Nat
                            /\ req'[q].saw \in Nat /\ req'[q].since \in Nat
    BY <1>1 DEF Request
  <1>3. \A q \in Requests :
          /\ SwapsVersion(q)' => /\ SwapsVersion(q) /\ req'[q].saw = req[q].saw
                                 /\ req'[q].since = req[q].since
          /\ Swapped(q)' => Swapped(q) /\ req'[q].since = req[q].since
    BY <1>1 DEF SwapsVersion, Swapping, Swapped, At
  <1>4. VersionsKnown'
    <2>1. \A q \in Requests : req'[q].since <= db'
      BY <1>1, <1>2 DEF IInv, VersionsKnown
    <2>2. \A q \in Requests : SwapsVersion(q)' => /\ req'[q].saw <= db'
                                                  /\ req'[q].since <= req'[q].saw
      BY <1>2, <1>3 DEF IInv, VersionsKnown
    <2>3. QED
      BY <2>1, <2>2 DEF IInv, VersionsKnown, cached
  <1>5. PromisesHold'
    BY <1>3 DEF IInv, PromisesHold, VersionsKnown, cached
  <1>6. QED
    BY <1>4, <1>5

\* A step that neither inserts a filename nor commits keeps what is recorded.
LEMMA QuietKeepsFiles ==
    ASSUME IInv, NEW r \in Requests, NEW k \in Request, req' = [req EXCEPT ![r] = k],
           UNCHANGED <<recorded, commits>>, k.pc # "Commit"
    PROVE  FilesRecorded'
  <1>1. /\ req'[r] = k
        /\ \A q \in Requests : q # r => req'[q] = req[q]
    BY DEF IInv, TasksCoherent
  <1>2. \A q \in Requests : At(q, "Commit")' => At(q, "Commit") /\ req'[q] = req[q]
    BY <1>1 DEF At
  <1>3. QED
    BY <1>2 DEF IInv, FilesRecorded, MigrationAppliedOnce

\* What every task that ends does.
LEMMA LeaveKeeps ==
    ASSUME IInv, NEW r \in Requests, NEW session \in Session, Leave(r, session),
           session = Clean \/ req[r].clients > 0,
           UNCHANGED <<recorded, commits>>,
           cache' # cache => \A q \in Requests : req[q].lock = "none"
    PROVE  /\ Resources'
           /\ FilesRecorded'
           /\ db' \in Nat /\ db <= db' /\ UNCHANGED <<cached, promised, raced>>
                => VersionsKnown' /\ PromisesHold'
  <1>1. Moves(r, Idle)
    BY LeaveMoves DEF IInv, Resources
  <1>2. /\ Resources
        /\ req' = [req EXCEPT ![r] = Idle]
        /\ Idle \in Request
    BY <1>1 DEF IInv, Resources, Moves, Coherent
  <1>3. /\ ~Swapping(r)' /\ ~Swapped(r)'
        /\ req'[r] = Idle
    BY <1>2 DEF IInv, TasksCoherent, Swapping, Swapped, At, Idle, Refreshing
  <1>4. Resources'
    BY <1>1, <1>2, MovesKeepsResources
  <1>5. FilesRecorded'
    BY <1>2, QuietKeepsFiles DEF Idle
  <1>6. ASSUME db' \in Nat, db <= db', UNCHANGED <<cached, promised, raced>>
        PROVE  VersionsKnown' /\ PromisesHold'
    <2>1. Idle.since <= db'
      BY <1>6 DEF Idle
    <2>2. QED
      BY <1>2, <1>3, <1>6, <2>1, QuietKeepsVersions
  <1>7. QED
    BY <1>4, <1>5, <1>6

\* What every step does that is not an end, an introspection, a swap or a commit.
LEMMA QuietKeeps ==
    ASSUME IInv, NEW r \in Requests, NEW k, Moves(r, k),
           UNCHANGED <<recorded, commits, db, cached, promised, raced>>,
           k.pc # "Commit",
           k.since <= db,
           Swapping(r)' => /\ Swapping(r) /\ k.saw = req[r].saw /\ k.since = req[r].since
                           /\ k.misread = req[r].misread,
           Swapped(r)' => Swapped(r) /\ k.since = req[r].since
    PROVE  IInv'
  <1>1. Resources /\ req' = [req EXCEPT ![r] = k] /\ k \in Request
    BY DEF IInv, Resources, Moves, Coherent
  <1>2. Resources'
    BY <1>1, MovesKeepsResources
  <1>3. FilesRecorded'
    BY <1>1, QuietKeepsFiles
  <1>4. db' \in Nat /\ db <= db' /\ k.since <= db'
    BY DEF IInv, VersionsKnown
  <1>5. VersionsKnown' /\ PromisesHold'
    BY <1>1, <1>4, QuietKeepsVersions
  <1>6. QED
    BY <1>2, <1>3, <1>5 DEF IInv, Resources

-----------------------------------------------------------------------------
(* One lemma for each action.                                               *)

\* The facts about one task that the steps below start from.
LEMMA TaskFacts ==
    ASSUME IInv, NEW r \in Requests
    PROVE  /\ Resources
           /\ req \in [Requests -> Request]
           /\ req[r] \in Request
           /\ Coherent(req[r])
           /\ Busy(r) => req[r].op \in Serves[r]
           /\ free \in Nat
           /\ req[r].saw \in Nat /\ req[r].since \in Nat /\ req[r].clients \in Nat
           /\ req[r].since <= db
           /\ req[r].session \in Session /\ req[r].behind \in Session
           /\ LeftoverIn(leftover, free)
           /\ db \in Nat /\ cache \in Nat /\ promised \in Nat
           /\ Idle \in Request
  <1>1. /\ Resources
        /\ req \in [Requests -> Request]
        /\ Coherent(req[r])
        /\ Busy(r) => req[r].op \in Serves[r]
        /\ free \in Nat
        /\ LeftoverIn(leftover, free)
    BY DEF IInv, Resources, TasksCoherent, ClientsAddUp
  <1>2. req[r] \in Request
    BY <1>1
  <1>3. /\ req[r].saw \in Nat /\ req[r].since \in Nat /\ req[r].clients \in Nat
        /\ req[r].session \in Session /\ req[r].behind \in Session
    BY <1>2 DEF Request
  <1>4. /\ req[r].since <= db
        /\ db \in Nat /\ cache \in Nat /\ promised \in Nat
    BY DEF IInv, VersionsKnown
  <1>5. Idle \in Request
    BY CleanIsSession DEF Idle, Request
  <1>6. QED
    BY <1>1, <1>2, <1>3, <1>4, <1>5

\* A request arrives: the task waits, for the lock to read or for a client.
LEMMA ArriveKeeps ==
    ASSUME IInv, NEW r \in Requests, NEW op, Arrive(r, op), NEW k \in Request,
           k.op = op, k.clients = 0, k.lock = "none", k.since \in {0, db},
           k.session = Clean, k.behind = Clean,
           op = "Apply" => k.file \in Files,
           req' = [req EXCEPT ![r] = k],
           \/ /\ k.pc = "Lock" /\ op \in Reading
              /\ lockQueue' = Append(lockQueue, r) /\ UNCHANGED poolQueue
           \/ /\ k.pc = "Client" /\ op \in {"Sql", "Preview", "Reload", "Apply"}
              /\ poolQueue' = Append(poolQueue, r) /\ UNCHANGED lockQueue
    PROVE  IInv'
  <1>1. At(r, "idle") /\ req[r].clients = 0
    BY TaskFacts DEF Coherent, Busy, At, Arrive
  <1>3. Coherent(k)
    <2>2. k.op # "none" /\ k.pc # "idle" /\ (k.op = "Apply" => k.file \in Files)
      BY DEF Reading
    <2>3. CASE k.pc = "Lock"
      BY <2>2, <2>3 DEF Coherent, Reading, Kept
    <2>4. CASE k.pc = "Client"
      BY <2>2, <2>4 DEF Coherent
    <2>5. QED
      BY <2>3, <2>4
  <1>4. Moves(r, k)
    BY <1>1, <1>3, TaskFacts DEF Moves, Arrive, QueueMoves, At, pool, cached, LeftoverIn
  <1>5. ~Swapping(r)' /\ ~Swapped(r)'
    BY TaskFacts DEF Swapping, Swapped, At, Reading, Refreshing
  <1>6. UNCHANGED <<recorded, commits, db, cached, promised, raced>>
    BY DEF Arrive, database, history
  <1>7. k.pc # "Commit" /\ k.since <= db
    BY TaskFacts
  <1>8. QED
    BY <1>4, <1>5, <1>6, <1>7, QuietKeeps

\* A request that arrives queues up and holds nothing yet.
LEMMA SubmitKeeps == ASSUME IInv, NEW r \in Requests, Submit(r) PROVE IInv'
  <1>1. CASE Read(r)
    <2>1. PICK op \in Reading : Arrive(r, op) /\ AskLock(r, [Idle EXCEPT !.op = op])
      BY <1>1 DEF Read
    <2> DEFINE k == [[Idle EXCEPT !.op = op] EXCEPT !.pc = "Lock"]
    <2>2. /\ req' = [req EXCEPT ![r] = k]
          /\ lockQueue' = Append(lockQueue, r) /\ UNCHANGED poolQueue
      BY <1>1, <2>1 DEF Read, AskLock
    <2>3. /\ k \in Request
          /\ k.op = op /\ k.pc = "Lock" /\ k.clients = 0 /\ k.lock = "none"
          /\ k.session = Clean /\ k.behind = Clean /\ k.since = 0
      BY TaskFacts, CleanIsSession DEF Idle, Request, Ops
    <2>4. op # "Apply"
      BY DEF Reading
    <2> HIDE DEF k
    <2>5. QED
      BY <2>1, <2>2, <2>3, <2>4, ArriveKeeps
  <1>2. CASE ReloadSchema(r)
    <2> DEFINE k == [[Idle EXCEPT !.op = "Reload", !.since = db] EXCEPT !.pc = "Client"]
    <2>1. /\ req' = [req EXCEPT ![r] = k]
          /\ poolQueue' = Append(poolQueue, r) /\ UNCHANGED lockQueue
          /\ Arrive(r, "Reload")
      BY <1>2 DEF ReloadSchema, AskClient
    <2>2. /\ k \in Request
          /\ k.op = "Reload" /\ k.pc = "Client" /\ k.clients = 0 /\ k.lock = "none"
          /\ k.session = Clean
          /\ k.behind = Clean /\ k.since = db
      BY TaskFacts, CleanIsSession DEF Idle, Request, Ops, Refreshing
    <2> HIDE DEF k
    <2>3. QED
      BY <2>1, <2>2, ArriveKeeps
  <1>3. CASE MigrateApply(r)
    <2>1. PICK f \in Files : AskClient(r, [Idle EXCEPT !.op = "Apply", !.file = f])
      BY <1>3 DEF MigrateApply
    <2> DEFINE k == [[Idle EXCEPT !.op = "Apply", !.file = f] EXCEPT !.pc = "Client"]
    <2>2. /\ req' = [req EXCEPT ![r] = k]
          /\ poolQueue' = Append(poolQueue, r) /\ UNCHANGED lockQueue
          /\ Arrive(r, "Apply")
      BY <1>3, <2>1 DEF MigrateApply, AskClient
    <2>3. /\ k \in Request
          /\ k.op = "Apply" /\ k.pc = "Client" /\ k.clients = 0 /\ k.lock = "none"
          /\ k.session = Clean
          /\ k.behind = Clean /\ k.since = 0 /\ k.file \in Files
      BY TaskFacts, CleanIsSession DEF Idle, Request, Ops, Refreshing
    <2> HIDE DEF k
    <2>4. QED
      BY <2>2, <2>3, ArriveKeeps
  <1>4. CASE UseClient(r)
    <2>1. PICK op \in {"Sql", "Preview"} : Arrive(r, op) /\ AskClient(r, [Idle EXCEPT !.op = op])
      BY <1>4 DEF UseClient
    <2> DEFINE k == [[Idle EXCEPT !.op = op] EXCEPT !.pc = "Client"]
    <2>2. /\ req' = [req EXCEPT ![r] = k]
          /\ poolQueue' = Append(poolQueue, r) /\ UNCHANGED lockQueue
      BY <1>4, <2>1 DEF UseClient, AskClient
    <2>3. /\ k \in Request
          /\ k.op = op /\ k.pc = "Client" /\ k.clients = 0 /\ k.lock = "none"
          /\ k.session = Clean
          /\ k.behind = Clean /\ k.since = 0
      BY TaskFacts, CleanIsSession DEF Idle, Request, Ops
    <2> HIDE DEF k
    <2>4. QED
      BY <2>1, <2>2, <2>3, ArriveKeeps
  <1>5. QED
    BY <1>1, <1>2, <1>3, <1>4 DEF Submit

\* A client goes from the pool to the task at the head of the queue.
LEMMA TakeClientKeeps == ASSUME IInv, NEW r \in Requests, TakeClient(r) PROVE IInv'
  <1>0. PICK session \in {Clean} \cup Range(leftover) :
          /\ \/ session = Clean /\ free > Len(leftover) /\ UNCHANGED leftover
             \/ leftover # <<>> /\ session = Head(leftover) /\ leftover' = Tail(leftover)
          /\ req' = [req EXCEPT ![r].clients = @ + 1, ![r].pc = NextStatement(r),
                                ![r].session = session, ![r].behind = req[r].session]
    BY DEF TakeClient
  <1> DEFINE k == [req[r] EXCEPT !.clients = @ + 1, !.pc = NextStatement(r),
                                 !.session = session, !.behind = req[r].session]
  <1>1. /\ At(r, "Client") /\ Head(poolQueue) = r /\ free > 0
        /\ req' = [req EXCEPT ![r] = k]
    BY <1>0, TaskFacts DEF TakeClient, ClientReady
  <1>11. session \in Session
    <2>1. CASE session = Clean
      BY <2>1, CleanIsSession
    <2>2. CASE leftover # <<>> /\ session = Head(leftover)
      BY <2>2, TaskFacts DEF LeftoverIn
    <2>3. QED
      BY <1>0, <2>1, <2>2
  <1>12. LeftoverIn(leftover', free - 1)
    <2>1. free \in Nat /\ leftover \in Seq(Session \ {Clean}) /\ Len(leftover) <= free
      BY TaskFacts DEF LeftoverIn
    <2>2. CASE free > Len(leftover) /\ UNCHANGED leftover
      BY <2>1, <2>2 DEF LeftoverIn
    <2>3. CASE leftover # <<>> /\ leftover' = Tail(leftover)
      BY <2>1, <2>3 DEF LeftoverIn
    <2>4. QED
      BY <1>0, <2>2, <2>3
  <1>2. /\ k.session = session /\ k.behind = req[r].session /\ k.misread = req[r].misread
        /\ k.op = req[r].op /\ k.lock = req[r].lock /\ k.saw = req[r].saw
        /\ k.since = req[r].since /\ k.file = req[r].file
        /\ k.clients = req[r].clients + 1 /\ k.pc = NextStatement(r)
    BY TaskFacts DEF Request
  <1>3. \/ /\ req[r].op = "Rows" /\ req[r].clients = 0 /\ req[r].lock = "read"
           /\ NextStatement(r) = "Query"
        \/ /\ req[r].op = "Sql" /\ req[r].clients = 0 /\ req[r].lock = "none"
           /\ NextStatement(r) = "Execute"
        \/ /\ req[r].op \in {"Reload", "Preview"} /\ req[r].clients = 0 /\ req[r].lock = "none"
           /\ NextStatement(r) = "Introspect"
        \/ /\ req[r].op = "Apply" /\ req[r].clients = 0 /\ req[r].lock = "none"
           /\ NextStatement(r) = "CheckApplied"
        \/ /\ req[r].op = "Apply" /\ req[r].clients = 1 /\ req[r].lock = "none"
           /\ NextStatement(r) = "Introspect"
        \/ /\ req[r].op = "Apply" /\ req[r].clients = 2 /\ req[r].lock = "none"
           /\ NextStatement(r) = "Attach"
    <2>1. \/ req[r].op = "Rows" /\ req[r].clients = 0 /\ req[r].lock = "read"
          \/ req[r].op \in {"Sql", "Preview", "Reload"} /\ req[r].clients = 0
               /\ req[r].lock = "none"
          \/ req[r].op = "Apply" /\ req[r].clients \in {0, 1, 2} /\ req[r].lock = "none"
      BY <1>1, TaskFacts DEF At, Coherent
    <2>2. QED
      BY <2>1 DEF NextStatement
  <1>4. k \in Request
    <2>1. req[r].clients + 1 \in 0..3
      BY <1>3
    <2>2. NextStatement(r) \in Statements
      BY <1>3 DEF Statements
    <2>3. QED
      BY <1>11, <2>1, <2>2, TaskFacts DEF Request
  <1> HIDE DEF k
  <1>5. Coherent(k)
    <2>1. k.op = "Apply" => k.file \in Files
      BY <1>2, TaskFacts DEF Coherent
    <2>2. (k.clients = 0 => k.session = Clean) /\ (k.clients <= 1 => k.behind = Clean)
      BY <1>2, <1>3, TaskFacts DEF Coherent
    <2>3. QED
      BY <1>2, <1>3, <1>4, <2>1, <2>2 DEF Coherent
  <1>6. Moves(r, k)
    <2>1. UNCHANGED <<lockQueue, cache>> /\ poolQueue' = Tail(poolQueue) /\ free' = free - 1
      BY DEF TakeClient, cached
    <2>2. k.pc # "Client" /\ k.pc # "Lock" /\ ~At(r, "Lock")
      BY <1>1, <1>2, <1>3 DEF At
    <2>3. k.op # "none" => k.op \in Serves[r]
      BY <1>2, TaskFacts DEF Busy
    <2>4. free' \in Nat /\ free' + k.clients = free + req[r].clients
      <3>1. free \in Nat /\ req[r].clients \in Nat
        BY TaskFacts
      <3>2. QED
        BY <1>1, <1>2, <2>1, <3>1
    <2>5. k.lock = "read" => req[r].lock = "read" /\ k.saw = req[r].saw
      BY <1>2
    <2>6. k.lock # "write"
      BY <1>2, <1>3
    <2>7. QED
      BY <1>1, <1>5, <1>12, <2>1, <2>2, <2>3, <2>4, <2>5, <2>6 DEF Moves, QueueMoves
  <1>7. req'[r] = k
    BY <1>1, TaskFacts
  <1>8. /\ Swapping(r)' => Swapping(r)
        /\ Swapped(r)' => Swapped(r)
    BY <1>1, <1>2, <1>3, <1>7 DEF Swapping, Swapped, At, Refreshing
  <1>9. k.pc # "Commit"
    BY <1>2, <1>3
  <1>10. QED
    BY <1>2, <1>6, <1>8, <1>9, TaskFacts, QuietKeeps DEF TakeClient, database, history

\* A reader has its guard while no writer has one, and keeps what it read.
LEMMA TakeReadLockKeeps == ASSUME IInv, NEW r \in Requests, TakeReadLock(r) PROVE IInv'
  <1>1. CASE Leave(r, Clean)
    BY <1>1, TaskFacts, CleanIsSession, LeaveKeeps
       DEF TakeReadLock, database, cached, history, IInv, Resources
  <1>2. CASE ~Leave(r, Clean)
    <2> DEFINE k == [req[r] EXCEPT !.saw = cache, !.lock = "read", !.pc = "Client"]
    <2>1. /\ At(r, "Lock") /\ Head(lockQueue) = r /\ Holding("write") = {}
          /\ req[r].op = "Rows"
          /\ req' = [req EXCEPT ![r] = k]
          /\ poolQueue' = Append(poolQueue, r)
          /\ lockQueue' = Tail(lockQueue)
          /\ UNCHANGED <<free, leftover, database, cached, history>>
      BY <1>2, TaskFacts DEF TakeReadLock, LockReady, AskClient, Request, pool
    <2>2. /\ k.session = req[r].session /\ k.behind = req[r].behind
          /\ k.op = "Rows" /\ k.lock = "read" /\ k.saw = cache /\ k.since = req[r].since
          /\ k.file = req[r].file /\ k.clients = 0 /\ k.pc = "Client"
          /\ req[r].clients = 0
      BY <2>1, TaskFacts DEF Request, Coherent, At, Kept
    <2>3. k \in Request
      BY TaskFacts DEF Request, Statements
    <2> HIDE DEF k
    <2>4. Coherent(k)
      BY <2>2, <2>3, TaskFacts DEF Coherent
    <2>5. Moves(r, k)
      BY <2>1, <2>2, <2>4, TaskFacts DEF Moves, QueueMoves, At, Busy, cached
    <2>6. req'[r] = k
      BY <2>1, TaskFacts
    <2>7. ~Swapping(r)' /\ ~Swapped(r)'
      BY <2>2, <2>6 DEF Swapping, Swapped, At, Refreshing
    <2>8. QED
      BY <2>1, <2>2, <2>5, <2>7, TaskFacts, QuietKeeps DEF database, history
  <1>3. QED
    BY <1>1, <1>2

\* A swap: unless another refresh is on its way, nothing promised is lost.
LEMMA SwapKeepsVersions ==
    ASSUME IInv, NEW r \in Requests, NEW k \in Request, req' = [req EXCEPT ![r] = k],
           At(r, "Lock"), req[r].op \in Refreshing,
           cache' = req[r].saw, misread' = req[r].misread,
           raced' = (raced \/ \E q \in Requests \ {r} : Swapping(q)),
           k.pc # "ReadColumns", k.pc # "Lock",
           k.since <= db,
           Swapped(r)' => k.since = req[r].since,
           promised' \in {promised, req[r].since}, promised' >= promised,
           UNCHANGED db
    PROVE  VersionsKnown' /\ PromisesHold'
  <1>1. /\ req'[r] = k
        /\ \A q \in Requests : q # r => req'[q] = req[q]
        /\ \A q \in Requests : req'[q] \in Request
    BY TaskFacts
  <1>2. \A q \in Requests : /\ req[q].saw \in Nat /\ req[q].since \in Nat
                            /\ req[q].since <= db
                            /\ req'[q].saw \in Nat /\ req'[q].since \in Nat
                            /\ req'[q].since <= db
    BY <1>1, TaskFacts DEF Request
  <1>3. /\ Swapping(r) /\ ~Swapping(r)' /\ ~SwapsVersion(r)'
        /\ ~misread' => /\ SwapsVersion(r) /\ req[r].saw <= db
                        /\ req[r].since <= req[r].saw
        /\ misread' \in BOOLEAN
    BY <1>1, TaskFacts DEF SwapsVersion, Swapping, At, IInv, VersionsKnown, Request
  <1>4. \A q \in Requests : q # r =>
          /\ Swapping(q)' <=> Swapping(q)
          /\ SwapsVersion(q)' <=> SwapsVersion(q)
          /\ Swapped(q)' <=> Swapped(q)
    BY <1>1 DEF SwapsVersion, Swapping, Swapped, At
  <1>5. /\ db \in Nat /\ promised \in Nat /\ promised <= db /\ raced \in BOOLEAN
        /\ promised' \in Nat /\ promised' <= db
    BY <1>2 DEF IInv, VersionsKnown
  <1>6. VersionsKnown'
    <2>1. \A q \in Requests : SwapsVersion(q)' => /\ req'[q].saw <= db'
                                                  /\ req'[q].since <= req'[q].saw
      BY <1>1, <1>3, <1>4 DEF IInv, VersionsKnown
    <2>2. raced' \in BOOLEAN
      OBVIOUS
    <2>3. cache' \in Nat /\ (~misread' => cache' <= db')
      BY <1>2, <1>3
    <2>4. QED
      BY <1>2, <1>3, <1>5, <2>1, <2>2, <2>3 DEF VersionsKnown
  <1>7. ASSUME ~raced'
        PROVE  /\ ~misread' => promised' <= cache'
               /\ \A q \in Requests : Swapped(q)' /\ ~misread' => req'[q].since <= cache'
               /\ \A q \in Requests : ~SwapsVersion(q)'
    <2>1. ~raced /\ \A q \in Requests \ {r} : ~Swapping(q)
      BY <1>7
    <2>2. ~misread' => /\ promised <= req[r].saw
                       /\ \A q \in Requests : Swapped(q) => req[q].since <= req[r].saw
      BY <1>3, <2>1 DEF IInv, PromisesHold
    <2>3. ~misread' => promised' <= cache'
      BY <1>3, <2>2
    <2>4. \A q \in Requests : Swapped(q)' /\ ~misread' => req'[q].since <= cache'
      BY <1>1, <1>3, <1>4, <2>2
    <2>5. \A q \in Requests : ~SwapsVersion(q)'
      BY <1>3, <1>4, <2>1 DEF SwapsVersion
    <2>6. QED
      BY <2>3, <2>4, <2>5
  <1>8. QED
    BY <1>6, <1>7 DEF PromisesHold

\* Nobody holds a guard while the cached schema is replaced.
LEMMA TakeWriteLockKeeps == ASSUME IInv, NEW r \in Requests, TakeWriteLock(r) PROVE IInv'
  <1>1. /\ At(r, "Lock") /\ Head(lockQueue) = r /\ req[r].op \in Refreshing
        /\ \A q \in Requests : req[q].lock = "none"
    <2>1. /\ At(r, "Lock") /\ Head(lockQueue) = r /\ req[r].op \in Refreshing
          /\ Holding("write") = {} /\ Holding("read") = {}
      BY DEF TakeWriteLock, LockReady
    <2>2. \A q \in Requests : req[q].lock \in {"none", "read", "write"}
      BY TaskFacts DEF Request
    <2>3. QED
      BY <2>1, <2>2 DEF Holding
  <1>2. /\ cache' = req[r].saw /\ misread' = req[r].misread
        /\ raced' = (raced \/ \E q \in Requests \ {r} : Swapping(q))
        /\ UNCHANGED <<db, recorded, commits>>
    BY DEF TakeWriteLock, database
  <1>3. req[r].lock = "none" /\ req[r].clients = Kept(req[r].op) /\ req[r].pc = "Lock"
    BY <1>1, TaskFacts DEF Coherent, At
  <1>4. CASE req[r].op = "Apply" /\ AskClient(r, req[r]) /\ lockQueue' = Tail(lockQueue)
             /\ UNCHANGED <<pool, promised>>
    <2> DEFINE k == [req[r] EXCEPT !.pc = "Client"]
    <2>1. /\ req' = [req EXCEPT ![r] = k]
          /\ poolQueue' = Append(poolQueue, r)
      BY <1>4 DEF AskClient
    <2>2. /\ k \in Request
          /\ k.op = "Apply" /\ k.pc = "Client" /\ k.clients = 2 /\ k.lock = "none"
          /\ k.session = req[r].session /\ k.behind = req[r].behind
          /\ k.since = req[r].since /\ k.file = req[r].file
          /\ req[r].clients = 2
      BY <1>3, <1>4, TaskFacts DEF Request, Kept
    <2> HIDE DEF k
    <2>3. Coherent(k)
      BY <1>4, <2>2, TaskFacts DEF Coherent
    <2>4. Moves(r, k)
      BY <1>1, <1>3, <1>4, <2>1, <2>2, <2>3, TaskFacts
         DEF Moves, QueueMoves, At, Busy, pool, LeftoverIn
    <2>5. Resources'
      BY <2>4, TaskFacts, MovesKeepsResources
    <2>6. FilesRecorded'
      BY <1>2, <2>1, <2>2, QuietKeepsFiles
    <2>7. k.since <= db /\ promised' \in {promised, req[r].since}
          /\ promised' >= promised
      BY <1>4, <2>2, TaskFacts
    <2>8. VersionsKnown' /\ PromisesHold'
      BY <1>1, <1>2, <2>1, <2>2, <2>7, SwapKeepsVersions
    <2>9. QED
      BY <2>5, <2>6, <2>8 DEF IInv, Resources
  <1>5. CASE req[r].op = "Reload" /\ Leave(r, req[r].session) /\ Vouch(r)
    <2>1. Resources' /\ FilesRecorded'
      <3>1. req[r].session \in Session /\ req[r].clients > 0
        BY <1>3, <1>5, TaskFacts DEF Kept
      <3>2. QED
        BY <1>1, <1>2, <1>5, <3>1, LeaveKeeps
    <2>2. /\ req' = [req EXCEPT ![r] = Idle]
          /\ Idle.pc # "ReadColumns" /\ Idle.pc # "Lock"
          /\ Idle.since <= db
      BY <1>5, TaskFacts DEF Leave, Idle
    <2>3. ~Swapped(r)'
      BY <2>2, TaskFacts DEF Swapped, At, Idle
    <2>4. promised' \in {promised, req[r].since} /\ promised' >= promised
      BY <1>5, TaskFacts DEF Vouch
    <2>5. VersionsKnown' /\ PromisesHold'
      BY <1>1, <1>2, <2>2, <2>3, <2>4, TaskFacts, SwapKeepsVersions
    <2>6. QED
      BY <2>1, <2>5 DEF IInv, Resources
  <1>6. CASE /\ req[r].op = "Reload"
             /\ req' = [req EXCEPT ![r].pc = "Attach", ![r].lock = "write"]
             /\ lockQueue' = Tail(lockQueue)
             /\ UNCHANGED <<pool, poolQueue, promised>>
    <2> DEFINE k == [req[r] EXCEPT !.pc = "Attach", !.lock = "write"]
    <2>1. req' = [req EXCEPT ![r] = k]
      BY <1>6, TaskFacts
    <2>2. /\ k \in Request
          /\ k.op = "Reload" /\ k.pc = "Attach" /\ k.clients = 1 /\ k.lock = "write"
          /\ k.session = req[r].session /\ k.behind = req[r].behind
          /\ k.since = req[r].since /\ k.file = req[r].file
          /\ req[r].clients = 1
      BY <1>3, <1>6, TaskFacts DEF Request, Kept, Statements
    <2> HIDE DEF k
    <2>3. Coherent(k)
      BY <2>2, TaskFacts DEF Coherent
    <2>4. Moves(r, k)
      BY <1>1, <1>3, <1>6, <2>1, <2>2, <2>3, TaskFacts
         DEF Moves, QueueMoves, At, Busy, pool, LeftoverIn
    <2>5. Resources'
      BY <2>4, TaskFacts, MovesKeepsResources
    <2>6. FilesRecorded'
      BY <1>2, <2>1, <2>2, QuietKeepsFiles
    <2>7. k.since <= db /\ promised' \in {promised, req[r].since}
          /\ promised' >= promised
      BY <1>6, <2>2, TaskFacts
    <2>8. VersionsKnown' /\ PromisesHold'
      BY <1>1, <1>2, <2>1, <2>2, <2>7, SwapKeepsVersions
    <2>9. QED
      BY <2>5, <2>6, <2>8 DEF IInv, Resources
  <1>7. QED
    BY <1>4, <1>5, <1>6 DEF TakeWriteLock

\* Query, Execute, and whatever ends early: the task leaves.
LEMMA QueryKeeps == ASSUME IInv, NEW r \in Requests, Query(r) PROVE IInv'
  <1>1. /\ db' \in Nat /\ db <= db'
        /\ UNCHANGED <<recorded, commits, cached, promised, raced>>
    BY TaskFacts DEF Query, CommitLeftover, history
  <1>2. PICK session \in Session : Leave(r, session)
    BY TaskFacts, CleanIsSession, BrokenIsSession DEF Query
  <1>3. req[r].clients > 0 /\ UNCHANGED cache
    BY <1>1, TaskFacts DEF Query, At, Coherent, cached
  <1>4. QED
    BY <1>1, <1>2, <1>3, LeaveKeeps DEF IInv, Resources

\* execute_sql may have changed the schema, not the migrations.
LEMMA ExecuteKeeps == ASSUME IInv, NEW r \in Requests, Execute(r) PROVE IInv'
  <1>1. /\ db' \in Nat /\ db <= db'
        /\ UNCHANGED <<recorded, commits, cached, promised, raced>>
    BY TaskFacts DEF Execute, CommitLeftover, history
  <1>2. PICK session \in Session : Leave(r, session)
    BY CleanIsSession DEF Execute
  <1>3. req[r].clients > 0 /\ UNCHANGED cache
    BY <1>1, TaskFacts DEF Execute, At, Coherent, cached
  <1>4. QED
    BY <1>1, <1>2, <1>3, LeaveKeeps DEF IInv, Resources

\* A task that fails or is dropped gives up all it holds.  Only one that holds
\* a client can leave a transaction open on it.
LEMMA AbortKeeps == ASSUME IInv, NEW r \in Requests, Abort(r) PROVE IInv'
  <1>1. /\ db' \in Nat /\ db <= db'
        /\ UNCHANGED <<recorded, commits, cached, promised, raced>>
    BY TaskFacts DEF Abort, database, history
  <1>2. PICK session \in LeftBy(r) : Leave(r, session)
    BY DEF Abort
  <1> DEFINE begun == [req[r].session EXCEPT !.tx = "open"]
  <1>3. /\ begun \in Session
        /\ [begun EXCEPT !.role = TRUE] \in Session
        /\ [begun EXCEPT !.changed = TRUE] \in Session
    BY TaskFacts DEF Session
  <1>4. session \in Session
    BY <1>3, TaskFacts, CleanIsSession, BrokenIsSession DEF LeftBy
  <1>5. session = Clean \/ req[r].clients > 0
    <2>1. CASE req[r].clients = 0
      <3>1. req[r].session = Clean /\ req[r].pc # "Query" /\ req[r].pc # "Execute"
        BY <2>1, TaskFacts DEF Coherent
      <3>2. QED
        BY <3>1, CleanIsSession, BrokenIsSession DEF LeftBy, At
    <2>2. QED
      BY <2>1, TaskFacts
  <1>6. UNCHANGED cache
    BY <1>1 DEF cached
  <1>7. QED
    BY <1>1, <1>2, <1>4, <1>5, <1>6, LeaveKeeps DEF IInv, Resources

\* A task that goes on from one statement to the next with what it holds.
LEMMA StatementMoves ==
    ASSUME IInv, NEW r \in Requests, NEW k, Coherent(k), req' = [req EXCEPT ![r] = k],
           ~At(r, "Client"), ~At(r, "Lock"), req[r].op # "none",
           k.op = req[r].op, k.clients = req[r].clients, k.lock = "none", req[r].lock = "none",
           \/ UNCHANGED poolQueue /\ k.pc # "Client"
           \/ poolQueue' = Append(poolQueue, r) /\ k.pc = "Client",
           \/ UNCHANGED lockQueue /\ k.pc # "Lock"
           \/ lockQueue' = Append(lockQueue, r) /\ k.pc = "Lock",
           UNCHANGED <<pool, cached>>
    PROVE  Moves(r, k)
  BY TaskFacts DEF Moves, QueueMoves, Busy, pool, cached, LeftoverIn

\* A refresh that starts to introspect sees every version committed so far, if
\* it can see them at all.
LEMMA IntrospectMovesKeeps ==
    ASSUME IInv, NEW r \in Requests, At(r, "Introspect"),
           req' = [req EXCEPT ![r].pc = "ReadColumns", ![r].saw = Visible(req[r].session),
                              ![r].misread = req[r].session.role \/ req[r].session.changed],
           UNCHANGED <<pool, poolQueue, lockQueue, database, cached, history>>
    PROVE  IInv'
  <1> DEFINE k == [req[r] EXCEPT !.pc = "ReadColumns", !.saw = Visible(req[r].session),
                                 !.misread = req[r].session.role \/ req[r].session.changed]
  <1>1. /\ At(r, "Introspect")
        /\ req' = [req EXCEPT ![r] = k]
        /\ UNCHANGED <<pool, poolQueue, lockQueue, database, cached, history>>
    BY TaskFacts
  <1>0. /\ req[r].session.role \in BOOLEAN /\ req[r].session.changed \in BOOLEAN
        /\ Visible(req[r].session) \in Nat
        /\ ~req[r].session.role /\ ~req[r].session.changed => Visible(req[r].session) = db
    BY TaskFacts DEF Visible, Session
  <1>2. /\ k \in Request
        /\ k.op = req[r].op /\ k.pc = "ReadColumns" /\ k.clients = req[r].clients
        /\ k.lock = req[r].lock /\ (~k.misread => k.saw = db) /\ k.since = req[r].since
        /\ k.file = req[r].file /\ k.session = req[r].session /\ k.behind = req[r].behind
    BY <1>0, TaskFacts DEF Request, Statements
  <1> HIDE DEF k
  <1>3. req[r].lock = "none" /\ req[r].op # "none" /\ ~At(r, "Client") /\ ~At(r, "Lock")
    BY <1>1, TaskFacts DEF Coherent, At
  <1>4. Coherent(k)
    BY <1>1, <1>2, TaskFacts DEF Coherent, At
  <1>5. Resources'
    <2>1. Moves(r, k)
      BY <1>1, <1>2, <1>3, <1>4, StatementMoves
    <2>2. QED
      BY <2>1, TaskFacts, MovesKeepsResources
  <1>6. FilesRecorded'
    BY <1>1, <1>2, QuietKeepsFiles DEF database
  <1>7. /\ UNCHANGED <<db, cache, misread, promised, raced>>
        /\ req'[r] = k
        /\ \A q \in Requests : q # r => req'[q] = req[q]
        /\ \A q \in Requests : req'[q] \in Request
    BY <1>1, <1>2, TaskFacts DEF database, cached, history
  <1>8. \A q \in Requests : /\ req[q].since \in Nat /\ req'[q].saw \in Nat /\ req'[q].since \in Nat
                            /\ req[q].since <= db
                            /\ req'[q].since <= db
    BY <1>2, <1>7, TaskFacts DEF Request
  <1>9. ~Swapped(r)' /\ \A q \in Requests : q # r => (Swapped(q)' <=> Swapped(q))
                                             /\ (SwapsVersion(q)' <=> SwapsVersion(q))
    BY <1>2, <1>7 DEF Swapped, SwapsVersion, Swapping, At
  <1>10. VersionsKnown'
    <2>1. \A q \in Requests : SwapsVersion(q)' => /\ req'[q].saw <= db
                                                  /\ req'[q].since <= req'[q].saw
      <3>1. SwapsVersion(r)' => req'[r].saw = db
        BY <1>2, <1>7 DEF SwapsVersion
      <3>2. db <= db
        BY TaskFacts
      <3>3. QED
        BY <1>7, <1>8, <1>9, <3>1, <3>2 DEF IInv, VersionsKnown
    <2>2. QED
      BY <1>7, <1>8, <2>1 DEF IInv, VersionsKnown
  <1>11. PromisesHold'
    <2>1. promised <= db
      BY DEF IInv, VersionsKnown
    <2>2. SwapsVersion(r)' => req'[r].saw = db
      BY <1>2, <1>7 DEF SwapsVersion
    <2>3. QED
      BY <1>7, <1>8, <1>9, <2>1, <2>2 DEF IInv, PromisesHold
  <1>12. QED
    BY <1>5, <1>6, <1>10, <1>11 DEF IInv, Resources

LEMMA IntrospectKeeps == ASSUME IInv, NEW r \in Requests, Introspect(r) PROVE IInv'
  <1>1. At(r, "Introspect") /\ UNCHANGED <<database, cached, history>>
    BY DEF Introspect
  <1>2. CASE Leave(r, Failed)
    <2>1. /\ db' \in Nat /\ db <= db'
          /\ UNCHANGED <<recorded, commits, cache, cached, promised, raced>>
      BY <1>1, TaskFacts DEF database, cached, history
    <2>2. req[r].clients > 0
      BY <1>1, TaskFacts DEF At, Coherent
    <2>3. QED
      BY <1>2, <2>1, <2>2, CleanIsSession, LeaveKeeps DEF IInv, Resources
  <1>3. CASE ~Leave(r, Failed)
    BY <1>1, <1>3, IntrospectMovesKeeps DEF Introspect, pool
  <1>4. QED
    BY <1>2, <1>3

\* What was introspected is kept while the task waits for the lock.
LEMMA ReadColumnsKeeps == ASSUME IInv, NEW r \in Requests, ReadColumns(r) PROVE IInv'
  <1>1. At(r, "ReadColumns") /\ UNCHANGED <<database, cached, history>>
    BY DEF ReadColumns
  <1>2. /\ db' \in Nat /\ db <= db'
        /\ UNCHANGED <<db, recorded, commits, cache, cached, promised, raced>>
    BY <1>1, TaskFacts DEF database, cached, history
  <1>3. CASE Leave(r, req[r].session)
    <2>1. req[r].clients > 0
      BY <1>1, TaskFacts DEF At, Coherent
    <2>2. QED
      BY <1>2, <1>3, <2>1, TaskFacts, LeaveKeeps DEF IInv, Resources
  <1>4. CASE req[r].op \in Refreshing /\ AskLock(r, req[r]) /\ UNCHANGED <<pool, poolQueue>>
    <2> DEFINE k == [req[r] EXCEPT !.pc = "Lock"]
    <2>1. req' = [req EXCEPT ![r] = k] /\ lockQueue' = Append(lockQueue, r)
      BY <1>4 DEF AskLock
    <2>2. /\ k \in Request
          /\ k.op = req[r].op /\ k.pc = "Lock" /\ k.clients = req[r].clients
          /\ k.lock = req[r].lock /\ k.saw = req[r].saw /\ k.since = req[r].since
          /\ k.file = req[r].file /\ k.misread = req[r].misread
          /\ k.session = req[r].session /\ k.behind = req[r].behind
      BY TaskFacts DEF Request
    <2> HIDE DEF k
    <2>3. /\ req[r].lock = "none" /\ req[r].op # "none" /\ ~At(r, "Client") /\ ~At(r, "Lock")
          /\ req[r].clients = Kept(req[r].op)
      BY <1>1, <1>4, TaskFacts DEF Coherent, At, Kept, Refreshing
    <2>4. Coherent(k)
      BY <1>4, <2>2, <2>3, TaskFacts DEF Coherent
    <2>5. Moves(r, k)
      BY <1>1, <1>4, <2>1, <2>2, <2>3, <2>4, StatementMoves
    <2>6. Swapping(r) /\ ~Swapped(r)'
      BY <1>1, <1>4, <2>1, <2>2, TaskFacts DEF Swapping, Swapped, At
    <2>7. QED
      BY <1>1, <1>2, <2>2, <2>5, <2>6, TaskFacts, QuietKeeps
  <1>5. QED
    BY <1>3, <1>4 DEF ReadColumns

\* A step of the transaction: the task holds one client and no guard.
LEMMA GotoKeeps ==
    ASSUME IInv, NEW r \in Requests, NEW pc \in {"RunSql", "Record"}, NEW session \in Session,
           req' = [req EXCEPT ![r] = [req[r] EXCEPT !.pc = pc, !.session = session]],
           req[r].pc \in {"CheckApplied", "RunSql"},
           UNCHANGED <<pool, poolQueue, lockQueue, database, cached, history>>
    PROVE  IInv'
  <1> DEFINE k == [req[r] EXCEPT !.pc = pc, !.session = session]
  <1>1. req' = [req EXCEPT ![r] = k]
    OBVIOUS
  <1>2. /\ k \in Request
        /\ k.op = req[r].op /\ k.pc = pc /\ k.clients = req[r].clients
        /\ k.lock = req[r].lock /\ k.saw = req[r].saw /\ k.since = req[r].since
        /\ k.file = req[r].file /\ k.behind = req[r].behind
    BY TaskFacts DEF Request, Statements
  <1> HIDE DEF k
  <1>3. /\ req[r].lock = "none" /\ req[r].op = "Apply" /\ req[r].clients = 1
        /\ ~At(r, "Client") /\ ~At(r, "Lock")
    BY TaskFacts DEF Coherent, At
  <1>4. Coherent(k)
    BY <1>2, <1>3, TaskFacts DEF Coherent
  <1>5. Moves(r, k)
    BY <1>1, <1>2, <1>3, <1>4, StatementMoves
  <1>6. ~Swapping(r)' /\ ~Swapped(r)'
    BY <1>1, <1>2, TaskFacts DEF Swapping, Swapped, At
  <1>7. UNCHANGED <<recorded, commits, db, cached, promised, raced>>
    BY DEF database, history
  <1>8. QED
    BY <1>2, <1>5, <1>6, <1>7, TaskFacts, QuietKeeps

\* The check before the transaction changes nothing.
LEMMA CheckAppliedKeeps == ASSUME IInv, NEW r \in Requests, CheckApplied(r) PROVE IInv'
  <1>1. At(r, "CheckApplied") /\ UNCHANGED <<database, cached, history>>
    BY DEF CheckApplied
  <1>2. CASE \E session \in Session : Leave(r, session)
    <2>1. PICK session \in Session : Leave(r, session)
      BY <1>2
    <2>2. /\ db' \in Nat /\ db <= db'
          /\ UNCHANGED <<recorded, commits, cache, cached, promised, raced>>
      BY <1>1, TaskFacts DEF database, cached, history
    <2>3. req[r].clients > 0
      BY <1>1, TaskFacts DEF At, Coherent
    <2>4. QED
      BY <2>1, <2>2, <2>3, LeaveKeeps DEF IInv, Resources
  <1>3. CASE Goto(r, "RunSql") /\ UNCHANGED <<pool, poolQueue, lockQueue>>
    <2>1. req' = [req EXCEPT ![r] = [req[r] EXCEPT !.pc = "RunSql", !.session = req[r].session]]
      <3>1. [req[r] EXCEPT !.pc = "RunSql"]
              = [req[r] EXCEPT !.pc = "RunSql", !.session = req[r].session]
        BY TaskFacts DEF Request
      <3>2. QED
        BY <1>3, <3>1 DEF Goto
    <2>2. QED
      BY <1>1, <1>3, <2>1, TaskFacts, GotoKeeps DEF At
  <1>4. QED
    BY <1>2, <1>3, TaskFacts, CleanIsSession DEF CheckApplied

\* The SQL of a migration takes effect with its COMMIT.
LEMMA RunSqlKeeps == ASSUME IInv, NEW r \in Requests, RunSql(r) PROVE IInv'
  <1>1. req' = [req EXCEPT ![r] = [req[r] EXCEPT !.pc = "Record", !.session = Clean]]
    BY TaskFacts DEF RunSql
  <1>2. QED
    BY <1>1, CleanIsSession, GotoKeeps DEF RunSql, At

\* The unique index: of two tasks with the same file at most one is at its COMMIT.
LEMMA RecordKeeps == ASSUME IInv, NEW r \in Requests, Record(r) PROVE IInv'
  <1>1. At(r, "Record") /\ UNCHANGED <<database, cached, history>>
    BY DEF Record, RecordReady
  <1>2. /\ db' \in Nat /\ db <= db'
        /\ UNCHANGED <<db, recorded, commits, cache, cached, promised, raced>>
    BY <1>1, TaskFacts DEF database, cached, history
  <1>3. CASE Leave(r, Clean)
    BY <1>2, <1>3, CleanIsSession, LeaveKeeps DEF IInv, Resources
  <1>4. CASE /\ req[r].file \notin recorded
             /\ Goto(r, "Commit")
             /\ UNCHANGED <<pool, poolQueue, lockQueue>>
    <2> DEFINE k == [req[r] EXCEPT !.pc = "Commit"]
    <2>1. req' = [req EXCEPT ![r] = k]
      BY <1>4 DEF Goto
    <2>2. /\ k \in Request
          /\ k.op = req[r].op /\ k.pc = "Commit" /\ k.clients = req[r].clients
          /\ k.lock = req[r].lock /\ k.saw = req[r].saw /\ k.since = req[r].since
          /\ k.file = req[r].file /\ k.session = req[r].session /\ k.behind = req[r].behind
      BY TaskFacts DEF Request, Statements
    <2> HIDE DEF k
    <2>3. /\ req[r].lock = "none" /\ req[r].op = "Apply" /\ req[r].clients = 1
          /\ ~At(r, "Client") /\ ~At(r, "Lock")
      BY <1>1, TaskFacts DEF Coherent, At
    <2>4. Coherent(k)
      BY <2>2, <2>3, TaskFacts DEF Coherent
    <2>5. Resources'
      <3>1. Moves(r, k)
        BY <1>1, <1>4, <2>1, <2>2, <2>3, <2>4, StatementMoves
      <3>2. QED
        BY <3>1, TaskFacts, MovesKeepsResources
    <2>6. /\ req'[r] = k
          /\ \A q \in Requests : q # r => req'[q] = req[q]
      BY <2>1, TaskFacts
    <2>7. ~Swapping(r)' /\ ~Swapped(r)' /\ k.since <= db'
      BY <1>2, <2>2, <2>6, TaskFacts DEF Swapping, Swapped, At
    <2>8. VersionsKnown' /\ PromisesHold'
      BY <1>1, <1>2, <2>1, <2>2, <2>7, QuietKeepsVersions
    <2>9. FilesRecorded'
      <3>1. \A q \in Requests : ~(At(q, "Commit") /\ req[q].file = req[r].file)
        BY DEF Record, RecordReady
      <3>2. \A q \in Requests : q # r => (At(q, "Commit")' <=> At(q, "Commit"))
        BY <2>6 DEF At
      <3>3. QED
        BY <1>2, <1>4, <2>2, <2>6, <3>1, <3>2 DEF IInv, FilesRecorded, MigrationAppliedOnce
    <2>10. QED
      BY <2>5, <2>8, <2>9 DEF IInv, Resources
  <1>5. QED
    BY <1>3, <1>4 DEF Record

\* A COMMIT records the file and counts it, both for the first time.
LEMMA CommitKeeps == ASSUME IInv, NEW r \in Requests, Commit(r) PROVE IInv'
  <1> DEFINE k == [[req[r] EXCEPT !.since = db + 1] EXCEPT !.pc = "Client"]
  <1>1. /\ At(r, "Commit")
        /\ recorded' = recorded \cup {req[r].file}
        /\ commits' = [commits EXCEPT ![req[r].file] = @ + 1]
        /\ db' = db + 1
        /\ req' = [req EXCEPT ![r] = k]
        /\ poolQueue' = Append(poolQueue, r)
        /\ UNCHANGED <<pool, lockQueue, cached, promised, raced>>
    BY DEF Commit, AskClient, history
  <1>2. /\ k \in Request
        /\ k.op = req[r].op /\ k.pc = "Client" /\ k.clients = req[r].clients
        /\ k.lock = req[r].lock /\ k.saw = req[r].saw /\ k.since = db + 1
        /\ k.file = req[r].file /\ k.session = req[r].session /\ k.behind = req[r].behind
    <2>1. db + 1 \in Nat /\ req[r] \in Request
      BY TaskFacts
    <2>2. QED
      BY <2>1 DEF Request
  <1> HIDE DEF k
  <1>3. /\ req[r].lock = "none" /\ req[r].op = "Apply" /\ req[r].clients = 1
        /\ ~At(r, "Client") /\ ~At(r, "Lock")
        /\ req[r].file \in Files
    BY <1>1, TaskFacts DEF Coherent, At
  <1>4. Coherent(k)
    BY <1>2, <1>3, TaskFacts DEF Coherent
  <1>5. Resources'
    <2>1. Moves(r, k)
      BY <1>1, <1>2, <1>3, <1>4, StatementMoves
    <2>2. QED
      BY <2>1, TaskFacts, MovesKeepsResources
  <1>6. /\ req'[r] = k
        /\ \A q \in Requests : q # r => req'[q] = req[q]
    BY <1>1, TaskFacts
  <1>7. ~Swapping(r)' /\ ~Swapped(r)'
    BY <1>2, <1>3, <1>6 DEF Swapping, Swapped, At
  <1>8. db' \in Nat /\ db <= db' /\ k.since <= db'
    BY <1>1, <1>2, TaskFacts
  <1>9. VersionsKnown' /\ PromisesHold'
    BY <1>1, <1>2, <1>7, <1>8, QuietKeepsVersions
  <1>10. FilesRecorded'
    <2>1. /\ commits \in [Files -> Nat]
          /\ commits' \in [Files -> Nat]
          /\ req[r].file \notin recorded
          /\ commits'[req[r].file] = 1
          /\ \A f \in Files : f # req[r].file => commits'[f] = commits[f]
      BY <1>1, <1>3 DEF IInv, FilesRecorded, MigrationAppliedOnce
    <2>2. MigrationAppliedOnce'
      BY <1>1, <2>1 DEF IInv, FilesRecorded, MigrationAppliedOnce
    <2>3. \A q \in Requests : At(q, "Commit")' =>
            q # r /\ At(q, "Commit") /\ req'[q].file = req[q].file
      BY <1>2, <1>6 DEF At
    <2>4. recorded' \subseteq Files
      BY <1>1, <1>3 DEF IInv, FilesRecorded
    <2>5. \A q \in Requests : At(q, "Commit")' => req'[q].file \notin recorded'
      BY <1>1, <2>3 DEF IInv, FilesRecorded
    <2>6. QED
      BY <2>1, <2>2, <2>3, <2>4, <2>5 DEF IInv, FilesRecorded
  <1>11. QED
    BY <1>5, <1>9, <1>10 DEF IInv, Resources

\* The answer of a refresh that swapped its result in promises no more than is
\* cached.
LEMMA AttachKeeps == ASSUME IInv, NEW r \in Requests, Attach(r) PROVE IInv'
  <1>1. /\ At(r, "Attach") /\ Vouch(r)
        /\ UNCHANGED <<db, recorded, commits, cache, misread, raced>>
    BY DEF Attach, database, cached
  <1>0. PICK session \in Session : Leave(r, session)
    BY TaskFacts, BrokenIsSession DEF Attach
  <1>2. Resources' /\ FilesRecorded'
    <2>1. req[r].clients > 0
      BY <1>1, TaskFacts DEF At, Coherent
    <2>2. QED
      BY <1>0, <1>1, <2>1, LeaveKeeps
  <1>3. /\ req'[r] = Idle
        /\ \A q \in Requests : q # r => req'[q] = req[q]
    BY <1>0, TaskFacts DEF Leave
  <1>4. Swapped(r) /\ ~Swapped(r)' /\ ~Swapping(r)'
    BY <1>1, <1>3 DEF Swapped, Swapping, At, Idle
  <1>5. \A q \in Requests : /\ Swapped(q)' => Swapped(q) /\ req'[q] = req[q]
                            /\ SwapsVersion(q)' => SwapsVersion(q) /\ req'[q] = req[q]
    BY <1>3, <1>4 DEF Swapped, SwapsVersion, Swapping, At
  <1>6. promised' \in {promised, req[r].since} /\ promised' \in Nat /\ promised' <= db
    BY <1>1, TaskFacts DEF Vouch, IInv, VersionsKnown
  <1>7. VersionsKnown'
    <2>1. \A q \in Requests : req'[q].since <= db
      BY <1>3, TaskFacts DEF IInv, VersionsKnown, Idle
    <2>2. QED
      BY <1>1, <1>5, <1>6, <2>1 DEF IInv, VersionsKnown
  <1>8. PromisesHold'
    BY <1>1, <1>4, <1>5, <1>6 DEF IInv, PromisesHold
  <1>9. QED
    BY <1>2, <1>7, <1>8 DEF IInv, Resources

\* A change from outside only moves the database ahead of the cache.
LEMMA ChangeSchemaKeeps == ASSUME IInv, ChangeSchema PROVE IInv'
  <1>1. /\ db' = db + 1 /\ db \in Nat
        /\ UNCHANGED <<free, leftover, poolQueue, lockQueue, req, recorded, commits, cache,
                       misread, promised, raced>>
    BY DEF ChangeSchema, pool, waiting, cached, history, IInv, VersionsKnown
  <1>2. Resources'
    BY <1>1 DEF IInv, Resources, TasksCoherent, Busy, QueuesOrderly, Orderly, Queued, WaitingAt,
                At, ClientsAddUp, LeftoverIn, Held, GuardsExclude
  <1>3. VersionsKnown'
    <2>1. \A r \in Requests : req[r].saw \in Nat /\ req[r].since \in Nat
      BY DEF IInv, TasksCoherent, Request
    <2>2. QED
      BY <1>1, <2>1 DEF IInv, VersionsKnown, SwapsVersion, Swapping, At
  <1>4. PromisesHold'
    BY <1>1 DEF IInv, PromisesHold, SwapsVersion, Swapping, Swapped, At
  <1>5. FilesRecorded'
    BY <1>1 DEF IInv, FilesRecorded, MigrationAppliedOnce, At
  <1>6. QED
    BY <1>2, <1>3, <1>4, <1>5 DEF IInv, Resources

\* With every task idle the whole pool is free.
LEMMA IdleResources ==
    ASSUME req = [r \in Requests |-> Idle], free = PoolSize, leftover = <<>>,
           poolQueue = <<>>, lockQueue = <<>>
    PROVE  Resources
  <1>1. TasksCoherent
    BY CleanIsSession DEF TasksCoherent, Coherent, Idle, Request, Busy
  <1>2. QueuesOrderly
    BY DEF QueuesOrderly, Orderly, Queued, WaitingAt, At, Idle
  <1>3. ClientsAddUp
    <2>1. \A r \in Requests : Held[r] \in Nat /\ Held[r] = 0
      BY DEF Held, Idle
    <2>2. Total(Held, Requests) = 0
      BY <2>1, PoolAssumption, TotalZero
    <2>3. QED
      BY <2>2, PoolAssumption DEF ClientsAddUp
  <1>4. GuardsExclude
    BY DEF GuardsExclude, Idle
  <1>5. LeftoverIn(leftover, free)
    BY PoolAssumption DEF LeftoverIn
  <1>6. QED
    BY <1>1, <1>2, <1>3, <1>4, <1>5 DEF Resources

\* The engine starts with an idle pool and nothing promised.
LEMMA InitHolds == Init => IInv
  <1> SUFFICES ASSUME Init PROVE IInv
    OBVIOUS
  <1> USE DEF Init
  <1>1. Resources
    BY IdleResources
  <1>2. \A r \in Requests : req[r] = Idle /\ req[r].saw = 0 /\ req[r].since = 0
    BY DEF Idle
  <1>3. VersionsKnown
    <2>1. 0 \in Nat /\ 0 <= 0
      OBVIOUS
    <2>2. QED
      BY <1>2, <2>1 DEF VersionsKnown, SwapsVersion, Swapping, At, Idle
  <1>4. PromisesHold
    BY <1>2 DEF PromisesHold, SwapsVersion, Swapping, Swapped, At, Idle
  <1>5. FilesRecorded
    BY <1>2 DEF FilesRecorded, MigrationAppliedOnce, At, Idle
  <1>6. QED
    BY <1>1, <1>3, <1>4, <1>5 DEF IInv, Resources

\* The engine introspects before it serves again: what was committed is cached.
LEMMA RestartKeeps == ASSUME IInv, Restart PROVE IInv'
  <1>1. /\ free' = PoolSize /\ leftover' = <<>> /\ poolQueue' = <<>> /\ lockQueue' = <<>>
        /\ req' = [r \in Requests |-> Idle]
        /\ cache' = db /\ misread' = FALSE /\ raced' = FALSE
        /\ UNCHANGED <<db, recorded, commits, promised>>
    BY DEF Restart, database
  <1>2. Resources'
    <2>1. TasksCoherent'
      BY <1>1, CleanIsSession DEF TasksCoherent, Coherent, Idle, Request, Busy
    <2>2. QueuesOrderly'
      BY <1>1 DEF QueuesOrderly, Orderly, Queued, WaitingAt, At, Idle
    <2>3. ClientsAddUp'
      <3>1. \A r \in Requests : Held'[r] \in Nat /\ Held'[r] = 0
        BY <1>1 DEF Held, Idle
      <3>2. Total(Held', Requests) = 0
        BY <3>1, PoolAssumption, TotalZero
      <3>3. QED
        BY <1>1, <3>2, PoolAssumption DEF ClientsAddUp
    <2>4. GuardsExclude'
      BY <1>1 DEF GuardsExclude, Idle
    <2>5. LeftoverIn(leftover, free)'
      BY <1>1, PoolAssumption DEF LeftoverIn
    <2>6. QED
      BY <2>1, <2>2, <2>3, <2>4, <2>5 DEF Resources
  <1>3. \A r \in Requests : req'[r] = Idle /\ req'[r].saw = 0 /\ req'[r].since = 0
    BY <1>1 DEF Idle
  <1>4. VersionsKnown'
    <2>1. db \in Nat /\ promised \in Nat /\ promised <= db /\ 0 <= db /\ 0 <= 0 /\ db <= db
      BY DEF IInv, VersionsKnown
    <2>2. QED
      BY <1>1, <1>3, <2>1 DEF VersionsKnown, SwapsVersion, Swapping, At, Idle
  <1>5. PromisesHold'
    BY <1>1, <1>3 DEF IInv, VersionsKnown, PromisesHold, SwapsVersion, Swapping, Swapped, At, Idle
  <1>6. FilesRecorded'
    BY <1>1, <1>3 DEF IInv, FilesRecorded, MigrationAppliedOnce, At, Idle
  <1>7. QED
    BY <1>2, <1>4, <1>5, <1>6 DEF IInv, Resources

\* The invariant is about the variables alone.
LEMMA StutterKeeps == ASSUME IInv, UNCHANGED vars PROVE IInv'
  <1>1. UNCHANGED <<free, leftover, poolQueue, lockQueue, req, db, recorded, commits, cache,
                    misread, promised, raced>>
    BY DEF vars, pool, waiting, database, cached, history
  <1>2. Resources'
    BY <1>1 DEF IInv, Resources, TasksCoherent, Busy, QueuesOrderly, Orderly, Queued, WaitingAt,
                At, ClientsAddUp, LeftoverIn, Held, GuardsExclude
  <1>3. VersionsKnown' /\ PromisesHold'
    BY <1>1 DEF IInv, VersionsKnown, PromisesHold, SwapsVersion, Swapping, Swapped, At
  <1>4. FilesRecorded'
    BY <1>1 DEF IInv, FilesRecorded, MigrationAppliedOnce, At
  <1>5. QED
    BY <1>2, <1>3, <1>4 DEF IInv, Resources

-----------------------------------------------------------------------------
(* The theorems.                                                            *)

\* The invariant holds in every reachable state: for any number of tasks,
\* any pool and any interleaving of statements, waits, ends and restarts.
THEOREM Invariance == Spec => []IInv
  <1>1. Init => IInv
    BY InitHolds
  <1>2. IInv /\ [Next]_vars => IInv'
    <2> SUFFICES ASSUME IInv, [Next]_vars PROVE IInv'
      OBVIOUS
    <2>1. ASSUME NEW r \in Requests, Submit(r) PROVE IInv'
      BY <2>1, SubmitKeeps
    <2>2. ASSUME NEW r \in Requests, Run(r) PROVE IInv'
      BY <2>2, TakeClientKeeps, TakeReadLockKeeps, TakeWriteLockKeeps, QueryKeeps,
         ExecuteKeeps, IntrospectKeeps, ReadColumnsKeeps, CheckAppliedKeeps, RunSqlKeeps,
         RecordKeeps, CommitKeeps, AttachKeeps DEF Run
    <2>3. ASSUME NEW r \in Requests, Abort(r) PROVE IInv'
      BY <2>3, AbortKeeps
    <2>4. QED
      BY <2>1, <2>2, <2>3, ChangeSchemaKeeps, RestartKeeps, StutterKeeps DEF Next
  <1>3. QED
    BY <1>1, <1>2, PTL DEF Spec

\* Every variable keeps its type; the pool never has more clients than it was
\* given.
THEOREM TypeOKAlways == Spec => []TypeOK
  <1>1. ASSUME IInv PROVE TypeOK
    <2>1. free \in 0..PoolSize
      <3>1. \A r \in Requests : Held[r] \in Nat
        BY <1>1, TaskFacts DEF Held
      <3>2. Total(Held, Requests) \in Nat
        BY <3>1, PoolAssumption, TotalStep
      <3>3. QED
        BY <1>1, <3>2, PoolAssumption DEF IInv, ClientsAddUp
    <2>2. QED
      BY <1>1, <2>1 DEF IInv, TypeOK, TasksCoherent, QueuesOrderly, Orderly, VersionsKnown,
                        FilesRecorded, LeftoverIn
  <1>2. QED
    BY <1>1, Invariance, PTL

\* No handler loses or duplicates a client or a guard, whatever ends it and
\* wherever it stands: what tasks hold and what the pool has add up, and a
\* writer is alone.
THEOREM ResourcesAlwaysAccounted == Spec => []ResourcesAccounted
  <1>1. ASSUME IInv PROVE ResourcesAccounted
    <2>1. free + MapThenSumSet(LAMBDA r : req[r].clients, Requests) = PoolSize
      BY <1>1, TaskFacts, HeldSum DEF IInv, ClientsAddUp
    <2>2. ASSUME NEW w \in Holding("write")
          PROVE  Cardinality(Holding("write")) = 1 /\ Holding("read") = {}
      <3>1. \A q \in Requests : q # w => req[q].lock = "none"
        BY <1>1, <2>2 DEF IInv, GuardsExclude, Holding
      <3>2. Holding("write") = {w} /\ Holding("read") = {}
        BY <2>2, <3>1 DEF Holding
      <3>3. QED
        BY <3>2, FS_Singleton
    <2>3. QED
      BY <2>1, <2>2 DEF ResourcesAccounted
  <1>2. QED
    BY <1>1, Invariance, PTL

\* The schema a row request built its SQL from is the cached one when the SQL
\* runs, however long the request waited for a client: it keeps its guard.
THEOREM QueryAlwaysUsesItsSchema == Spec => []QueryUsesItsSchema
  <1>1. ASSUME IInv PROVE QueryUsesItsSchema
    BY <1>1, TaskFacts DEF IInv, GuardsExclude, QueryUsesItsSchema, Coherent, At
  <1>2. QED
    BY <1>1, Invariance, PTL

\* A cached schema that was not introspected in a leftover transaction is never
\* ahead of what was committed; while refreshes do not overlap it includes what
\* every answered one vouched for.
THEOREM CacheAlwaysHonest == Spec => []CacheHonest
  <1>1. ASSUME IInv PROVE CacheHonest
    BY <1>1 DEF IInv, VersionsKnown, PromisesHold, CacheHonest
  <1>2. QED
    BY <1>1, Invariance, PTL

\* A migration file takes effect once or never, and the tracking table knows:
\* the check before the transaction decides nothing, the unique index does.
THEOREM MigrationAlwaysAppliedOnce == Spec => []MigrationAppliedOnce
  <1>1. ASSUME IInv PROVE MigrationAppliedOnce
    BY <1>1 DEF IInv, FilesRecorded
  <1>2. QED
    BY <1>1, Invariance, PTL

\* What a task may keep while it waits bounds what any of its handlers does.
LEMMA KeptByBounds ==
    ASSUME NEW r \in Requests
    PROVE  KeptBy(r) \in Nat /\ \A op \in Serves[r] : Kept(op) <= KeptBy(r)
  <1> DEFINE S == {Kept(op) : op \in Serves[r]}
  <1>1. CASE Serves[r] = {}
    BY <1>1 DEF KeptBy
  <1>2. CASE Serves[r] # {}
    <2>1. S # {} /\ S \subseteq {0, 1, 2} /\ KeptBy(r) = Max(S)
      BY <1>2 DEF KeptBy, Kept
    <2>2. \A op \in Serves[r] : Kept(op) \in S
      OBVIOUS
    <2> HIDE DEF S
    <2>3. S \subseteq Nat
      BY <2>1
    <2>4. PICK x \in S : \A y \in S : x >= y
      <3>1. CASE 2 \in S
        <4>1. \A y \in S : 2 >= y
          BY <2>1, SMT
        <4>2. QED
          BY <3>1, <4>1
      <3>2. CASE 2 \notin S /\ 1 \in S
        <4>1. \A y \in S : 1 >= y
          BY <2>1, <3>2, SMT
        <4>2. QED
          BY <3>2, <4>1
      <3>3. CASE 2 \notin S /\ 1 \notin S
        <4>1. \A y \in S : y = 0
          BY <2>1, <3>3
        <4>2. 0 \in S
          BY <2>1, <4>1
        <4>3. QED
          BY <4>1, <4>2
      <3>4. QED
        BY <3>1, <3>2, <3>3
    <2>5. Max(S) \in Nat /\ \A op \in Serves[r] : Kept(op) <= Max(S)
      <3>1. Max(S) \in S /\ \A y \in S : Max(S) >= y
        BY <2>4 DEF Max
      <3>2. ASSUME NEW op \in Serves[r] PROVE Kept(op) <= Max(S)
        <4>1. Kept(op) \in Nat /\ Max(S) \in Nat /\ Max(S) >= Kept(op)
          BY <2>2, <2>3, <3>1
        <4>2. QED
          BY <4>1
      <3>3. QED
        BY <2>3, <3>1, <3>2
    <2>6. QED
      BY <2>1, <2>5
  <1>3. QED
    BY <1>1, <1>2

\* The head of a queue waits in it.
LEMMA HeadWaits ==
    ASSUME NEW queue, NEW tasks, Orderly(queue, tasks), tasks \subseteq Requests, tasks # {}
    PROVE  Head(queue) \in tasks
  <1>1. PICK r \in tasks : Queued(queue, r)
    BY DEF Orderly
  <1>2. /\ queue \in Seq(Requests) /\ DOMAIN queue = 1..Len(queue)
        /\ Len(queue) \in Nat /\ Len(queue) > 0
    BY <1>1 DEF Orderly, Queued
  <1>3. Head(queue) = queue[1] /\ queue[1] \in Requests /\ 1 \in DOMAIN queue
    BY <1>2
  <1>4. QED
    BY <1>3 DEF Orderly, Queued

\* With more clients than the refreshing tasks can keep while they wait, the
\* tasks never all wait for one another: the one at the head of the pool's
\* queue finds a client, or nobody waits there and the one at the head of the
\* lock's queue waits for a holder that can go on.
THEOREM NeverCircularWait == Spec => []NoCircularWait
  <1>1. ASSUME IInv, LargeEnough, NEW b \in Requests, Busy(b),
               \A r \in Requests : ~Runnable(r)
        PROVE  FALSE
    <2>1. \A r \in Requests : req[r].pc \in {"idle", "Client", "Lock"}
      <3>1. \A r \in Requests : ~At(r, "Commit")
        BY <1>1 DEF Runnable, At, Statements
      <3>2. \A r \in Requests : ~At(r, "Record")
        BY <1>1, <3>1 DEF Runnable, RecordReady
      <3>3. QED
        BY <1>1, <3>2, TaskFacts DEF Request, Runnable, Statements, At
    <2>2. \A r \in Requests : ~At(r, "Client")
      <3>1. SUFFICES ASSUME WaitingAt("Client") # {} PROVE FALSE
        BY DEF WaitingAt
      <3>2. Head(poolQueue) \in WaitingAt("Client")
        BY <1>1, <3>1, HeadWaits DEF IInv, QueuesOrderly, WaitingAt
      <3>3. free = 0
        BY <1>1, <3>2, TaskFacts DEF Runnable, ClientReady, WaitingAt
      <3> DEFINE kept == [r \in Requests |-> KeptBy(r)]
      <3>4. ASSUME NEW r \in Requests
            PROVE  Held[r] \in Nat /\ kept[r] \in Nat /\ Held[r] <= kept[r]
        <4>1. KeptBy(r) \in Nat /\ \A op \in Serves[r] : Kept(op) <= KeptBy(r)
          BY KeptByBounds
        <4>2. req[r].clients \in Nat /\ Held[r] = req[r].clients
          BY <1>1, TaskFacts DEF Held
        <4>3. req[r].clients <= Kept(req[r].op)
          BY <1>1, <2>1, TaskFacts DEF Coherent, Kept, Reading, Refreshing
        <4>4. req[r].clients = 0 \/ req[r].op \in Serves[r]
          BY <1>1, TaskFacts DEF Coherent, Busy
        <4>5. Kept(req[r].op) \in Nat
          BY DEF Kept
        <4>6. QED
          BY <4>1, <4>2, <4>3, <4>4, <4>5
      <3>5. MapThenSumSet(KeptBy, Requests) = Total(kept, Requests)
        BY <3>4, KeptSum
      <3> HIDE DEF kept
      <3>6. Total(Held, Requests) <= Total(kept, Requests)
        BY <3>4, PoolAssumption, TotalMonotone
      <3>7. Total(Held, Requests) \in Nat /\ Total(kept, Requests) \in Nat
        BY <3>4, PoolAssumption, TotalStep
      <3>8. QED
        BY <1>1, <3>3, <3>5, <3>6, <3>7, PoolAssumption DEF IInv, ClientsAddUp, LargeEnough
    <2>3. At(b, "Lock")
      BY <1>1, <2>1, <2>2, TaskFacts DEF At, Busy, Coherent
    <2>4. Head(lockQueue) \in WaitingAt("Lock")
      BY <1>1, <2>3, HeadWaits DEF IInv, QueuesOrderly, WaitingAt
    <2>5. \A q \in Requests : req[q].lock = "none"
      BY <1>1, <2>1, <2>2, TaskFacts DEF Coherent, At
    <2>6. Holding("write") = {} /\ Holding("read") = {}
      BY <2>5 DEF Holding
    <2>7. QED
      BY <1>1, <2>4, <2>6 DEF Runnable, LockReady, WaitingAt
  <1>2. IInv => NoCircularWait
    BY <1>1 DEF NoCircularWait
  <1>3. QED
    BY <1>2, Invariance, PTL

=============================================================================
