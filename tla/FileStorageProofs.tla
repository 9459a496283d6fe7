-------------------------- MODULE FileStorageProofs --------------------------
(***************************************************************************)
(* Proofs about FileStorage for any requests, buckets, paths, offers and    *)
(* limits, and any number of faults.                                        *)
(*                                                                         *)
(* No transaction joins a row and its object, so what a row says of its     *)
(* object rests on who works on the object's key: a request that is alone   *)
(* has no other writer on its key, and a row that is alone has none at all. *)
(* Only a writer of a key changes its object.                               *)
(***************************************************************************)
EXTENDS FileStorage, TLAPS

-----------------------------------------------------------------------------
(* The inductive invariant.                                                 *)

\* A bucket that is there has a name.
Named(table) == \A b \in BucketIds : table[b].status = "live" => table[b].name \in BucketNames

\* What request j carries from one call to the next about the bucket it has read.
Carries(j, table) ==
    j.pc \in Calls =>
        /\ j.name \in BucketNames /\ j.file \in FileNames /\ j.bucket \in BucketIds
        /\ table[j.bucket].status # "free"
        /\ table[j.bucket].status = "live" => table[j.bucket].name = j.name
        /\ j.reply # "content"
        /\ j.pc \in {"PutObject", "CreateFile", "RemoveUpload"} => j.op = "Upload"
        /\ j.pc \in {"RemoveObject", "DeleteFile"} => j.op = "Delete"
        /\ j.pc \in {"GetFile", "GetObject"} => j.op \in Reads
        /\ j.pc \in {"PutObject", "CreateFile"} =>
             /\ j.offer \in Offers
             /\ table[j.bucket].status = "live" => Allows(table[j.bucket].limit, j.offer)

\* What request j knows of the object, and what it has answered, if it was alone.
Knows(j, stored, deceived) ==
    ~deceived /\ j.alone =>
        /\ j.pc \in {"CreateFile", "GetObject"} => stored[Key(j.name, j.file)] = j.offer
        /\ j.reply = "content" => j.content = j.offer

\* Request j may still change the object of key k.
WritesTo(j, k) == j.pc \in Calls /\ j.op \in Writes /\ Key(j.name, j.file) = k

\* A request that is alone has no other writer on its key.
Apart(r) ==
    Busy(r) /\ req[r].alone => \A q \in Requests : q # r => ~WritesTo(req[q], KeyOf(r))

RequestFits(r) ==
    /\ Carries(req[r], buckets)
    /\ Knows(req[r], objects, misled)
    /\ Apart(r)

\* A row is within the limits; if it is alone its object is whole, and nobody writes it.
RowFits(b, f) ==
    HasRow(b, f) =>
        /\ buckets[b].status = "live"
        /\ Allows(buckets[b].limit, files[<<b, f>>].offer)
        /\ ~misled /\ files[<<b, f>>].alone =>
             /\ objects[KeyOfFile(b, f)] = files[<<b, f>>].offer
             /\ \A q \in Requests : ~WritesTo(req[q], KeyOfFile(b, f))

IInv ==
    /\ TypeOK
    /\ Named(buckets)
    /\ \A r \in Requests : RequestFits(r)
    /\ \A b \in BucketIds, f \in FileNames : RowFits(b, f)

-----------------------------------------------------------------------------
(* What one step leaves to the others.                                      *)

\* The buckets only move forward: an id is never used again, and a bucket that is
\* still there is as it was.
Forward(old, new) ==
    \A b \in BucketIds : old[b].status # "free" =>
        /\ new[b].status # "free"
        /\ new[b].status = "live" => new[b] = old[b]

\* A path in a bucket has a key.
LEMMA KeyOfPath == \A n \in BucketNames, f \in FileNames : Key(n, f) \in Keys
  BY DEF Keys

\* A row that is still there is as it was, and as its bucket was.
LEMMA RowKeeps ==
    ASSUME IInv, NEW b \in BucketIds, NEW f \in FileNames, HasRow(b, f),
           files'[<<b, f>>].offer = files[<<b, f>>].offer,
           files'[<<b, f>>].alone => files[<<b, f>>].alone,
           buckets'[b] = buckets[b],
           misled => misled',
           ~misled' /\ files'[<<b, f>>].alone =>
             /\ objects'[KeyOfFile(b, f)] = objects[KeyOfFile(b, f)]
             /\ \A q \in Requests : WritesTo(req'[q], KeyOfFile(b, f)) => WritesTo(req[q], KeyOfFile(b, f))
    PROVE  RowFits(b, f)'
  <1>1. RowFits(b, f)
    BY DEF IInv
  <1>2. KeyOfFile(b, f)' = KeyOfFile(b, f)
    BY DEF KeyOfFile
  <1> QED
    BY <1>1, <1>2 DEF RowFits, HasRow

\* A request that does not move, or is only told that it is not alone.
LEMMA RequestKeeps ==
    ASSUME IInv, NEW q \in Requests,
           req'[q] = req[q] \/ req'[q] = [req[q] EXCEPT !.alone = FALSE],
           Forward(buckets, buckets'),
           misled => misled',
           Busy(q) /\ req'[q].alone =>
             /\ ~misled' => objects'[KeyOf(q)] = objects[KeyOf(q)]
             /\ \A p \in Requests : p # q /\ WritesTo(req'[p], KeyOf(q)) => WritesTo(req[p], KeyOf(q))
    PROVE  RequestFits(q)'
  <1> DEFINE j == req[q]
             k == req'[q]
  <1>1. j \in Request /\ Carries(j, buckets) /\ Knows(j, objects, misled) /\ Apart(q)
    BY DEF IInv, TypeOK, RequestFits
  <1>2. /\ k.op = j.op /\ k.pc = j.pc /\ k.name = j.name /\ k.file = j.file /\ k.offer = j.offer
        /\ k.bucket = j.bucket /\ k.content = j.content /\ k.reply = j.reply
        /\ k.alone => j.alone
    <2>1. CASE k = j
      BY <2>1
    <2>2. CASE k = [j EXCEPT !.alone = FALSE]
      BY <1>1, <2>2 DEF Request
    <2> QED
      BY <2>1, <2>2
  <1>3. KeyOf(q)' = KeyOf(q) /\ KeyOf(q) = Key(j.name, j.file) /\ (Busy(q)' <=> Busy(q))
    BY <1>2 DEF KeyOf, Busy
  <1> HIDE DEF j, k
  <1>4. Carries(k, buckets')
    BY <1>1, <1>2 DEF Carries, Forward
  <1>5. Knows(k, objects', misled')
    <2>1. SUFFICES ASSUME ~misled', k.alone
                   PROVE  /\ k.pc \in {"CreateFile", "GetObject"} =>
                               objects'[Key(k.name, k.file)] = k.offer
                          /\ k.reply = "content" => k.content = k.offer
      BY DEF Knows
    <2>2. Busy(q) => objects'[KeyOf(q)] = objects[KeyOf(q)]
      BY <2>1 DEF k
    <2>3. k.pc \in {"CreateFile", "GetObject"} => Busy(q)
      BY <1>2 DEF Busy, Calls, j
    <2> QED
      BY <1>1, <1>2, <1>3, <2>1, <2>2, <2>3 DEF Knows
  <1>6. Apart(q)'
    BY <1>1, <1>2, <1>3 DEF Apart, j, k
  <1> QED
    BY <1>4, <1>5, <1>6 DEF RequestFits, k

\* The request that moves, if nobody becomes a writer of its key.
LEMMA MoverFits ==
    ASSUME IInv, NEW r \in Requests, NEW k, req'[r] = k,
           \A q \in Requests : \A x : q # r /\ WritesTo(req'[q], x) => WritesTo(req[q], x),
           k.pc \in Calls => /\ Busy(r) /\ k.op = req[r].op /\ k.name = req[r].name
                             /\ k.file = req[r].file /\ (k.alone => req[r].alone),
           Carries(k, buckets'), Knows(k, objects', misled')
    PROVE  RequestFits(r)'
  <1>1. Apart(r)'
    <2>1. SUFFICES ASSUME k.pc \in Calls, k.alone, NEW q \in Requests, q # r
                   PROVE  ~WritesTo(req'[q], Key(k.name, k.file))
      BY DEF Apart, Busy, KeyOf
    <2>2. ~WritesTo(req[q], KeyOf(r)) /\ KeyOf(r) = Key(k.name, k.file)
      BY <2>1 DEF IInv, RequestFits, Apart, KeyOf
    <2> QED
      BY <2>1, <2>2
  <1> QED
    BY <1>1 DEF RequestFits

\* Request r makes a call and becomes k; no row is new, only r's own key is written,
\* and who was no writer is none.
LEMMA Moves ==
    ASSUME IInv, NEW r \in Requests, NEW k \in Request,
           req' = [req EXCEPT ![r] = k],
           buckets' \in [BucketIds -> Bucket], Named(buckets'), Forward(buckets, buckets'),
           files' \in [BucketIds \X FileNames -> File],
           \A b \in BucketIds, f \in FileNames : HasRow(b, f)' =>
             /\ files'[<<b, f>>].offer = files[<<b, f>>].offer
             /\ files'[<<b, f>>].alone => files[<<b, f>>].alone
             /\ buckets'[b] = buckets[b],
           objects' \in [Keys -> Offers \cup {NoOffer}],
           \A x \in Keys : objects'[x] = objects[x] \/ WritesTo(req[r], x),
           faults' \in 0..MaxFaults, misled' \in BOOLEAN, misled => misled',
           k.pc \in Calls => /\ Busy(r) /\ k.op = req[r].op /\ k.name = req[r].name
                             /\ k.file = req[r].file /\ (k.alone => req[r].alone),
           Carries(k, buckets'), Knows(k, objects', misled')
    PROVE  IInv'
  <1>1. /\ req \in [Requests -> Request]
        /\ Named(buckets)
        /\ \A q \in Requests : RequestFits(q)
        /\ \A b \in BucketIds, f \in FileNames : RowFits(b, f)
    BY DEF IInv, TypeOK
  <1>2. /\ req' \in [Requests -> Request] /\ req'[r] = k
        /\ \A q \in Requests : q # r => req'[q] = req[q]
    BY <1>1
  <1>3. TypeOK'
    BY <1>2 DEF TypeOK
  <1>4. \A q \in Requests : \A x : WritesTo(req'[q], x) => WritesTo(req[q], x)
    BY <1>2 DEF WritesTo, Busy
  <1>5. ASSUME NEW b \in BucketIds, NEW f \in FileNames, HasRow(b, f)'
        PROVE  RowFits(b, f)'
    <2>1. HasRow(b, f) /\ RowFits(b, f)
      BY <1>1, <1>5 DEF HasRow
    <2>2. KeyOfFile(b, f) \in Keys
      BY <1>1, <2>1, KeyOfPath DEF RowFits, KeyOfFile, Named
    <2>3. ~misled' /\ files'[<<b, f>>].alone => ~WritesTo(req[r], KeyOfFile(b, f))
      BY <1>5, <2>1 DEF RowFits
    <2>4. ~misled' /\ files'[<<b, f>>].alone => objects'[KeyOfFile(b, f)] = objects[KeyOfFile(b, f)]
      BY <2>2, <2>3
    <2> QED
      BY <1>4, <1>5, <2>1, <2>4, RowKeeps
  <1>6. ASSUME NEW q \in Requests, q # r
        PROVE  RequestFits(q)'
    <2>1. Busy(q) => KeyOf(q) \in Keys
      BY <1>1, KeyOfPath DEF RequestFits, Carries, Busy, KeyOf
    <2>2. Busy(q) /\ req'[q].alone => ~WritesTo(req[r], KeyOf(q))
      BY <1>1, <1>2, <1>6 DEF RequestFits, Apart
    <2>3. Busy(q) /\ req'[q].alone => objects'[KeyOf(q)] = objects[KeyOf(q)]
      BY <2>1, <2>2
    <2> QED
      BY <1>2, <1>4, <1>6, <2>3, RequestKeeps
  <1>7. RequestFits(r)'
    BY <1>2, <1>4, MoverFits
  <1>8. \A b \in BucketIds, f \in FileNames : RowFits(b, f)'
    BY <1>5 DEF RowFits
  <1> QED
    BY <1>2, <1>3, <1>6, <1>7, <1>8 DEF IInv

\* A request that has ended carries nothing.
LEMMA Ended ==
    ASSUME NEW k, k.pc \notin Calls, ~k.alone
    PROVE  /\ \A table : Carries(k, table)
           /\ \A stored, deceived : Knows(k, stored, deceived)
  BY DEF Carries, Knows

\* Only request r moves, to k.
LEMMA OneMoves ==
    ASSUME IInv, NEW r \in Requests, NEW k \in Request,
           req' = [req EXCEPT ![r] = k],
           UNCHANGED <<buckets, files, objects>>,
           faults' \in 0..MaxFaults, misled' \in BOOLEAN, misled => misled',
           k.pc \in Calls => /\ Busy(r) /\ k.op = req[r].op /\ k.name = req[r].name
                             /\ k.file = req[r].file /\ (k.alone => req[r].alone),
           Carries(k, buckets), Knows(k, objects, misled')
    PROVE  IInv'
  <1>1. /\ buckets' = buckets /\ files' = files /\ objects' = objects
        /\ buckets' \in [BucketIds -> Bucket] /\ files' \in [BucketIds \X FileNames -> File]
        /\ objects' \in [Keys -> Offers \cup {NoOffer}]
        /\ Named(buckets')
    BY DEF IInv, TypeOK
  <1>2. Forward(buckets, buckets')
    BY <1>1 DEF Forward
  <1>3. \A b \in BucketIds, f \in FileNames : HasRow(b, f)' =>
             /\ files'[<<b, f>>].offer = files[<<b, f>>].offer
             /\ files'[<<b, f>>].alone => files[<<b, f>>].alone
             /\ buckets'[b] = buckets[b]
    BY <1>1
  <1>4. \A x \in Keys : objects'[x] = objects[x] \/ WritesTo(req[r], x)
    BY <1>1
  <1>5. Carries(k, buckets') /\ Knows(k, objects', misled')
    BY <1>1
  <1> QED
    BY <1>1, <1>2, <1>3, <1>4, <1>5, Moves

-----------------------------------------------------------------------------
(* Answers and faults.                                                      *)

\* A fault or none stays within the bound, and no deception is forgotten.
LEMMA FaultsFit ==
    ASSUME IInv
    PROVE  /\ NoFault => faults' \in 0..MaxFaults /\ misled' = misled /\ misled' \in BOOLEAN
           /\ Fault => faults' \in 0..MaxFaults
           /\ misled \in BOOLEAN
  BY StorageAssumption DEF IInv, TypeOK, NoFault, Fault

\* What becomes of a call, acknowledged or not: the misled flag is only ever raised.
LEMMA Outcomes ==
    ASSUME IInv, NoFault \/ (Fault /\ misled' = TRUE)
    PROVE  faults' \in 0..MaxFaults /\ misled' \in BOOLEAN /\ (misled => misled')
  <1>1. CASE NoFault
    BY <1>1, FaultsFit
  <1>2. CASE Fault /\ misled' = TRUE
    BY <1>2, FaultsFit
  <1> QED
    BY <1>1, <1>2

\* A request that does nothing.
LEMMA IdleRecord == Idle \in Request /\ Idle.pc \notin Calls /\ ~Idle.alone
  BY DEF Idle, Request, Calls, Replies

\* An answered request.
LEMMA AnswerRecord ==
    ASSUME NEW op \in Ops \cup {"none"}, NEW answer \in Replies
    PROVE  LET k == [Idle EXCEPT !.op = op, !.pc = "replied", !.reply = answer]
           IN  /\ k \in Request
               /\ k.pc \notin Calls /\ ~k.alone
  <1>1. "replied" \in Calls \cup {"idle", "replied"} /\ "replied" \notin Calls
    BY DEF Calls
  <1> QED
    BY <1>1, IdleRecord DEF Request

\* A request is answered, and nothing is stored.
LEMMA ReplyKeeps ==
    ASSUME IInv, NEW r \in Requests, NEW op \in Ops \cup {"none"}, NEW answer \in Replies,
           Reply(r, op, answer), UNCHANGED <<buckets, files, objects>>,
           faults' \in 0..MaxFaults, misled' \in BOOLEAN, misled => misled'
    PROVE  IInv'
  <1> DEFINE k == [Idle EXCEPT !.op = op, !.pc = "replied", !.reply = answer]
  <1>1. req' = [req EXCEPT ![r] = k]
    BY DEF Reply
  <1>2. k \in Request /\ k.pc \notin Calls /\ ~k.alone
    BY AnswerRecord
  <1> HIDE DEF k
  <1>3. Carries(k, buckets) /\ Knows(k, objects, misled')
    BY <1>2, Ended
  <1> QED
    BY <1>1, <1>2, <1>3, OneMoves

\* A busy request is a request of some kind.
LEMMA BusyRequest ==
    ASSUME IInv, NEW r \in Requests
    PROVE  /\ req[r] \in Request /\ RequestFits(r)
           /\ req[r].op \in Ops \cup {"none"} /\ req[r].reply \in Replies
           /\ Busy(r) => KeyOf(r) \in Keys /\ req[r].op \in Writes \cup Reads
  <1>1. req[r] \in Request /\ RequestFits(r)
    BY DEF IInv, TypeOK
  <1>2. req[r].op \in Ops \cup {"none"} /\ req[r].reply \in Replies
    BY <1>1 DEF Request
  <1>3. ASSUME Busy(r)
        PROVE  KeyOf(r) \in Keys /\ req[r].op \in Writes \cup Reads
    <2>1. req[r].pc \in Calls /\ Carries(req[r], buckets)
      BY <1>1, <1>3 DEF Busy, RequestFits
    <2>2. KeyOf(r) \in Keys
      BY <2>1, KeyOfPath DEF Carries, KeyOf
    <2>3. req[r].op \in Writes \cup Reads
      BY <2>1 DEF Carries, Calls, Writes
    <2> QED
      BY <2>2, <2>3
  <1> QED
    BY <1>1, <1>2, <1>3

\* Upload still has to remove what it put (Refuse).
LEMMA RefuseKeeps ==
    ASSUME IInv, NEW r \in Requests, At(r, "CreateFile"), NEW answer \in {"conflict", "internal"},
           Refuse(r, answer), UNCHANGED <<buckets, files, objects>>,
           faults' \in 0..MaxFaults, misled' \in BOOLEAN, misled => misled'
    PROVE  IInv'
  <1> DEFINE j == req[r]
             k == [j EXCEPT !.pc = "RemoveUpload", !.reply = answer]
  <1>1. j \in Request /\ Carries(j, buckets) /\ j.pc = "CreateFile"
    BY BusyRequest DEF RequestFits, At
  <1>2. req' = [req EXCEPT ![r] = k]
    BY DEF Refuse, IInv, TypeOK
  <1>3. /\ k \in Request
        /\ k.pc = "RemoveUpload" /\ k.reply = answer
        /\ k.op = j.op /\ k.name = j.name /\ k.file = j.file /\ k.bucket = j.bucket
        /\ k.alone = j.alone
    <2>1. "RemoveUpload" \in Calls \cup {"idle", "replied"} /\ answer \in Replies
      BY DEF Calls, Replies
    <2> QED
      BY <1>1, <2>1 DEF Request
  <1>4. Busy(r)
    BY <1>1 DEF Busy, Calls
  <1> HIDE DEF k
  <1>5. Carries(k, buckets) /\ Knows(k, objects, misled')
    BY <1>1, <1>3 DEF Carries, Knows, Calls
  <1> QED
    BY <1>2, <1>3, <1>4, <1>5, OneMoves

\* A call fails and changes nothing (CallFails).
LEMMA CallFailsKeeps ==
    ASSUME IInv, NEW r \in Requests, CallFails(r)
    PROVE  IInv'
  <1>1. /\ UNCHANGED <<buckets, files, objects>> /\ misled' = misled /\ misled' \in BOOLEAN
        /\ faults' \in 0..MaxFaults
    BY FaultsFit DEF CallFails
  <1>2. CASE \E op \in Ops \cup {"none"}, answer \in Replies : Reply(r, op, answer)
    BY <1>1, <1>2, ReplyKeeps
  <1>3. CASE At(r, "CreateFile") /\ Refuse(r, "internal")
    BY <1>1, <1>3, RefuseKeeps
  <1>4. "internal" \in Replies
    BY DEF Replies
  <1> QED
    BY <1>2, <1>3, <1>4, BusyRequest DEF CallFails

\* The answer is sent (Answer).
LEMMA AnswerKeeps ==
    ASSUME IInv, NEW r \in Requests, Answer(r)
    PROVE  IInv'
  <1>1. /\ UNCHANGED <<buckets, files, objects>> /\ misled' = misled /\ misled' \in BOOLEAN
        /\ faults' \in 0..MaxFaults
    BY FaultsFit DEF Answer
  <1>2. req' = [req EXCEPT ![r] = Idle]
    BY DEF Answer
  <1>3. Carries(Idle, buckets) /\ Knows(Idle, objects, misled')
    BY IdleRecord, Ended
  <1> QED
    BY <1>1, <1>2, <1>3, IdleRecord, OneMoves

-----------------------------------------------------------------------------
(* Buckets.                                                                 *)

\* Request r is answered; the tables change under it, but no row and no object is new.
LEMMA AnsweredMoves ==
    ASSUME IInv, NEW r \in Requests, NEW op \in Ops \cup {"none"}, NEW answer \in Replies,
           Reply(r, op, answer),
           buckets' \in [BucketIds -> Bucket], Named(buckets'), Forward(buckets, buckets'),
           files' \in [BucketIds \X FileNames -> File],
           \A b \in BucketIds, f \in FileNames : HasRow(b, f)' =>
             /\ files'[<<b, f>>].offer = files[<<b, f>>].offer
             /\ files'[<<b, f>>].alone => files[<<b, f>>].alone
             /\ buckets'[b] = buckets[b],
           objects' \in [Keys -> Offers \cup {NoOffer}],
           \A x \in Keys : objects'[x] = objects[x] \/ WritesTo(req[r], x),
           faults' \in 0..MaxFaults, misled' \in BOOLEAN, misled => misled'
    PROVE  IInv'
  <1> DEFINE k == [Idle EXCEPT !.op = op, !.pc = "replied", !.reply = answer]
  <1>1. req' = [req EXCEPT ![r] = k]
    BY DEF Reply
  <1>2. k \in Request /\ k.pc \notin Calls /\ ~k.alone
    BY AnswerRecord
  <1> HIDE DEF k
  <1>3. Carries(k, buckets') /\ Knows(k, objects', misled')
    BY <1>2, Ended
  <1> QED
    BY <1>1, <1>2, <1>3, Moves

\* A bucket is made under a name that is free (CreateBucket).
LEMMA CreateBucketKeeps ==
    ASSUME IInv, NEW r \in Requests, CreateBucket(r)
    PROVE  IInv'
  <1>1. {"conflict", "created", "internal"} \subseteq Replies /\ "CreateBucket" \in Ops
    BY DEF Replies, Ops
  <1>2. UNCHANGED <<files, objects>>
    BY DEF CreateBucket
  <1>3. CASE Reply(r, "CreateBucket", "conflict") /\ NoFault /\ UNCHANGED buckets
    BY <1>1, <1>2, <1>3, Outcomes, ReplyKeeps
  <1>4. ASSUME NEW n \in BucketNames, NEW l \in Limits, NEW b \in BucketIds,
               buckets[b].status = "free",
               buckets' = [buckets EXCEPT ![b] = [status |-> "live", name |-> n, limit |-> l]],
               Acknowledged(Reply(r, "CreateBucket", "created"), Reply(r, "CreateBucket", "internal"))
        PROVE  IInv'
    <2> DEFINE row == [status |-> "live", name |-> n, limit |-> l]
    <2>1. PICK answer \in Replies : Reply(r, "CreateBucket", answer)
      BY <1>1, <1>4 DEF Acknowledged
    <2>2. NoFault \/ (Fault /\ misled' = TRUE)
      BY <1>4 DEF Acknowledged
    <2>3. faults' \in 0..MaxFaults /\ misled' \in BOOLEAN /\ (misled => misled')
      BY <2>2, Outcomes
    <2>4. row \in Bucket /\ row.name = n
      BY DEF Bucket
    <2> HIDE DEF row
    <2>5. /\ buckets \in [BucketIds -> Bucket] /\ files' \in [BucketIds \X FileNames -> File]
          /\ files' = files /\ objects' = objects /\ objects' \in [Keys -> Offers \cup {NoOffer}]
          /\ Named(buckets)
      BY <1>2 DEF IInv, TypeOK
    <2>6. /\ buckets' \in [BucketIds -> Bucket] /\ buckets'[b] = row
          /\ \A a \in BucketIds : a # b => buckets'[a] = buckets[a]
      BY <1>4, <2>4, <2>5 DEF row
    <2>7. Named(buckets') /\ Forward(buckets, buckets')
      BY <1>4, <2>4, <2>5, <2>6 DEF Named, Forward
    <2>8. \A a \in BucketIds, f \in FileNames : HasRow(a, f)' =>
             /\ files'[<<a, f>>].offer = files[<<a, f>>].offer
             /\ files'[<<a, f>>].alone => files[<<a, f>>].alone
             /\ buckets'[a] = buckets[a]
      <3> SUFFICES ASSUME NEW a \in BucketIds, NEW f \in FileNames, HasRow(a, f)
                   PROVE  buckets'[a] = buckets[a]
        BY <2>5 DEF HasRow
      <3>1. buckets[a].status = "live"
        BY DEF IInv, RowFits
      <3> QED
        BY <1>4, <2>6, <3>1
    <2>9. \A x \in Keys : objects'[x] = objects[x] \/ WritesTo(req[r], x)
      BY <2>5
    <2> QED
      BY <1>1, <2>1, <2>3, <2>5, <2>6, <2>7, <2>8, <2>9, AnsweredMoves
  <1> QED
    BY <1>3, <1>4 DEF CreateBucket

\* A bucket goes with its rows (DeleteBucket).
LEMMA DeleteBucketKeeps ==
    ASSUME IInv, NEW r \in Requests, DeleteBucket(r)
    PROVE  IInv'
  <1>1. {"notfound", "done", "internal"} \subseteq Replies /\ "DeleteBucket" \in Ops
    BY DEF Replies, Ops
  <1>2. UNCHANGED objects
    BY DEF DeleteBucket
  <1>3. CASE Reply(r, "DeleteBucket", "notfound") /\ NoFault /\ UNCHANGED <<buckets, files>>
    BY <1>1, <1>2, <1>3, Outcomes, ReplyKeeps
  <1>4. ASSUME NEW b \in BucketIds, buckets[b].status = "live",
               buckets' = [buckets EXCEPT ![b] = [NewBucket EXCEPT !.status = "deleted"]],
               files' = [p \in DOMAIN files |-> IF p[1] = b THEN NoFile ELSE files[p]],
               Acknowledged(Reply(r, "DeleteBucket", "done"), Reply(r, "DeleteBucket", "internal"))
        PROVE  IInv'
    <2> DEFINE row == [NewBucket EXCEPT !.status = "deleted"]
    <2>1. PICK answer \in Replies : Reply(r, "DeleteBucket", answer)
      BY <1>1, <1>4 DEF Acknowledged
    <2>2. NoFault \/ (Fault /\ misled' = TRUE)
      BY <1>4 DEF Acknowledged
    <2>3. faults' \in 0..MaxFaults /\ misled' \in BOOLEAN /\ (misled => misled')
      BY <2>2, Outcomes
    <2>4. row \in Bucket /\ row.status = "deleted"
      BY DEF Bucket, NewBucket
    <2> HIDE DEF row
    <2>5. /\ buckets \in [BucketIds -> Bucket] /\ files \in [BucketIds \X FileNames -> File]
          /\ objects' = objects /\ objects' \in [Keys -> Offers \cup {NoOffer}]
          /\ Named(buckets)
      BY <1>2 DEF IInv, TypeOK
    <2>6. /\ buckets' \in [BucketIds -> Bucket] /\ buckets'[b] = row
          /\ \A a \in BucketIds : a # b => buckets'[a] = buckets[a]
      BY <1>4, <2>4, <2>5 DEF row
    <2>7. Named(buckets') /\ Forward(buckets, buckets')
      BY <1>4, <2>4, <2>5, <2>6 DEF Named, Forward
    <2>8. NoFile \in File /\ NoFile.offer = NoOffer
      BY DEF NoFile, File
    <2>9. files' \in [BucketIds \X FileNames -> File]
      BY <1>4, <2>5, <2>8
    <2>10. \A a \in BucketIds, f \in FileNames :
             files'[<<a, f>>] = IF a = b THEN NoFile ELSE files[<<a, f>>]
      BY <1>4, <2>5
    <2>11. \A a \in BucketIds, f \in FileNames : HasRow(a, f)' =>
             /\ files'[<<a, f>>].offer = files[<<a, f>>].offer
             /\ files'[<<a, f>>].alone => files[<<a, f>>].alone
             /\ buckets'[a] = buckets[a]
      BY <2>6, <2>8, <2>10 DEF HasRow
    <2>12. \A x \in Keys : objects'[x] = objects[x] \/ WritesTo(req[r], x)
      BY <2>5
    <2> QED
      BY <1>1, <2>1, <2>3, <2>5, <2>6, <2>7, <2>9, <2>11, <2>12, AnsweredMoves
  <1> QED
    BY <1>3, <1>4 DEF DeleteBucket, BucketNamed

-----------------------------------------------------------------------------
(* Calls that write an object.                                              *)

\* The object of a writer's key changes.
LEMMA ObjectWritten ==
    ASSUME IInv, NEW r \in Requests, Busy(r), req[r].op \in Writes, NEW x \in Offers \cup {NoOffer},
           objects' = [objects EXCEPT ![KeyOf(r)] = x]
    PROVE  /\ objects' \in [Keys -> Offers \cup {NoOffer}]
           /\ objects'[KeyOf(r)] = x
           /\ \A y \in Keys : objects'[y] = objects[y] \/ WritesTo(req[r], y)
  <1>1. objects \in [Keys -> Offers \cup {NoOffer}] /\ KeyOf(r) \in Keys
    BY BusyRequest DEF IInv, TypeOK
  <1>2. WritesTo(req[r], KeyOf(r))
    BY DEF WritesTo, Busy, KeyOf
  <1> QED
    BY <1>1, <1>2

\* Buckets and rows stay.
LEMMA TablesStay ==
    ASSUME IInv, UNCHANGED <<buckets, files>>
    PROVE  /\ buckets' \in [BucketIds -> Bucket] /\ Named(buckets') /\ Forward(buckets, buckets')
           /\ files' \in [BucketIds \X FileNames -> File]
           /\ \A b \in BucketIds, f \in FileNames : HasRow(b, f)' =>
                /\ files'[<<b, f>>].offer = files[<<b, f>>].offer
                /\ files'[<<b, f>>].alone => files[<<b, f>>].alone
                /\ buckets'[b] = buckets[b]
  <1>1. /\ buckets \in [BucketIds -> Bucket] /\ Named(buckets)
        /\ files \in [BucketIds \X FileNames -> File]
        /\ buckets' = buckets /\ files' = files
    BY DEF IInv, TypeOK
  <1>2. Forward(buckets, buckets')
    BY <1>1 DEF Forward
  <1> QED
    BY <1>1, <1>2

\* A writer is answered after it has changed the object of its key.
LEMMA WriterEnds ==
    ASSUME IInv, NEW r \in Requests, Busy(r), req[r].op \in Writes, NEW x \in Offers \cup {NoOffer},
           objects' = [objects EXCEPT ![KeyOf(r)] = x], UNCHANGED <<buckets, files>>,
           NEW answer \in Replies, Reply(r, req[r].op, answer),
           faults' \in 0..MaxFaults, misled' \in BOOLEAN, misled => misled'
    PROVE  IInv'
  <1>1. req[r].op \in Ops \cup {"none"}
    BY BusyRequest
  <1>2. /\ objects' \in [Keys -> Offers \cup {NoOffer}]
        /\ \A y \in Keys : objects'[y] = objects[y] \/ WritesTo(req[r], y)
    BY ObjectWritten
  <1> QED
    BY <1>1, <1>2, TablesStay, AnsweredMoves

\* A writer has changed the object of its key and goes on (Goto).
LEMMA WriterGoesOn ==
    ASSUME IInv, NEW r \in Requests, Busy(r), req[r].op \in Writes, NEW x \in Offers \cup {NoOffer},
           objects' = [objects EXCEPT ![KeyOf(r)] = x], UNCHANGED <<buckets, files>>,
           \/ At(r, "PutObject") /\ Goto(r, "CreateFile") /\ x = req[r].offer
           \/ At(r, "RemoveObject") /\ Goto(r, "DeleteFile"),
           faults' \in 0..MaxFaults, misled' \in BOOLEAN, misled => misled'
    PROVE  IInv'
  <1>1. PICK call \in {"CreateFile", "DeleteFile"} :
          /\ Goto(r, call)
          /\ call = "CreateFile" => At(r, "PutObject") /\ x = req[r].offer
          /\ call = "DeleteFile" => At(r, "RemoveObject")
    OBVIOUS
  <1> DEFINE j == req[r]
             k == [j EXCEPT !.pc = call]
  <1>2. j \in Request /\ Carries(j, buckets) /\ j.pc \in Calls
    BY BusyRequest DEF RequestFits, Busy
  <1>3. req' = [req EXCEPT ![r] = k]
    BY <1>1 DEF Goto, IInv, TypeOK
  <1>4. /\ k \in Request
        /\ k.pc = call /\ k.reply = j.reply /\ k.offer = j.offer
        /\ k.op = j.op /\ k.name = j.name /\ k.file = j.file /\ k.bucket = j.bucket
        /\ k.alone = j.alone
    <2>1. call \in Calls \cup {"idle", "replied"}
      BY DEF Calls
    <2> QED
      BY <1>2, <2>1 DEF Request
  <1> HIDE DEF k
  <1>5. Carries(k, buckets)
    BY <1>1, <1>2, <1>4 DEF Carries, At
  <1>6. Knows(k, objects', misled')
    <2>2. objects'[KeyOf(r)] = x
      BY ObjectWritten
    <2>1. objects'[Key(k.name, k.file)] = x
      BY <1>4, <2>2 DEF KeyOf
    <2> QED
      BY <1>1, <1>2, <1>4, <2>1 DEF Carries, Knows
  <1>7. Carries(k, buckets')
    BY <1>5
  <1>8. /\ objects' \in [Keys -> Offers \cup {NoOffer}]
        /\ \A y \in Keys : objects'[y] = objects[y] \/ WritesTo(req[r], y)
    BY ObjectWritten
  <1> QED
    BY <1>3, <1>4, <1>6, <1>7, <1>8, TablesStay, Moves

\* Bytes are stored (PutObject).
LEMMA PutObjectKeeps ==
    ASSUME IInv, NEW r \in Requests, PutObject(r)
    PROVE  IInv'
  <1>1. At(r, "PutObject") /\ Busy(r) /\ req[r].op \in Writes /\ req[r].offer \in Offers \cup {NoOffer}
    <2>1. At(r, "PutObject") /\ Busy(r)
      BY DEF PutObject, At, Busy, Calls
    <2>2. req[r].op = "Upload" /\ req[r].offer \in Offers
      BY <2>1, BusyRequest DEF RequestFits, Carries, At, Busy
    <2> QED
      BY <2>1, <2>2 DEF Writes
  <1>2. /\ objects' = [objects EXCEPT ![KeyOf(r)] = req[r].offer] /\ UNCHANGED <<buckets, files>>
        /\ Acknowledged(Goto(r, "CreateFile"), Reply(r, req[r].op, "internal"))
    BY DEF PutObject
  <1>3. faults' \in 0..MaxFaults /\ misled' \in BOOLEAN /\ (misled => misled')
    BY <1>2, Outcomes DEF Acknowledged
  <1>4. "internal" \in Replies
    BY DEF Replies
  <1>5. Goto(r, "CreateFile") \/ Reply(r, req[r].op, "internal")
    BY <1>2 DEF Acknowledged
  <1> QED
    BY <1>1, <1>2, <1>3, <1>4, <1>5, WriterEnds, WriterGoesOn

\* The object of a refused upload is removed (RemoveUpload).
LEMMA RemoveUploadKeeps ==
    ASSUME IInv, NEW r \in Requests, RemoveUpload(r)
    PROVE  IInv'
  <1>1. Busy(r) /\ req[r].op \in Writes
    BY BusyRequest DEF RemoveUpload, At, Busy, Calls, RequestFits, Carries, Writes
  <1>2. /\ objects' = [objects EXCEPT ![KeyOf(r)] = NoOffer] /\ UNCHANGED <<buckets, files>>
        /\ Reply(r, req[r].op, req[r].reply) /\ NoFault
    BY DEF RemoveUpload
  <1>3. req[r].reply \in Replies
    BY BusyRequest
  <1> QED
    BY <1>1, <1>2, <1>3, Outcomes, WriterEnds

\* The object of a file is removed (RemoveObject).
LEMMA RemoveObjectKeeps ==
    ASSUME IInv, NEW r \in Requests, RemoveObject(r)
    PROVE  IInv'
  <1>1. At(r, "RemoveObject") /\ Busy(r) /\ req[r].op \in Writes
    BY BusyRequest DEF RemoveObject, At, Busy, Calls, RequestFits, Carries, Writes
  <1>2. /\ objects' = [objects EXCEPT ![KeyOf(r)] = NoOffer] /\ UNCHANGED <<buckets, files>>
        /\ Acknowledged(Goto(r, "DeleteFile"), Reply(r, req[r].op, "internal"))
    BY DEF RemoveObject
  <1>3. faults' \in 0..MaxFaults /\ misled' \in BOOLEAN /\ (misled => misled')
    BY <1>2, Outcomes DEF Acknowledged
  <1>4. "internal" \in Replies
    BY DEF Replies
  <1>5. Goto(r, "DeleteFile") \/ Reply(r, req[r].op, "internal")
    BY <1>2 DEF Acknowledged
  <1> QED
    BY <1>1, <1>2, <1>3, <1>4, <1>5, WriterEnds, WriterGoesOn

-----------------------------------------------------------------------------
(* Rows.                                                                    *)

\* The row of an upload is inserted, and the request moves on to k: the row is alone
\* if the upload was, and then nobody else writes its key.
LEMMA Inserts ==
    ASSUME IInv, NEW r \in Requests, NEW k \in Request, At(r, "CreateFile"),
           req' = [req EXCEPT ![r] = k],
           buckets[req[r].bucket].status = "live",
           files' = [files EXCEPT ![<<req[r].bucket, req[r].file>>] =
                       [offer |-> req[r].offer, alone |-> req[r].alone]],
           UNCHANGED <<buckets, objects>>,
           faults' \in 0..MaxFaults, misled' \in BOOLEAN, misled => misled',
           k.pc \in Calls => /\ misled' /\ k.op = req[r].op /\ k.name = req[r].name
                             /\ k.file = req[r].file /\ (k.alone => req[r].alone),
           Carries(k, buckets), Knows(k, objects, misled')
    PROVE  IInv'
  <1> DEFINE j == req[r]
             row == [offer |-> j.offer, alone |-> j.alone]
  <1>1. /\ j \in Request /\ Carries(j, buckets) /\ Knows(j, objects, misled) /\ Apart(r)
        /\ Busy(r) /\ j.pc = "CreateFile"
    BY BusyRequest DEF RequestFits, At, Busy, Calls
  <1>2. /\ req \in [Requests -> Request] /\ files \in [BucketIds \X FileNames -> File]
        /\ \A q \in Requests : RequestFits(q)
        /\ \A b \in BucketIds, f \in FileNames : RowFits(b, f)
    BY DEF IInv, TypeOK
  <1>3. /\ req' \in [Requests -> Request] /\ req'[r] = k
        /\ \A q \in Requests : q # r => req'[q] = req[q]
    BY <1>2
  <1>4. /\ j.bucket \in BucketIds /\ j.file \in FileNames /\ j.offer \in Offers
        /\ buckets[j.bucket].name = j.name
        /\ Allows(buckets[j.bucket].limit, j.offer)
    BY <1>1 DEF Carries, Busy
  <1>5. row \in File /\ row.offer = j.offer /\ row.alone = j.alone
    BY <1>1 DEF File, Request
  <1>6. /\ files' \in [BucketIds \X FileNames -> File]
        /\ files'[<<j.bucket, j.file>>] = row
        /\ \A b \in BucketIds, f \in FileNames :
             <<b, f>> # <<j.bucket, j.file>> => files'[<<b, f>>] = files[<<b, f>>]
    BY <1>2, <1>4, <1>5
  <1> HIDE DEF row
  <1>7. TypeOK'
    BY <1>3, <1>6 DEF IInv, TypeOK
  <1>8. \A q \in Requests : \A x : WritesTo(req'[q], x) => WritesTo(req[q], x)
    BY <1>1, <1>3 DEF WritesTo, Busy
  <1>15. PICK b \in BucketIds, f \in FileNames : b = j.bucket /\ f = j.file
    BY <1>4
  <1>9. RowFits(b, f)'
    <2>1. KeyOfFile(b, f)' = KeyOf(r) /\ files'[<<b, f>>] = row /\ buckets'[b] = buckets[b]
      BY <1>4, <1>6, <1>15 DEF KeyOfFile, KeyOf
    <2>2. ASSUME ~misled', row.alone
          PROVE  /\ objects[KeyOf(r)] = row.offer
                 /\ \A q \in Requests : ~WritesTo(req'[q], KeyOf(r))
      <3>1. objects[KeyOf(r)] = row.offer
        BY <1>1, <1>5, <2>2 DEF Knows, KeyOf
      <3>2. ASSUME NEW q \in Requests
            PROVE  ~WritesTo(req'[q], KeyOf(r))
        <4>1. CASE q = r
          BY <1>3, <2>2, <4>1 DEF WritesTo
        <4>2. CASE q # r
          BY <1>1, <1>5, <1>8, <2>2, <4>2 DEF Apart
        <4> QED
          BY <4>1, <4>2
      <3> QED
        BY <3>1, <3>2
    <2> QED
      BY <1>4, <1>5, <1>15, <2>1, <2>2 DEF RowFits
  <1>10. ASSUME NEW a \in BucketIds, NEW g \in FileNames, <<a, g>> # <<b, f>>
         PROVE  RowFits(a, g)'
    <2>1. files'[<<a, g>>] = files[<<a, g>>]
      BY <1>6, <1>10, <1>15
    <2>2. CASE HasRow(a, g)
      BY <1>8, <2>1, <2>2, RowKeeps
    <2>3. CASE ~HasRow(a, g)
      BY <2>1, <2>3 DEF RowFits, HasRow
    <2> QED
      BY <2>2, <2>3
  <1>11. \A a \in BucketIds, g \in FileNames : RowFits(a, g)'
    BY <1>9, <1>10
  <1>12. ASSUME NEW q \in Requests, q # r
         PROVE  RequestFits(q)'
    <2>1. Forward(buckets, buckets')
      BY DEF Forward
    <2> QED
      BY <1>3, <1>8, <1>12, <2>1, RequestKeeps
  <1>13. RequestFits(r)'
    <2>1. Carries(k, buckets') /\ Knows(k, objects', misled')
      OBVIOUS
    <2> QED
      BY <1>1, <1>3, <1>8, <2>1, MoverFits
  <1>14. Named(buckets')
    BY DEF IInv
  <1> QED
    BY <1>7, <1>11, <1>12, <1>13, <1>14 DEF IInv

\* The row of an upload is inserted or refused (CreateFile).
LEMMA CreateFileKeeps ==
    ASSUME IInv, NEW r \in Requests, CreateFile(r)
    PROVE  IInv'
  <1> DEFINE j == req[r]
  <1>1. At(r, "CreateFile") /\ UNCHANGED <<buckets, objects>>
    BY DEF CreateFile
  <1>2. CASE (Refuse(r, "conflict") \/ Refuse(r, "internal")) /\ NoFault /\ UNCHANGED files
    BY <1>1, <1>2, Outcomes, RefuseKeeps
  <1>3. CASE /\ buckets[j.bucket].status = "live"
             /\ files' = [files EXCEPT ![<<j.bucket, j.file>>] = [offer |-> j.offer, alone |-> j.alone]]
             /\ Acknowledged(Reply(r, j.op, "created"), Refuse(r, "internal"))
    <2>1. /\ j \in Request /\ Carries(j, buckets) /\ j.pc = "CreateFile" /\ j.op \in Ops \cup {"none"}
      BY <1>1, BusyRequest DEF RequestFits, At
    <2>2. faults' \in 0..MaxFaults /\ misled' \in BOOLEAN /\ (misled => misled')
      BY <1>3, Outcomes DEF Acknowledged
    <2>3. CASE Reply(r, j.op, "created")
      <3> DEFINE k == [Idle EXCEPT !.op = j.op, !.pc = "replied", !.reply = "created"]
      <3>1. req' = [req EXCEPT ![r] = k]
        BY <2>3 DEF Reply
      <3>2. k \in Request /\ k.pc \notin Calls /\ ~k.alone
        <4>1. "created" \in Replies
          BY DEF Replies
        <4> QED
          BY <2>1, <4>1, AnswerRecord
      <3> HIDE DEF k
      <3>3. Carries(k, buckets) /\ Knows(k, objects, misled')
        BY <3>2, Ended
      <3> QED
        BY <1>1, <1>3, <2>2, <3>1, <3>2, <3>3, Inserts
    <2>4. CASE Refuse(r, "internal") /\ misled' = TRUE
      <3> DEFINE k == [j EXCEPT !.pc = "RemoveUpload", !.reply = "internal"]
      <3>1. req' = [req EXCEPT ![r] = k]
        BY <2>4 DEF Refuse, IInv, TypeOK
      <3>2. /\ k \in Request
            /\ k.pc = "RemoveUpload" /\ k.reply = "internal"
            /\ k.op = j.op /\ k.name = j.name /\ k.file = j.file /\ k.bucket = j.bucket
            /\ k.alone = j.alone
        <4>1. "RemoveUpload" \in Calls \cup {"idle", "replied"} /\ "internal" \in Replies
          BY DEF Calls, Replies
        <4> QED
          BY <2>1, <4>1 DEF Request
      <3> HIDE DEF k
      <3>3. Carries(k, buckets) /\ Knows(k, objects, misled')
        BY <2>1, <3>2 DEF Carries, Knows, Calls
      <3> QED
        BY <1>1, <1>3, <2>2, <2>4, <3>1, <3>2, <3>3, Inserts
    <2> QED
      BY <1>3, <2>3, <2>4 DEF Acknowledged
  <1> QED
    BY <1>2, <1>3 DEF CreateFile

\* The row of a file is deleted, or is gone (DeleteFile).
LEMMA DeleteFileKeeps ==
    ASSUME IInv, NEW r \in Requests, DeleteFile(r)
    PROVE  IInv'
  <1> DEFINE j == req[r]
  <1>1. At(r, "DeleteFile") /\ UNCHANGED <<buckets, objects>>
    BY DEF DeleteFile
  <1>2. j.op \in Ops \cup {"none"} /\ {"notfound", "done", "internal"} \subseteq Replies
    BY BusyRequest DEF Replies
  <1>3. CASE Reply(r, j.op, "notfound") /\ NoFault /\ UNCHANGED files
    BY <1>1, <1>2, <1>3, Outcomes, ReplyKeeps
  <1>4. CASE /\ files' = [files EXCEPT ![<<j.bucket, j.file>>] = NoFile]
             /\ Acknowledged(Reply(r, j.op, "done"), Reply(r, j.op, "internal"))
    <2>1. PICK answer \in Replies : Reply(r, j.op, answer)
      BY <1>2, <1>4 DEF Acknowledged
    <2>2. faults' \in 0..MaxFaults /\ misled' \in BOOLEAN /\ (misled => misled')
      BY <1>4, Outcomes DEF Acknowledged
    <2>3. /\ buckets \in [BucketIds -> Bucket] /\ Named(buckets) /\ buckets' = buckets
          /\ files \in [BucketIds \X FileNames -> File]
          /\ objects' = objects /\ objects' \in [Keys -> Offers \cup {NoOffer}]
      BY <1>1 DEF IInv, TypeOK
    <2>4. NoFile \in File /\ NoFile.offer = NoOffer
      BY DEF NoFile, File
    <2>5. /\ files' \in [BucketIds \X FileNames -> File]
          /\ \A b \in BucketIds, f \in FileNames :
               files'[<<b, f>>] = files[<<b, f>>] \/ files'[<<b, f>>] = NoFile
      BY <1>4, <2>3, <2>4
    <2>6. \A b \in BucketIds, f \in FileNames : HasRow(b, f)' =>
             /\ files'[<<b, f>>].offer = files[<<b, f>>].offer
             /\ files'[<<b, f>>].alone => files[<<b, f>>].alone
             /\ buckets'[b] = buckets[b]
      BY <2>3, <2>4, <2>5 DEF HasRow
    <2>7. Forward(buckets, buckets') /\ Named(buckets') /\ buckets' \in [BucketIds -> Bucket]
      BY <2>3 DEF Forward
    <2>8. \A x \in Keys : objects'[x] = objects[x] \/ WritesTo(req[r], x)
      BY <2>3
    <2> QED
      BY <1>2, <2>1, <2>2, <2>3, <2>5, <2>6, <2>7, <2>8, AnsweredMoves
  <1> QED
    BY <1>3, <1>4 DEF DeleteFile

-----------------------------------------------------------------------------
(* Reads.                                                                   *)

\* The row of a file is read (GetFile): if it is alone its object is what it says.
LEMMA GetFileKeeps ==
    ASSUME IInv, NEW r \in Requests, GetFile(r)
    PROVE  IInv'
  <1> DEFINE j == req[r]
             row == files[<<j.bucket, j.file>>]
  <1>1. At(r, "GetFile") /\ UNCHANGED <<buckets, files, objects>> /\ NoFault
    BY DEF GetFile
  <1>2. faults' \in 0..MaxFaults /\ misled' \in BOOLEAN /\ misled' = misled
    BY <1>1, FaultsFit
  <1>3. CASE Reply(r, j.op, "notfound") \/ Reply(r, j.op, "done")
    <2>1. j.op \in Ops \cup {"none"} /\ {"notfound", "done"} \subseteq Replies
      BY BusyRequest DEF Replies
    <2> QED
      BY <1>1, <1>2, <1>3, <2>1, ReplyKeeps
  <1>4. CASE /\ row.offer # NoOffer
             /\ req' = [req EXCEPT ![r].pc = "GetObject", ![r].offer = row.offer,
                                   ![r].alone = j.alone /\ row.alone]
    <2> DEFINE both == j.alone /\ row.alone
               k == [j EXCEPT !.pc = "GetObject", !.offer = row.offer, !.alone = both]
    <2>1. /\ j \in Request /\ Carries(j, buckets) /\ j.pc = "GetFile" /\ Busy(r)
      BY <1>1, BusyRequest DEF RequestFits, At, Busy, Calls
    <2>2. j.bucket \in BucketIds /\ j.file \in FileNames
      BY <2>1 DEF Carries, Busy
    <2>3. row \in File /\ RowFits(j.bucket, j.file)
      BY <2>2 DEF IInv, TypeOK
    <2>4. both \in BOOLEAN /\ (both => j.alone) /\ (both => row.alone)
      BY <2>1, <2>3 DEF Request, File
    <2>5. req' = [req EXCEPT ![r] = k]
      BY <1>4 DEF IInv, TypeOK
    <2> HIDE DEF both
    <2>6. /\ k \in Request
          /\ k.pc = "GetObject" /\ k.offer = row.offer /\ k.alone = both
          /\ k.op = j.op /\ k.name = j.name /\ k.file = j.file /\ k.bucket = j.bucket
          /\ k.reply = j.reply
      <3>1. "GetObject" \in Calls \cup {"idle", "replied"} /\ row.offer \in Offers \cup {NoOffer}
        BY <2>3 DEF Calls, File
      <3> HIDE DEF row
      <3> QED
        BY <2>1, <2>4, <3>1 DEF Request
    <2> HIDE DEF k
    <2>7. Carries(k, buckets)
      BY <2>1, <2>6 DEF Carries, Busy
    <2>8. Knows(k, objects, misled')
      <3>1. SUFFICES ASSUME ~misled, both
                     PROVE  objects[Key(j.name, j.file)] = row.offer
        BY <1>2, <2>1, <2>6 DEF Knows, Carries, Busy
      <3>2. HasRow(j.bucket, j.file)
        BY <1>4 DEF HasRow
      <3>3. KeyOfFile(j.bucket, j.file) = Key(j.name, j.file)
        BY <2>1, <2>3, <3>2 DEF RowFits, Carries, Busy, KeyOfFile
      <3> QED
        BY <2>3, <2>4, <3>1, <3>2, <3>3 DEF RowFits
    <2>9. k.pc \in Calls => /\ Busy(r) /\ k.op = j.op /\ k.name = j.name
                            /\ k.file = j.file /\ (k.alone => j.alone)
      BY <2>1, <2>4, <2>6
    <2> QED
      BY <1>1, <1>2, <2>5, <2>6, <2>7, <2>8, <2>9, OneMoves
  <1> QED
    BY <1>3, <1>4 DEF GetFile

\* The object is read (GetObject).
LEMMA GetObjectKeeps ==
    ASSUME IInv, NEW r \in Requests, GetObject(r)
    PROVE  IInv'
  <1> DEFINE j == req[r]
             x == objects[KeyOf(r)]
  <1>1. At(r, "GetObject") /\ UNCHANGED <<buckets, files, objects>> /\ NoFault
    BY DEF GetObject
  <1>2. faults' \in 0..MaxFaults /\ misled' \in BOOLEAN /\ misled' = misled
    BY <1>1, FaultsFit
  <1>3. CASE Reply(r, j.op, "internal")
    <2>1. j.op \in Ops \cup {"none"} /\ "internal" \in Replies
      BY BusyRequest DEF Replies
    <2> QED
      BY <1>1, <1>2, <1>3, <2>1, ReplyKeeps
  <1>4. CASE req' = [req EXCEPT ![r].pc = "replied", ![r].reply = "content", ![r].content = x]
    <2> DEFINE k == [j EXCEPT !.pc = "replied", !.reply = "content", !.content = x]
    <2>1. /\ j \in Request /\ Knows(j, objects, misled) /\ j.pc = "GetObject" /\ Busy(r)
      BY <1>1, BusyRequest DEF RequestFits, At, Busy, Calls
    <2>2. x \in Offers \cup {NoOffer}
      BY <2>1, BusyRequest DEF IInv, TypeOK
    <2>3. req' = [req EXCEPT ![r] = k]
      BY <1>4 DEF IInv, TypeOK
    <2>4. /\ k \in Request
          /\ k.pc = "replied" /\ k.content = x /\ k.alone = j.alone /\ k.offer = j.offer
      <3>1. "replied" \in Calls \cup {"idle", "replied"} /\ "content" \in Replies
        BY DEF Replies
      <3> HIDE DEF x
      <3> QED
        BY <2>1, <2>2, <3>1 DEF Request
    <2> HIDE DEF k
    <2>5. k.pc \notin Calls
      BY <2>4 DEF Calls
    <2>6. Carries(k, buckets) /\ Knows(k, objects, misled')
      BY <1>2, <2>1, <2>4, <2>5 DEF Carries, Knows, KeyOf
    <2> QED
      BY <1>1, <1>2, <2>3, <2>4, <2>5, <2>6, OneMoves
  <1> QED
    BY <1>3, <1>4 DEF GetObject

-----------------------------------------------------------------------------
(* A request that begins.                                                   *)

\* The other requests that work on key x learn that request r writes it too.
Told(r, op, x, k) ==
    req' = [q \in Requests |->
              IF q = r THEN k
              ELSE IF op \in Writes /\ q # r /\ Using(q, x) THEN [req[q] EXCEPT !.alone = FALSE]
              ELSE req[q]]

\* Request r has read its bucket and begins as k: a writer takes every other request
\* and every row of its key out of their solitude.
LEMMA Begins ==
    ASSUME IInv, NEW r \in Requests, NEW k \in Request,
           k.name \in BucketNames, k.file \in FileNames, k.op \in Writes \cup Reads,
           Told(r, k.op, Key(k.name, k.file), k),
           k.alone => \A q \in Requests : ~Writing(q, Key(k.name, k.file)),
           k.pc \notin {"CreateFile", "GetObject"}, k.reply = "none",
           Carries(k, buckets),
           IF k.op \in Writes THEN Disturb(Key(k.name, k.file)) ELSE UNCHANGED files,
           UNCHANGED <<buckets, objects>>, NoFault
    PROVE  IInv'
  <1> DEFINE x == Key(k.name, k.file)
  <1>1. /\ req \in [Requests -> Request] /\ files \in [BucketIds \X FileNames -> File]
        /\ Named(buckets)
        /\ \A q \in Requests : RequestFits(q)
        /\ \A b \in BucketIds, f \in FileNames : RowFits(b, f)
    BY DEF IInv, TypeOK
  <1>2. /\ req'[r] = k
        /\ \A q \in Requests : q # r =>
             req'[q] = IF k.op \in Writes /\ Using(q, x) THEN [req[q] EXCEPT !.alone = FALSE] ELSE req[q]
        /\ req' = [q \in Requests |-> req'[q]]
    BY DEF Told
  <1> HIDE DEF x
  <1>3. ASSUME NEW q \in Requests, q # r
        PROVE  /\ req'[q] \in Request
               /\ req'[q] = req[q] \/ req'[q] = [req[q] EXCEPT !.alone = FALSE]
               /\ req'[q].alone => ~(k.op \in Writes /\ Using(q, x))
               /\ \A y : WritesTo(req'[q], y) => WritesTo(req[q], y)
    <2>1. req[q] \in Request
      BY <1>1
    <2>2. CASE k.op \in Writes /\ Using(q, x)
      <3>1. req'[q] = [req[q] EXCEPT !.alone = FALSE]
        BY <1>2, <1>3, <2>2
      <3>2. /\ req'[q] \in Request /\ ~req'[q].alone
            /\ req'[q].pc = req[q].pc /\ req'[q].op = req[q].op
            /\ req'[q].name = req[q].name /\ req'[q].file = req[q].file
        BY <2>1, <3>1 DEF Request
      <3> QED
        BY <3>1, <3>2 DEF WritesTo
    <2>3. CASE ~(k.op \in Writes /\ Using(q, x))
      BY <1>2, <1>3, <2>1, <2>3
    <2> QED
      BY <2>2, <2>3
  <1>4. req' \in [Requests -> Request]
    BY <1>2, <1>3
  <1>5. \A y : WritesTo(k, y) => k.op \in Writes /\ y = x
    BY DEF WritesTo, x
  <1>6. /\ files' \in [BucketIds \X FileNames -> File]
        /\ \A b \in BucketIds, f \in FileNames :
             /\ files'[<<b, f>>].offer = files[<<b, f>>].offer
             /\ files'[<<b, f>>].alone => files[<<b, f>>].alone
             /\ files'[<<b, f>>].alone /\ HasRow(b, f) => ~(k.op \in Writes /\ KeyOfFile(b, f) = x)
    <2>1. CASE k.op \in Writes
      <3>1. files' = [p \in DOMAIN files |->
                        IF HasRow(p[1], p[2]) /\ KeyOfFile(p[1], p[2]) = x
                        THEN [files[p] EXCEPT !.alone = FALSE] ELSE files[p]]
        BY <2>1 DEF Disturb, x
      <3>2. ASSUME NEW b \in BucketIds, NEW f \in FileNames
            PROVE  files'[<<b, f>>] = IF HasRow(b, f) /\ KeyOfFile(b, f) = x
                                      THEN [files[<<b, f>>] EXCEPT !.alone = FALSE] ELSE files[<<b, f>>]
        BY <1>1, <3>1
      <3>3. ASSUME NEW b \in BucketIds, NEW f \in FileNames
            PROVE  /\ files'[<<b, f>>] \in File
                   /\ files'[<<b, f>>].offer = files[<<b, f>>].offer
                   /\ files'[<<b, f>>].alone => files[<<b, f>>].alone
                   /\ files'[<<b, f>>].alone /\ HasRow(b, f) => KeyOfFile(b, f) # x
        <4>1. files[<<b, f>>] \in File
          BY <1>1
        <4>2. CASE HasRow(b, f) /\ KeyOfFile(b, f) = x
          <5>1. files'[<<b, f>>] = [files[<<b, f>>] EXCEPT !.alone = FALSE]
            BY <3>2, <4>2
          <5> QED
            BY <4>1, <5>1 DEF File
        <4>3. CASE ~(HasRow(b, f) /\ KeyOfFile(b, f) = x)
          BY <3>2, <4>1, <4>3
        <4> QED
          BY <4>2, <4>3
      <3>4. files' = [p \in BucketIds \X FileNames |-> files'[p]]
        BY <1>1, <3>1
      <3>5. \A p \in BucketIds \X FileNames : files'[p] \in File
        BY <3>3
      <3> QED
        BY <3>3, <3>4, <3>5
    <2>2. CASE k.op \notin Writes
      BY <1>1, <2>2
    <2> QED
      BY <2>1, <2>2
  <1>7. faults' \in 0..MaxFaults /\ misled' \in BOOLEAN /\ misled' = misled
    BY FaultsFit
  <1>8. TypeOK'
    BY <1>4, <1>6, <1>7 DEF IInv, TypeOK
  <1>9. ASSUME NEW b \in BucketIds, NEW f \in FileNames
        PROVE  RowFits(b, f)'
    <2>1. CASE HasRow(b, f)
      <3>1. files'[<<b, f>>].alone => ~WritesTo(k, KeyOfFile(b, f))
        BY <1>5, <1>6, <2>1
      <3>2. files'[<<b, f>>].alone =>
              \A q \in Requests : WritesTo(req'[q], KeyOfFile(b, f)) => WritesTo(req[q], KeyOfFile(b, f))
        BY <1>2, <1>3, <3>1
      <3> QED
        BY <1>6, <1>7, <2>1, <3>2, RowKeeps
    <2>2. CASE ~HasRow(b, f)
      BY <1>6, <2>2 DEF RowFits, HasRow
    <2> QED
      BY <2>1, <2>2
  <1>10. ASSUME NEW q \in Requests, q # r
         PROVE  RequestFits(q)'
    <2>1. Forward(buckets, buckets')
      BY DEF Forward
    <2>2. Busy(q) /\ req'[q].alone => ~WritesTo(k, KeyOf(q))
      <3>1. Busy(q) => req[q].op \in Writes \cup Reads
        BY BusyRequest
      <3>2. Busy(q) /\ KeyOf(q) = x => Using(q, x)
        BY <3>1 DEF Using
      <3> QED
        BY <1>3, <1>5, <1>10, <3>2
    <2>3. Busy(q) /\ req'[q].alone =>
            \A p \in Requests : p # q /\ WritesTo(req'[p], KeyOf(q)) => WritesTo(req[p], KeyOf(q))
      BY <1>2, <1>3, <2>2
    <2> QED
      BY <1>3, <1>7, <1>10, <2>1, <2>3, RequestKeeps
  <1>11. RequestFits(r)'
    <2>1. Carries(k, buckets')
      OBVIOUS
    <2>2. Knows(k, objects', misled')
      BY DEF Knows
    <2>3. Apart(r)'
      <3>1. SUFFICES ASSUME k.alone, NEW q \in Requests, q # r
                     PROVE  ~WritesTo(req'[q], x)
        BY <1>2 DEF Apart, Busy, KeyOf, x
      <3>2. ~WritesTo(req[q], x)
        BY <3>1 DEF Writing, WritesTo, Busy, KeyOf, x
      <3> QED
        BY <1>3, <3>1, <3>2
    <2> QED
      BY <1>2, <2>1, <2>2, <2>3 DEF RequestFits
  <1>12. Named(buckets')
    BY <1>1
  <1> QED
    BY <1>8, <1>9, <1>10, <1>11, <1>12 DEF IInv

\* A request is answered at once or begins (Lookup).
LEMMA LookupKeeps ==
    ASSUME IInv, NEW r \in Requests, NEW op \in Writes \cup Reads,
           NEW n \in BucketNames, NEW f \in FileNames, NEW offer \in Offers \cup {NoOffer},
           NEW first \in Calls,
           op = "Upload" => first = "PutObject" /\ offer \in Offers,
           op = "Delete" => first = "RemoveObject",
           op \in Reads => first = "GetFile",
           Lookup(r, op, n, f, offer, first)
    PROVE  IInv'
  <1> DEFINE x == Key(n, f)
             solitary == ~\E q \in Requests : Writing(q, x)
             j == [Idle EXCEPT !.op = op, !.name = n, !.file = f, !.offer = offer, !.alone = solitary]
  <1>1. UNCHANGED <<buckets, objects>> /\ NoFault
    BY DEF Lookup
  <1>2. op \in Ops /\ {"notfound", "invalid"} \subseteq Replies
    BY DEF Ops, Writes, Reads, Replies
  <1>3. CASE (Reply(r, op, "notfound") \/ Reply(r, op, "invalid")) /\ UNCHANGED files
    BY <1>1, <1>2, <1>3, Outcomes, ReplyKeeps
  <1>4. ASSUME NEW b \in BucketNamed(n), op = "Upload" => Allows(buckets[b].limit, offer),
               Told(r, op, x, [j EXCEPT !.pc = first, !.bucket = b]),
               IF op \in Writes THEN Disturb(x) ELSE UNCHANGED files
        PROVE  IInv'
    <2> DEFINE k == [j EXCEPT !.pc = first, !.bucket = b]
    <2>1. b \in BucketIds /\ buckets[b].status = "live" /\ buckets[b].name = n
      BY DEF BucketNamed
    <2>2. solitary \in BOOLEAN
      OBVIOUS
    <2>3. solitary => \A q \in Requests : ~Writing(q, x)
      OBVIOUS
    <2> HIDE DEF solitary
    <2>4. /\ k \in Request
          /\ k.op = op /\ k.name = n /\ k.file = f /\ k.offer = offer /\ k.alone = solitary
          /\ k.pc = first /\ k.bucket = b /\ k.reply = "none"
      <3>1. /\ Idle \in Request /\ Idle.reply = "none"
        BY IdleRecord DEF Idle
      <3>2. /\ j \in Request /\ j.reply = "none"
            /\ j.op = op /\ j.name = n /\ j.file = f /\ j.offer = offer /\ j.alone = solitary
        BY <1>2, <2>2, <3>1 DEF Request
      <3> HIDE DEF j
      <3> QED
        BY <2>1, <3>2 DEF Request
    <2>5. Told(r, op, x, k)
      BY <1>4
    <2> HIDE DEF k
    <2>6. Carries(k, buckets) /\ k.pc \notin {"CreateFile", "GetObject"}
      BY <1>4, <2>1, <2>4 DEF Carries, Writes, Reads
    <2> QED
      BY <1>1, <1>4, <2>3, <2>4, <2>5, <2>6, Begins
  <1> QED
    BY <1>3, <1>4 DEF Lookup, Told

\* Uploads, deletes and reads begin with the look-up of their bucket.
LEMMA BeginKeeps ==
    ASSUME IInv, NEW r \in Requests, Upload(r) \/ Delete(r) \/ Read(r)
    PROVE  IInv'
  <1>1. {"PutObject", "RemoveObject", "GetFile"} \subseteq Calls
    BY DEF Calls
  <1>2. \A p \in Paths : p[1] \in BucketNames /\ p[2] \in FileNames
    BY StorageAssumption
  <1>3. CASE Upload(r)
    <2>1. PICK p \in Paths, o \in Offers : Lookup(r, "Upload", p[1], p[2], o, "PutObject")
      BY <1>3 DEF Upload
    <2>2. "Upload" \in Writes \cup Reads /\ "Upload" \notin Reads /\ p[1] \in BucketNames /\ p[2] \in FileNames
      BY <1>2 DEF Writes, Reads
    <2> QED
      BY <1>1, <2>1, <2>2, LookupKeeps
  <1>4. CASE Delete(r)
    <2>1. PICK p \in Paths : Lookup(r, "Delete", p[1], p[2], NoOffer, "RemoveObject")
      BY <1>4 DEF Delete
    <2>2. "Delete" \in Writes \cup Reads /\ "Delete" \notin Reads /\ p[1] \in BucketNames /\ p[2] \in FileNames
      BY <1>2 DEF Writes, Reads
    <2> QED
      BY <1>1, <2>1, <2>2, LookupKeeps
  <1>5. CASE Read(r)
    <2>1. PICK op \in Reads, p \in Paths : Lookup(r, op, p[1], p[2], NoOffer, "GetFile")
      BY <1>5 DEF Read
    <2>2. op \in Writes \cup Reads /\ op \notin {"Upload", "Delete"} /\ p[1] \in BucketNames /\ p[2] \in FileNames
      BY <1>2 DEF Reads
    <2> QED
      BY <1>1, <2>1, <2>2, LookupKeeps
  <1> QED
    BY <1>3, <1>4, <1>5

-----------------------------------------------------------------------------
(* The start, a crash, and the theorems.                                    *)

\* Nothing is stored and nobody works.
LEMMA InitInv ==
    ASSUME Init
    PROVE  IInv
  <1>1. /\ \A b \in BucketIds : buckets[b] = NewBucket
        /\ \A b \in BucketIds, f \in FileNames : files[<<b, f>>] = NoFile
        /\ \A r \in Requests : req[r] = Idle
    BY DEF Init
  <1>2. NewBucket \in Bucket /\ NewBucket.status = "free"
    BY DEF NewBucket, Bucket
  <1>3. NoFile \in File /\ NoFile.offer = NoOffer
    BY DEF NoFile, File
  <1>4. TypeOK
    <2>1. faults = 0 /\ misled = FALSE
      BY DEF Init
    <2>2. MaxFaults \in Nat
      BY StorageAssumption
    <2>3. faults \in 0..MaxFaults
      BY <2>1, <2>2
    <2>4. misled \in BOOLEAN
      BY <2>1
    <2>5. buckets \in [BucketIds -> Bucket] /\ files \in [BucketIds \X FileNames -> File]
      BY <1>2, <1>3 DEF Init
    <2>6. objects \in [Keys -> Offers \cup {NoOffer}] /\ req \in [Requests -> Request]
      BY IdleRecord DEF Init
    <2> QED
      BY <2>3, <2>4, <2>5, <2>6 DEF TypeOK
  <1>5. Named(buckets)
    BY <1>1, <1>2 DEF Named
  <1>6. ASSUME NEW r \in Requests
        PROVE  RequestFits(r)
    <2>1. req[r] = Idle /\ Idle.pc \notin Calls /\ ~Idle.alone
      BY <1>1, IdleRecord
    <2>2. Carries(req[r], buckets) /\ Knows(req[r], objects, misled)
      BY <2>1, Ended
    <2> QED
      BY <2>1, <2>2 DEF RequestFits, Apart, Busy
  <1>7. \A b \in BucketIds, f \in FileNames : RowFits(b, f)
    BY <1>1, <1>3 DEF RowFits, HasRow
  <1> QED
    BY <1>4, <1>5, <1>6, <1>7 DEF IInv

\* A crash takes every request with it and leaves what is stored (Crash).
LEMMA CrashKeeps ==
    ASSUME IInv, Crash
    PROVE  IInv'
  <1>1. /\ req' = [r \in Requests |-> Idle]
        /\ buckets' = buckets /\ files' = files /\ objects' = objects /\ misled' = misled
        /\ Fault
    BY DEF Crash
  <1>2. faults' \in 0..MaxFaults /\ misled' \in BOOLEAN
    BY <1>1, FaultsFit
  <1>3. Idle \in Request /\ Idle.pc \notin Calls /\ ~Idle.alone
    BY IdleRecord
  <1>4. \A r \in Requests : req'[r] = Idle
    BY <1>1
  <1>5. TypeOK' /\ Named(buckets)'
    BY <1>1, <1>2, <1>3 DEF IInv, TypeOK
  <1>6. ASSUME NEW r \in Requests
        PROVE  RequestFits(r)'
    <2>1. Carries(req'[r], buckets') /\ Knows(req'[r], objects', misled')
      BY <1>3, <1>4, Ended
    <2> QED
      BY <1>3, <1>4, <2>1 DEF RequestFits, Apart, Busy
  <1>7. ASSUME NEW b \in BucketIds, NEW f \in FileNames
        PROVE  RowFits(b, f)'
    <2>1. \A q \in Requests, x \in {KeyOfFile(b, f)} : ~WritesTo(req'[q], x)
      BY <1>3, <1>4 DEF WritesTo
    <2>2. CASE HasRow(b, f)
      BY <1>1, <2>1, <2>2, RowKeeps
    <2>3. CASE ~HasRow(b, f)
      BY <1>1, <2>3 DEF RowFits, HasRow
    <2> QED
      BY <2>2, <2>3
  <1> QED
    BY <1>5, <1>6, <1>7 DEF IInv

\* Nothing happens.
LEMMA StutterKeeps ==
    ASSUME IInv, UNCHANGED vars
    PROVE  IInv'
  BY DEF IInv, vars, TypeOK, Named, RequestFits, Carries, Knows, Apart, RowFits, HasRow, Busy,
         KeyOf, KeyOfFile, WritesTo

\* The inductive invariant holds in every state of every behaviour.
THEOREM Invariance == Spec => []IInv
  <1>1. Init => IInv
    BY InitInv
  <1>2. ASSUME IInv, [Next]_vars
        PROVE  IInv'
    <2>1. ASSUME NEW r \in Requests,
                 \/ CreateBucket(r) \/ DeleteBucket(r) \/ Upload(r) \/ Delete(r) \/ Read(r)
                 \/ PutObject(r) \/ CreateFile(r) \/ RemoveUpload(r) \/ RemoveObject(r)
                 \/ DeleteFile(r) \/ GetFile(r) \/ GetObject(r) \/ CallFails(r) \/ Answer(r)
          PROVE  IInv'
      <3>1. CASE CreateBucket(r) \/ DeleteBucket(r)
        BY <1>2, <3>1, CreateBucketKeeps, DeleteBucketKeeps
      <3>2. CASE Upload(r) \/ Delete(r) \/ Read(r)
        BY <1>2, <3>2, BeginKeeps
      <3>3. CASE PutObject(r) \/ CreateFile(r) \/ RemoveUpload(r)
        BY <1>2, <3>3, PutObjectKeeps, CreateFileKeeps, RemoveUploadKeeps
      <3>4. CASE RemoveObject(r) \/ DeleteFile(r)
        BY <1>2, <3>4, RemoveObjectKeeps, DeleteFileKeeps
      <3>5. CASE GetFile(r) \/ GetObject(r)
        BY <1>2, <3>5, GetFileKeeps, GetObjectKeeps
      <3>6. CASE CallFails(r) \/ Answer(r)
        BY <1>2, <3>6, CallFailsKeeps, AnswerKeeps
      <3> QED
        BY <2>1, <3>1, <3>2, <3>3, <3>4, <3>5, <3>6
    <2>2. CASE Crash
      BY <1>2, <2>2, CrashKeeps
    <2>3. CASE UNCHANGED vars
      BY <1>2, <2>3, StutterKeeps
    <2> QED
      BY <1>2, <2>1, <2>2, <2>3 DEF Next
  <1> QED
    BY <1>1, <1>2, PTL DEF Spec

\* Every reachable state is one the tables, the object store and the requests can be in.
THEOREM TypeOKAlways == Spec => []TypeOK
  <1>1. IInv => TypeOK
    BY DEF IInv
  <1> QED
    BY <1>1, Invariance, PTL

\* Every file row obeys the limits of the bucket it is in, whatever has become of the
\* bucket its upload was validated against.
THEOREM FilesAlwaysWithinLimits == Spec => []FilesWithinLimits
  <1>1. IInv => FilesWithinLimits
    BY DEF IInv, RowFits, FilesWithinLimits
  <1> QED
    BY <1>1, Invariance, PTL

\* A file nobody else wrote to since its upload began has the object that was uploaded:
\* no other goroutine and no other bucket reaches its key, even though two pairs of
\* names may share one.
THEOREM UndisturbedFileAlwaysWhole == Spec => []UndisturbedFileIsWhole
  <1>1. IInv => UndisturbedFileIsWhole
    BY DEF IInv, RowFits, UndisturbedFileIsWhole
  <1> QED
    BY <1>1, Invariance, PTL

\* A download of an undisturbed file is answered with the bytes its row describes,
\* though the row and the object are read in two calls.
THEOREM DownloadAlwaysMatchesRow == Spec => []DownloadMatchesRow
  <1>1. IInv => DownloadMatchesRow
    BY DEF IInv, RequestFits, Knows, DownloadMatchesRow
  <1> QED
    BY <1>1, Invariance, PTL
=============================================================================
