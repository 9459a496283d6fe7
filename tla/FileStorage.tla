----------------------------- MODULE FileStorage -----------------------------
(***************************************************************************)
(* services/storage: buckets and file metadata in PostgreSQL, bytes in an   *)
(* S3 store, with no transaction over the two.  A request is one goroutine  *)
(* that goes from one SQL statement or S3 call to the next; rows are found  *)
(* by the bucket's id, objects by the bucket's name.                        *)
(***************************************************************************)
EXTENDS Naturals, Sequences, FiniteSets

CONSTANTS
    Requests,     \* handler goroutines that may run at the same time
    BucketIds,    \* buckets.id
    BucketNames,  \* buckets.name, a path: a sequence of segments
    FileNames,    \* files.name, a path within the bucket
    Paths,        \* the <<bucket name, file name>> pairs clients use
    Offers,       \* what a client may upload: [size, mime]
    Limits,       \* what a bucket may allow: [max, mimes]
    MaxFaults,    \* bound: failed calls and crashes
    NoBucket, NoName, NoOffer, NoLimit

ASSUME StorageAssumption ==
    /\ MaxFaults \in Nat
    /\ Paths \subseteq BucketNames \X FileNames
    /\ NoBucket \notin BucketIds
    /\ NoOffer \notin Offers
    /\ NoLimit \notin Nat
    /\ \A o \in Offers : o.size \in Nat
    /\ \A l \in Limits : l.max \in Nat \cup {NoLimit}

VARIABLES
    buckets,   \* the buckets table
    files,     \* files[<<b, f>>]: the row of file f in bucket b
    objects,   \* objects[k]: what the S3 store holds under key k
    req,       \* req[r]: what goroutine r is doing
    faults,    \* faults so far
    misled     \* history: a committed call was reported as failed

vars == <<buckets, files, objects, req, faults, misled>>

\* fmt.Sprintf("%s/%s", bucketName, fileName): the slash joins two paths, so
\* file x/y of bucket a and file y of bucket a/x share a key.
Key(name, file) == name \o file

Keys == {Key(n, f) : n \in BucketNames, f \in FileNames}

\* The key of file f of the live bucket b.
KeyOfFile(b, f) == Key(buckets[b].name, f)

Bucket == [status : {"free", "live", "deleted"},
           name : BucketNames \cup {NoName},
           limit : Limits \cup {NoLimit}]

NewBucket == [status |-> "free", name |-> NoName, limit |-> NoLimit]

File == [offer : Offers \cup {NoOffer},  \* size and mime_type; NoOffer: no row
         alone : BOOLEAN]                \* history: no other writer of its key since its upload began

NoFile == [offer |-> NoOffer, alone |-> FALSE]

Writes == {"Upload", "Delete"}
Reads == {"Download", "SignedURL"}
Ops == {"CreateBucket", "DeleteBucket"} \cup Writes \cup Reads

Calls == {"PutObject", "CreateFile", "RemoveUpload", "RemoveObject", "DeleteFile",
          "GetFile", "GetObject"}

Replies == {"none", "created", "conflict", "invalid", "notfound", "done", "content", "internal"}

Request == [op : Ops \cup {"none"},
            pc : Calls \cup {"idle", "replied"},
            name : BucketNames \cup {NoName},
            file : FileNames \cup {NoName},
            offer : Offers \cup {NoOffer},       \* uploaded, or the row a download read
            bucket : BucketIds \cup {NoBucket},  \* bucket.ID as read by name
            content : Offers \cup {NoOffer},     \* the bytes a download got
            alone : BOOLEAN,   \* history: no other writer of its key so far
            reply : Replies]

Idle == [op |-> "none", pc |-> "idle", name |-> NoName, file |-> NoName,
         offer |-> NoOffer, bucket |-> NoBucket, content |-> NoOffer, alone |-> FALSE,
         reply |-> "none"]

TypeOK ==
    /\ buckets \in [BucketIds -> Bucket]
    /\ files \in [BucketIds \X FileNames -> File]
    /\ objects \in [Keys -> Offers \cup {NoOffer}]
    /\ req \in [Requests -> Request]
    /\ faults \in 0..MaxFaults
    /\ misled \in BOOLEAN

Init ==
    /\ buckets = [b \in BucketIds |-> NewBucket]
    /\ files = [p \in BucketIds \X FileNames |-> NoFile]
    /\ objects = [k \in Keys |-> NoOffer]
    /\ req = [r \in Requests |-> Idle]
    /\ faults = 0
    /\ misled = FALSE

-----------------------------------------------------------------------------
At(r, call) == req[r].pc = call

KeyOf(r) == Key(req[r].name, req[r].file)

Busy(r) == req[r].pc \in Calls

BucketNamed(n) == {b \in BucketIds : buckets[b].status = "live" /\ buckets[b].name = n}

HasRow(b, f) == files[<<b, f>>].offer # NoOffer

Goto(r, call) == req' = [req EXCEPT ![r].pc = call]

\* What the goroutine had read is forgotten with its answer.
Reply(r, op, answer) ==
    req' = [req EXCEPT ![r] = [Idle EXCEPT !.op = op, !.pc = "replied", !.reply = answer]]

NoFault == UNCHANGED <<faults, misled>>

Fault ==
    /\ faults < MaxFaults
    /\ faults' = faults + 1

\* Upload validates size first, then type; an empty list allows every type.
Allows(limit, offer) ==
    /\ limit.max # NoLimit => offer.size <= limit.max
    /\ limit.mimes # {} => offer.mime \in limit.mimes

\* A new upload or delete of key k: whoever else works on k is not alone.
Disturb(k) ==
    files' = [p \in DOMAIN files |->
                IF HasRow(p[1], p[2]) /\ KeyOfFile(p[1], p[2]) = k
                THEN [files[p] EXCEPT !.alone = FALSE] ELSE files[p]]

Writing(q, k) == Busy(q) /\ req[q].op \in Writes /\ KeyOf(q) = k

Using(q, k) == Busy(q) /\ req[q].op \in Writes \cup Reads /\ KeyOf(q) = k

-----------------------------------------------------------------------------
(* One action per SQL statement or S3 call.  A goroutine does nothing before *)
(* its first call, so the request arrives in that step.  A call that wrote   *)
(* may be reported as failed all the same.                                   *)

Acknowledged(next, failed) ==
    \/ next /\ NoFault
    \/ failed /\ Fault /\ misled' = TRUE

\* INSERT INTO buckets: the name is unique.
CreateBucket(r) ==
    /\ At(r, "idle")
    /\ \E n \in BucketNames, l \in Limits :
         \/ /\ BucketNamed(n) # {}
            /\ Reply(r, "CreateBucket", "conflict")
            /\ NoFault
            /\ UNCHANGED buckets
         \/ /\ BucketNamed(n) = {}
            /\ \E b \in BucketIds :
                 /\ buckets[b].status = "free"
                 /\ buckets' = [buckets EXCEPT ![b] = [status |-> "live", name |-> n, limit |-> l]]
            /\ Acknowledged(Reply(r, "CreateBucket", "created"),
                            Reply(r, "CreateBucket", "internal"))
    /\ UNCHANGED <<files, objects>>

\* DELETE FROM buckets cascades to the file rows; the objects stay.
DeleteBucket(r) ==
    /\ At(r, "idle")
    /\ \E n \in BucketNames :
         \/ /\ BucketNamed(n) = {}
            /\ Reply(r, "DeleteBucket", "notfound")
            /\ NoFault
            /\ UNCHANGED <<buckets, files>>
         \/ \E b \in BucketNamed(n) :
              /\ buckets' = [buckets EXCEPT ![b] = [NewBucket EXCEPT !.status = "deleted"]]
              /\ files' = [p \in DOMAIN files |-> IF p[1] = b THEN NoFile ELSE files[p]]
              /\ Acknowledged(Reply(r, "DeleteBucket", "done"),
                              Reply(r, "DeleteBucket", "internal"))
    /\ UNCHANGED objects

\* GetBucketByName: the bucket's id and limits are read once, here.  An upload
\* or a delete disturbs whoever else works on the key.
Lookup(r, op, n, f, offer, first) ==
    LET k == Key(n, f)
        call == [Idle EXCEPT !.op = op, !.name = n, !.file = f, !.offer = offer,
                             !.alone = ~\E q \in Requests : Writing(q, k)]
        Disturbed(q) == op \in Writes /\ q # r /\ Using(q, k)
        Proceed(answer) == req' = [q \in Requests |->
                                     IF q = r THEN answer
                                     ELSE IF Disturbed(q) THEN [req[q] EXCEPT !.alone = FALSE]
                                     ELSE req[q]]
    IN  /\ At(r, "idle")
        /\ \/ /\ BucketNamed(n) = {}
              /\ Reply(r, op, "notfound")
              /\ UNCHANGED files
           \/ \E b \in BucketNamed(n) :
                \/ /\ op = "Upload" /\ ~Allows(buckets[b].limit, offer)
                   /\ Reply(r, op, "invalid")
                   /\ UNCHANGED files
                \/ /\ op = "Upload" => Allows(buckets[b].limit, offer)
                   /\ Proceed([call EXCEPT !.pc = first, !.bucket = b])
                   /\ IF op \in Writes THEN Disturb(k) ELSE UNCHANGED files
        /\ UNCHANGED <<buckets, objects>> /\ NoFault

Upload(r) ==
    \E p \in Paths, o \in Offers : Lookup(r, "Upload", p[1], p[2], o, "PutObject")

Delete(r) ==
    \E p \in Paths : Lookup(r, "Delete", p[1], p[2], NoOffer, "RemoveObject")

\* Download and SignedURL.
Read(r) ==
    \E op \in Reads, p \in Paths : Lookup(r, op, p[1], p[2], NoOffer, "GetFile")

\* Mutant: an object that is already there is kept.
PutObject_IfAbsent(r) ==
    /\ At(r, "PutObject")
    /\ objects' = [objects EXCEPT ![KeyOf(r)] = IF @ = NoOffer THEN req[r].offer ELSE @]
    /\ Goto(r, "CreateFile")
    /\ UNCHANGED <<buckets, files>> /\ NoFault

\* PutObject replaces whatever the key held.
PutObject(r) ==
    /\ At(r, "PutObject")
    /\ objects' = [objects EXCEPT ![KeyOf(r)] = req[r].offer]
    /\ Acknowledged(Goto(r, "CreateFile"), Reply(r, req[r].op, "internal"))
    /\ UNCHANGED <<buckets, files>>

\* Refused by UNIQUE (bucket_id, name) or by the foreign key, Upload still
\* has to remove what it put; the answer is decided here.
Refuse(r, answer) == req' = [req EXCEPT ![r].pc = "RemoveUpload", ![r].reply = answer]

\* Mutant: the row goes to whatever bucket has the name by now.
CreateFile_ByName(r) ==
    /\ At(r, "CreateFile")
    /\ \E b \in BucketNamed(req[r].name) :
         /\ ~HasRow(b, req[r].file)
         /\ files' = [files EXCEPT ![<<b, req[r].file>>] =
                        [offer |-> req[r].offer, alone |-> req[r].alone]]
    /\ Reply(r, req[r].op, "created")
    /\ UNCHANGED <<buckets, objects>> /\ NoFault

\* Mutant: the clean-up is deferred and runs after a successful insert too.
CreateFile_AlwaysCleans(r) ==
    /\ At(r, "CreateFile")
    /\ buckets[req[r].bucket].status = "live" /\ ~HasRow(req[r].bucket, req[r].file)
    /\ files' = [files EXCEPT ![<<req[r].bucket, req[r].file>>] =
                   [offer |-> req[r].offer, alone |-> req[r].alone]]
    /\ Refuse(r, "created")
    /\ UNCHANGED <<buckets, objects>> /\ NoFault

CreateFile(r) ==
    LET b == req[r].bucket
        f == req[r].file
    IN  /\ At(r, "CreateFile")
        /\ \/ /\ buckets[b].status = "live" /\ HasRow(b, f)
              /\ Refuse(r, "conflict")
              /\ NoFault
              /\ UNCHANGED files
           \/ /\ buckets[b].status # "live"
              /\ Refuse(r, "internal")
              /\ NoFault
              /\ UNCHANGED files
           \/ /\ buckets[b].status = "live" /\ ~HasRow(b, f)
              /\ files' = [files EXCEPT ![<<b, f>>] = [offer |-> req[r].offer, alone |-> req[r].alone]]
              /\ Acknowledged(Reply(r, req[r].op, "created"), Refuse(r, "internal"))
        /\ UNCHANGED <<buckets, objects>>

\* "Best effort cleanup": the outcome of the call is ignored.
RemoveUpload(r) ==
    /\ At(r, "RemoveUpload")
    /\ objects' = [objects EXCEPT ![KeyOf(r)] = NoOffer]
    /\ Reply(r, req[r].op, req[r].reply)
    /\ NoFault
    /\ UNCHANGED <<buckets, files>>

\* Mutant: a removed object leaves a delete marker.
RemoveObject_Marker(r) ==
    /\ At(r, "RemoveObject")
    /\ objects' = [objects EXCEPT ![KeyOf(r)] = NoName]
    /\ Goto(r, "DeleteFile")
    /\ UNCHANGED <<buckets, files>> /\ NoFault

\* Delete removes the object first; a key that holds nothing is no error.
RemoveObject(r) ==
    /\ At(r, "RemoveObject")
    /\ objects' = [objects EXCEPT ![KeyOf(r)] = NoOffer]
    /\ Acknowledged(Goto(r, "DeleteFile"), Reply(r, req[r].op, "internal"))
    /\ UNCHANGED <<buckets, files>>

DeleteFile(r) ==
    LET b == req[r].bucket
        f == req[r].file
    IN  /\ At(r, "DeleteFile")
        /\ \/ /\ ~HasRow(b, f)
              /\ Reply(r, req[r].op, "notfound")
              /\ NoFault
              /\ UNCHANGED files
           \/ /\ HasRow(b, f)
              /\ files' = [files EXCEPT ![<<b, f>>] = NoFile]
              /\ Acknowledged(Reply(r, req[r].op, "done"), Reply(r, req[r].op, "internal"))
        /\ UNCHANGED <<buckets, objects>>

\* A signed URL needs the row only.
GetFile(r) ==
    LET row == files[<<req[r].bucket, req[r].file>>]
    IN  /\ At(r, "GetFile")
        /\ \/ /\ row.offer = NoOffer
              /\ Reply(r, req[r].op, "notfound")
           \/ /\ row.offer # NoOffer
              /\ req[r].op = "SignedURL"
              /\ Reply(r, req[r].op, "done")
           \/ /\ row.offer # NoOffer
              /\ req[r].op = "Download"
              /\ req' = [req EXCEPT ![r].pc = "GetObject", ![r].offer = row.offer,
                                    ![r].alone = req[r].alone /\ row.alone]
        /\ UNCHANGED <<buckets, files, objects>> /\ NoFault

\* The object is sent with the size and type of the row.
GetObject(r) ==
    /\ At(r, "GetObject")
    /\ \/ /\ objects[KeyOf(r)] = NoOffer
          /\ Reply(r, req[r].op, "internal")
       \/ /\ objects[KeyOf(r)] # NoOffer
          /\ req' = [req EXCEPT ![r].pc = "replied", ![r].reply = "content",
                                ![r].content = objects[KeyOf(r)]]
    /\ UNCHANGED <<buckets, files, objects>> /\ NoFault

-----------------------------------------------------------------------------
(* Faults.                                                                  *)

\* A call fails and changes nothing.  A failed insert is cleaned up after, a
\* failed clean-up is ignored, and everything else is answered 500.
CallFails(r) ==
    /\ Fault
    /\ \/ At(r, "idle") /\ \E op \in Ops : Reply(r, op, "internal")
       \/ Busy(r) /\ req[r].pc \notin {"CreateFile", "RemoveUpload"}
          /\ Reply(r, req[r].op, "internal")
       \/ At(r, "CreateFile") /\ Refuse(r, "internal")
       \/ At(r, "RemoveUpload") /\ Reply(r, req[r].op, req[r].reply)
    /\ UNCHANGED <<buckets, files, objects, misled>>

\* The answer is sent, or the client is gone; nothing else depends on it.
Answer(r) ==
    /\ At(r, "replied")
    /\ req' = [req EXCEPT ![r] = Idle]
    /\ UNCHANGED <<buckets, files, objects>> /\ NoFault

Crash ==
    /\ \E r \in Requests : Busy(r)
    /\ Fault
    /\ req' = [r \in Requests |-> Idle]
    /\ UNCHANGED <<buckets, files, objects, misled>>

Next ==
    \/ \E r \in Requests :
         \/ CreateBucket(r) \/ DeleteBucket(r) \/ Upload(r) \/ Delete(r) \/ Read(r)
         \/ PutObject(r) \/ CreateFile(r) \/ RemoveUpload(r) \/ RemoveObject(r) \/ DeleteFile(r)
         \/ GetFile(r) \/ GetObject(r) \/ CallFails(r) \/ Answer(r)
    \/ Crash

Spec == Init /\ [][Next]_vars

-----------------------------------------------------------------------------
(* Properties.                                                              *)

\* Every file row obeys the limits of the bucket it is in, even when the
\* bucket the upload was validated against has been deleted and another of
\* the same name created meanwhile.
FilesWithinLimits ==
    \A b \in BucketIds, f \in FileNames :
        HasRow(b, f) => buckets[b].status = "live" /\ Allows(buckets[b].limit, files[<<b, f>>].offer)

\* A file nobody else wrote to since its upload began is whole: whatever
\* crashed, failed or was refused around it, and whatever became of other
\* keys, its object is what was uploaded.
UndisturbedFileIsWhole ==
    ~misled =>
        \A b \in BucketIds, f \in FileNames :
            HasRow(b, f) /\ files[<<b, f>>].alone
                => objects[KeyOfFile(b, f)] = files[<<b, f>>].offer

\* A download of such a file, without a writer at the same time, is answered
\* with the bytes its size and type describe.
DownloadMatchesRow ==
    ~misled =>
        \A r \in Requests :
            req[r].reply = "content" /\ req[r].alone => req[r].content = req[r].offer

\* An upload that was answered stays stored: with no fault and no request
\* running, a file with a row has its bytes.  Refuted: a second upload of the
\* name is refused with a conflict and takes the object with it.
StoredFilesHaveBytes ==
    faults = 0 /\ (\A r \in Requests : ~Busy(r)) =>
        \A b \in BucketIds, f \in FileNames :
            HasRow(b, f) => objects[KeyOfFile(b, f)] # NoOffer
==============================================================================
