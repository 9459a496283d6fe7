--------------------------- MODULE GatewayProofs ---------------------------
(***************************************************************************)
(* Proofs about Gateway and, through it, about EngineRows: row requests and *)
(* scoped SQL on pooled connections, for any number of requests,            *)
(* connections, users and faults.                                           *)
(*                                                                         *)
(* What a handler may rely on is a relation between the statements it has   *)
(* still to send and the session it holds: once BEGIN is behind it, its     *)
(* connection is in a transaction, its own or one it was given; once the    *)
(* role, the user or READ ONLY is behind it too, that transaction has them  *)
(* unless it has failed.  Only the holder of a connection changes its       *)
(* session, so the other handlers keep theirs.                              *)
(***************************************************************************)
EXTENDS Gateway, TLAPS

-----------------------------------------------------------------------------
(* The inductive invariant.                                                 *)

\* The requests whose write is committed or in an open transaction.
Written == rows \cup UNION {session[c].wrote : c \in Conns}

Ahead(left, statement) == \E i \in 1..Len(left) : left[i] = statement

\* One transaction from here on: BEGIN can only come next, the query is the last
\* statement but one, and COMMIT the last.
Shape(left) ==
    /\ left \in Seq(Statements)
    /\ Len(left) >= 1
    /\ \A i \in 1..Len(left) :
         /\ left[i] = "BEGIN" => i = 1
         /\ left[i] = "Query" <=> i = Len(left) - 1
         /\ left[i] = "COMMIT" <=> i = Len(left)

\* What is ahead of a handler that has sent nothing.
Untouched(j) ==
    /\ Ahead(j.left, "BEGIN")
    /\ HttpRow(j) => Ahead(j.left, "Role") /\ Ahead(j.left, "UserId")
    /\ ~HttpRow(j) /\ ~j.m.readwrite => Ahead(j.left, "ReadOnly")

\* The session that handler j holds, by what is behind it.
Fits(j, s) ==
    /\ ~Ahead(j.left, "BEGIN") => s.tx # "none"
    /\ HttpRow(j) /\ ~Ahead(j.left, "Role") /\ s.tx = "open" => s.role = role_of(j.m.user_id)
    /\ HttpRow(j) /\ ~Ahead(j.left, "UserId") /\ s.tx = "open" => s.uid = j.m.user_id
    /\ ~HttpRow(j) /\ ~j.m.readwrite /\ ~Ahead(j.left, "ReadOnly") /\ s.tx = "open" => s.readonly

\* What a handler has been asked for.
Asked(j) ==
    /\ j.port = "http" => j.m.rpc \in RowRpcs \cup {"ExecuteSQL"}
    /\ j.m.writes => j.m.rpc \in Writers \cup {"ExecuteSQL"}

\* "written" are the requests that have written, "kept" those whose write is committed.
WritesFit(r, j, written, kept) ==
    /\ r \in written =>
                /\ j.m.writes
                /\ j.m.rpc = "ExecuteSQL" => j.m.readwrite
                /\ \/ j.pc = "run" /\ InTransaction(j) /\ Len(j.left) = 1 /\ j.code = "OK"
                   \/ j.pc = "done" /\ j.code \in {"OK", "Canceled"}
                   \/ j.pc = "done" /\ j.code = "Internal" /\ ~HttpRow(j)
    /\ /\ j.pc = "done" /\ j.code = "OK" /\ j.m.writes
       /\ ~j.unkept
       /\ ~(j.inherited /\ ~InTransaction(j))
       => r \in kept

RanFits(j) ==
    HttpRow(j) /\ j.ran # NotRun => j.ran = [role |-> role_of(j.m.user_id), uid |-> j.m.user_id]

\* Handler j of request r, its session s; "written" and "kept" as above.
Serving(r, j, s, written, kept) ==
    /\ Asked(j)
    /\ RanFits(j)
    /\ WritesFit(r, j, written, kept)
    /\ j.pc = "idle" => j = NoJob
    /\ j.conn # NoConn <=> j.pc \in {"run", "rollback"}
    /\ j.pc \in {"wait", "run"} /\ InTransaction(j) => Shape(j.left)
    /\ j.pc \in {"wait", "run"} /\ ~InTransaction(j) => j.left = <<"Query">>
    /\ j.pc = "wait" => j.code = "OK"
    /\ j.pc = "wait" /\ InTransaction(j) => Untouched(j)
    /\ j.pc = "rollback" => InTransaction(j)
    /\ j.pc = "rollback" => j.code \in {"InvalidArgument", "PermissionDenied", "Internal"}
    /\ j.pc = "run" /\ InTransaction(j) => Fits(j, s)
    /\ j.pc = "run" /\ InTransaction(j) /\ Ahead(j.left, "BEGIN") => Untouched(j)
    /\ j.pc = "run" /\ InTransaction(j) /\ Len(j.left) = 1 /\ j.code = "OK" /\ j.m.writes =>
         r \in s.wrote
    /\ j.pc = "run" /\ ~InTransaction(j) /\ ~j.inherited => s.tx = "none"

JobInv(r) == Serving(r, job[r], session[job[r].conn], Written, rows)

ClientError(c) == c.status \in 400..499

\* What the client of request r sees (c), by what the handler of r does (j).
CallFits(r, c, j, written) ==
    /\ c.pc # "answered" => c.status = Unset
    /\ c.pc = "idle" => j.pc = "idle"
    /\ c.pc = "answered" => j.pc \in {"idle", "done"}
    /\ c.pc = "calling" => c.route \in DOMAIN Routes
    /\ c.pc = "calling" /\ Routes[c.route].service # "engine" => j.pc = "idle"
    /\ ClientError(c) => r \notin written

CallInv(r) == CallFits(r, call[r], job[r], Written)

IInv ==
    /\ TypeOK
    /\ \A r \in Requests : JobInv(r) /\ CallInv(r)

-----------------------------------------------------------------------------
(* Statements still to come.                                                *)

\* A statement that was sent is behind, the others are where they were.
LEMMA ShapeTail ==
    ASSUME NEW left, Shape(left), Head(left) # "COMMIT"
    PROVE  /\ Tail(left) \in Seq(Statements)
           /\ Shape(Tail(left))
           /\ ~Ahead(Tail(left), "BEGIN")
           /\ \A st : Ahead(left, st) /\ st # Head(left) => Ahead(Tail(left), st)
           /\ Len(left) # 1
           /\ Len(Tail(left)) = 1 <=> Head(left) = "Query"
  <1>1. left \in Seq(Statements) /\ Len(left) \in Nat /\ Len(left) >= 1 /\ Head(left) = left[1]
    BY DEF Shape
  <1>2. Len(left) # 1
    <2>1. 1 \in 1..Len(left)
      BY <1>1
    <2>2. left[1] = "COMMIT" <=> 1 = Len(left)
      BY <2>1 DEF Shape
    <2> QED
      BY <1>1, <2>2
  <1>3. /\ Tail(left) \in Seq(Statements)
        /\ Len(Tail(left)) = Len(left) - 1
        /\ \A i \in 1..Len(Tail(left)) : Tail(left)[i] = left[i + 1]
    BY <1>1, <1>2
  <1>4. Shape(Tail(left)) /\ ~Ahead(Tail(left), "BEGIN")
    <2>1. ASSUME NEW i \in 1..Len(Tail(left))
          PROVE  /\ Tail(left)[i] # "BEGIN"
                 /\ Tail(left)[i] = "Query" <=> i = Len(Tail(left)) - 1
                 /\ Tail(left)[i] = "COMMIT" <=> i = Len(Tail(left))
      <3>1. i + 1 \in 1..Len(left) /\ i + 1 # 1 /\ Tail(left)[i] = left[i + 1]
        BY <1>1, <1>3
      <3>2. /\ left[i + 1] = "BEGIN" => i + 1 = 1
            /\ left[i + 1] = "Query" <=> i + 1 = Len(left) - 1
            /\ left[i + 1] = "COMMIT" <=> i + 1 = Len(left)
        BY <3>1 DEF Shape
      <3>3. /\ i = Len(Tail(left)) - 1 <=> i + 1 = Len(left) - 1
            /\ i = Len(Tail(left)) <=> i + 1 = Len(left)
        BY <1>1, <1>3
      <3> QED
        BY <3>1, <3>2, <3>3
    <2>2. Len(Tail(left)) >= 1
      BY <1>1, <1>2, <1>3
    <2> QED
      BY <1>3, <2>1, <2>2 DEF Shape, Ahead
  <1>5. ASSUME NEW st, Ahead(left, st), st # Head(left)
        PROVE  Ahead(Tail(left), st)
    <2>1. PICK i \in 1..Len(left) : left[i] = st
      BY <1>5 DEF Ahead
    <2>2. i # 1
      BY <1>1, <1>5, <2>1
    <2>3. i - 1 \in 1..Len(Tail(left)) /\ Tail(left)[i - 1] = st
      BY <1>1, <1>3, <2>1, <2>2
    <2> QED
      BY <2>3 DEF Ahead
  <1>6. Len(Tail(left)) = 1 <=> Head(left) = "Query"
    <2>1. 1 \in 1..Len(left)
      BY <1>1
    <2>2. left[1] = "Query" <=> 1 = Len(left) - 1
      BY <2>1 DEF Shape
    <2> QED
      BY <1>1, <1>3, <2>2
  <1> QED
    BY <1>2, <1>3, <1>4, <1>5, <1>6

\* The last statement is COMMIT, and only the last.
LEMMA ShapeCommit ==
    ASSUME NEW left, Shape(left)
    PROVE  Head(left) = "COMMIT" <=> Len(left) = 1
  <1>1. left \in Seq(Statements) /\ Len(left) \in Nat /\ Head(left) = left[1] /\ 1 \in 1..Len(left)
    BY DEF Shape
  <1>2. left[1] = "COMMIT" <=> 1 = Len(left)
    BY <1>1 DEF Shape
  <1> QED
    BY <1>1, <1>2

\* A transaction that has begun and not come to its query.
Opening(s) ==
    /\ s \in Seq(Statements)
    /\ Len(s) >= 1
    /\ s[1] = "BEGIN"
    /\ \A i \in 1..Len(s) : s[i] \notin {"Query", "COMMIT"} /\ (s[i] = "BEGIN" => i = 1)

\* What is said of a sequence of statements is said of a longer one.
LEMMA AheadFurther ==
    ASSUME NEW s \in Seq(Statements), NEW t \in Seq(Statements), NEW st, Ahead(s, st)
    PROVE  Ahead(s \o t, st)
  <1>1. PICK i \in 1..Len(s) : s[i] = st
    BY DEF Ahead
  <1>2. i \in 1..Len(s \o t) /\ (s \o t)[i] = st
    BY <1>1
  <1> QED
    BY <1>2 DEF Ahead

\* One more statement, if it is wanted.
LEMMA OpeningIf ==
    ASSUME NEW s, Opening(s), NEW condition \in BOOLEAN,
           NEW statement \in {"SearchPath", "ReadOnly", "Role", "UserId"}
    PROVE  /\ Opening(s \o If(condition, statement))
           /\ \A st : Ahead(s, st) => Ahead(s \o If(condition, statement), st)
           /\ condition => Ahead(s \o If(condition, statement), statement)
  <1> DEFINE t == If(condition, statement)
  <1>1. s \in Seq(Statements) /\ t \in Seq(Statements)
    <2>1. <<statement>> \in Seq(Statements) /\ <<>> \in Seq(Statements)
      BY DEF Statements
    <2>2. t \in {<<statement>>, <<>>}
      BY DEF If
    <2> QED
      BY <2>1, <2>2 DEF Opening
  <1>2. \A st : Ahead(s, st) => Ahead(s \o t, st)
    BY <1>1, AheadFurther
  <1>3. CASE condition
    <2>1. t = <<statement>>
      BY <1>3 DEF If
    <2>2. /\ Len(s \o t) = Len(s) + 1
          /\ \A i \in 1..Len(s) : (s \o t)[i] = s[i]
          /\ (s \o t)[Len(s) + 1] = statement
      BY <1>1, <2>1
    <2>3. s \o t \in Seq(Statements)
      BY <1>1
    <2>4. Opening(s \o t)
      BY <1>1, <2>2, <2>3 DEF Opening
    <2>5. Ahead(s \o t, statement)
      BY <1>1, <2>2 DEF Ahead
    <2> QED
      BY <1>2, <2>4, <2>5
  <1>4. CASE ~condition
    <2>1. s \o t = s
      BY <1>1, <1>4 DEF If
    <2> QED
      BY <1>2, <1>4, <2>1
  <1> QED
    BY <1>3, <1>4

\* The query and COMMIT close it.
LEMMA OpeningEnds ==
    ASSUME NEW s, Opening(s)
    PROVE  /\ Shape(s \o <<"Query", "COMMIT">>)
           /\ Ahead(s \o <<"Query", "COMMIT">>, "BEGIN")
           /\ \A st : Ahead(s, st) => Ahead(s \o <<"Query", "COMMIT">>, st)
  <1> DEFINE t == <<"Query", "COMMIT">>
  <1>1. s \in Seq(Statements) /\ t \in Seq(Statements) /\ Len(s) \in Nat
    BY DEF Opening, Statements
  <1>2. /\ s \o t \in Seq(Statements)
        /\ Len(s \o t) = Len(s) + 2
        /\ \A i \in 1..Len(s) : (s \o t)[i] = s[i]
        /\ (s \o t)[Len(s) + 1] = "Query"
        /\ (s \o t)[Len(s) + 2] = "COMMIT"
    BY <1>1
  <1> HIDE DEF t
  <1>3. ASSUME NEW i \in 1..Len(s \o t)
        PROVE  /\ (s \o t)[i] = "BEGIN" => i = 1
               /\ (s \o t)[i] = "Query" <=> i = Len(s \o t) - 1
               /\ (s \o t)[i] = "COMMIT" <=> i = Len(s \o t)
    <2>1. CASE i \in 1..Len(s)
      BY <1>1, <1>2, <2>1 DEF Opening
    <2>2. CASE i = Len(s) + 1
      BY <1>1, <1>2, <2>2
    <2>3. CASE i = Len(s) + 2
      BY <1>1, <1>2, <2>3
    <2> QED
      BY <1>1, <1>2, <1>3, <2>1, <2>2, <2>3
  <1>4. Shape(s \o t)
    BY <1>1, <1>2, <1>3 DEF Shape
  <1>5. \A st : Ahead(s, st) => Ahead(s \o t, st)
    BY <1>1, AheadFurther
  <1>6. Ahead(s, "BEGIN")
    BY <1>1 DEF Opening, Ahead
  <1> QED
    BY <1>4, <1>5, <1>6 DEF t

\* What a handler has to send when it starts: one transaction with everything in
\* it, or the query alone.
LEMMA ProgramShape ==
    ASSUME NEW j, j.m \in Message, j.port \in {"grpc", "http"}, Asked(j),
           j.left = Program(j.m, j.port)
    PROVE  /\ InTransaction(j) => Shape(j.left) /\ Untouched(j)
           /\ ~InTransaction(j) => j.left = <<"Query">>
           /\ j.left \in Seq(Statements)
  <1> DEFINE m == j.m
  <1>0. j.port \in {"grpc", "http"} /\ m.readwrite \in BOOLEAN
    BY DEF Message
  <1>1. CASE HttpRow(j)
    <2> DEFINE s == <<"BEGIN", "Role", "UserId">>
    <2>1. j.left = s \o <<"Query", "COMMIT">>
      BY <1>1 DEF HttpRow, RowRpcs, Program, http_row, set_rls_context
    <2>2. Opening(s)
      BY DEF Opening, Statements
    <2>3. s[2] = "Role" /\ s[3] = "UserId" /\ Len(s) = 3
      OBVIOUS
    <2>4. Ahead(s, "Role") /\ Ahead(s, "UserId")
      BY <2>3 DEF Ahead
    <2> HIDE DEF s
    <2>5. InTransaction(j) /\ Shape(j.left) /\ Untouched(j)
      BY <1>1, <2>1, <2>2, <2>4, OpeningEnds DEF Untouched, InTransaction
    <2>6. j.left \in Seq(Statements)
      BY <2>5 DEF Shape
    <2> QED
      BY <2>5, <2>6
  <1>2. CASE m.rpc = "ExecuteSQL" /\ j.port = "http"
    <2> DEFINE s0 == <<"BEGIN", "SearchPath">>
               s1 == s0 \o If(~m.readwrite, "Role")
               s2 == s1 \o If(~m.readwrite, "ReadOnly")
               s3 == s2 \o If(m.user_id # Anonymous, "UserId")
    <2>1. j.left = s3 \o <<"Query", "COMMIT">>
      BY <1>2 DEF RowRpcs, Program, http_execute_sql
    <2>2. Opening(s0)
      BY DEF Opening, Statements
    <2> HIDE DEF s0
    <2>3. Opening(s1)
      BY <1>0, <2>2, OpeningIf
    <2> HIDE DEF s1
    <2>4. Opening(s2) /\ (~m.readwrite => Ahead(s2, "ReadOnly"))
      BY <1>0, <2>3, OpeningIf
    <2> HIDE DEF s2
    <2>5. Opening(s3) /\ (~m.readwrite => Ahead(s3, "ReadOnly"))
      <3>1. (m.user_id # Anonymous) \in BOOLEAN
        OBVIOUS
      <3> QED
        BY <2>4, <3>1, OpeningIf
    <2> HIDE DEF s3
    <2>6. InTransaction(j) /\ Shape(j.left) /\ Untouched(j)
      BY <1>2, <2>1, <2>5, OpeningEnds DEF Untouched, InTransaction, HttpRow, RowRpcs
    <2>7. j.left \in Seq(Statements)
      BY <2>6 DEF Shape
    <2> QED
      BY <2>6, <2>7
  <1>3. CASE m.rpc = "ExecuteSQL" /\ j.port = "grpc"
    <2> DEFINE s0 == <<"BEGIN", "SearchPath">>
               s1 == s0 \o If(~m.readwrite, "ReadOnly")
    <2>1. j.left = s1 \o <<"Query", "COMMIT">>
      BY <1>3 DEF RowRpcs, Program, grpc_execute_sql
    <2>2. Opening(s0)
      BY DEF Opening, Statements
    <2> HIDE DEF s0
    <2>3. Opening(s1) /\ (~m.readwrite => Ahead(s1, "ReadOnly"))
      BY <1>0, <2>2, OpeningIf
    <2> HIDE DEF s1
    <2>4. InTransaction(j) /\ Shape(j.left) /\ Untouched(j)
      BY <1>3, <2>1, <2>3, OpeningEnds DEF Untouched, InTransaction, HttpRow, RowRpcs
    <2>5. j.left \in Seq(Statements)
      BY <2>4 DEF Shape
    <2> QED
      BY <2>4, <2>5
  <1>4. CASE ~InTransaction(j)
    <2>1. j.left = <<"Query">>
      BY <1>4 DEF InTransaction, HttpRow, Program, grpc_row
    <2> QED
      BY <1>4, <2>1 DEF Statements
  <1> QED
    BY <1>0, <1>1, <1>2, <1>3, <1>4 DEF InTransaction, Shape

-----------------------------------------------------------------------------
(* One handler: what each operation leaves it with.                         *)

\* A handler that has answered has its type and no connection.
LEMMA DoneJob ==
    ASSUME NEW j \in Job, NEW code \in Codes
    PROVE  LET k == Done(j, code)
           IN  /\ k \in Job
               /\ k.pc = "done" /\ k.code = code /\ k.conn = NoConn
               /\ k.m = j.m /\ k.port = j.port /\ k.ran = j.ran
               /\ k.inherited = j.inherited /\ k.unkept = j.unkept
  <1>1. <<>> \in Seq(Statements) /\ "done" \in {"idle", "wait", "run", "rollback", "done"}
    OBVIOUS
  <1> QED
    BY <1>1 DEF Done, Job

\* A handler that has sent one of several statements.
LEMMA TailJob ==
    ASSUME NEW j \in Job, Tail(j.left) \in Seq(Statements)
    PROVE  LET k == [j EXCEPT !.left = Tail(@)]
           IN  /\ k \in Job
               /\ k.left = Tail(j.left)
               /\ k.pc = j.pc /\ k.code = j.code /\ k.conn = j.conn
               /\ k.m = j.m /\ k.port = j.port /\ k.ran = j.ran
               /\ k.inherited = j.inherited /\ k.unkept = j.unkept
  BY DEF Job

\* After a statement that is neither the query nor COMMIT the session has what
\* the statement set, unless its transaction has failed.
LEMMA AfterSetup ==
    ASSUME NEW s \in Session, NEW statement \in Statements \ {"Query", "COMMIT"},
           NEW user \in Callers, NEW r \in Requests, NEW writes \in BOOLEAN,
           ~Rejects(s, statement, writes)
    PROVE  LET t == After(s, statement, user, r, writes)
           IN  /\ t \in Session
               /\ t.wrote = s.wrote
               /\ s.tx # "none" \/ statement = "BEGIN" => t.tx # "none"
               /\ t.tx = "open" => s.tx = "open" \/ statement = "BEGIN"
               /\ statement = "Role" /\ t.tx = "open" => t.role = role_of(user)
               /\ statement # "Role" => t.role = s.role
               /\ statement = "UserId" /\ t.tx = "open" => t.uid = user
               /\ statement # "UserId" => t.uid = s.uid
               /\ statement = "ReadOnly" /\ t.tx = "open" => t.readonly
               /\ s.readonly => t.readonly
  <1>1. s.tx \in {"none", "open", "failed"} /\ s.readonly \in BOOLEAN
    BY DEF Session
  <1>2. role_of(user) \in {"owner", "anon", "authenticated"}
    BY DEF role_of
  <1>3. CASE statement = "BEGIN"
    BY <1>1, <1>3 DEF After, Session, Rejects
  <1>4. CASE statement = "SearchPath"
    BY <1>1, <1>4 DEF After, Session, Rejects
  <1>5. CASE statement = "ReadOnly"
    BY <1>1, <1>5 DEF After, Session, Rejects
  <1>6. CASE statement = "Role"
    BY <1>1, <1>2, <1>6 DEF After, Session, Rejects
  <1>7. CASE statement = "UserId"
    BY <1>1, <1>7 DEF After, Session, Rejects
  <1> QED
    BY <1>3, <1>4, <1>5, <1>6, <1>7 DEF Statements

\* When the query comes next nothing else is ahead but COMMIT.
LEMMA QueryNext ==
    ASSUME NEW left, Shape(left), Head(left) = "Query",
           NEW st, st \notin {"Query", "COMMIT"}
    PROVE  ~Ahead(left, st)
  <1>1. left \in Seq(Statements) /\ Len(left) \in Nat /\ Head(left) = left[1] /\ 1 \in 1..Len(left)
    BY DEF Shape
  <1>2. Len(left) = 2
    <2>1. 1 = Len(left) - 1
      BY <1>1 DEF Shape
    <2> QED
      BY <1>1, <2>1
  <1>3. SUFFICES ASSUME NEW i \in 1..Len(left), left[i] = st
                 PROVE  FALSE
    BY DEF Ahead
  <1>4. i = Len(left) - 1 \/ i = Len(left)
    BY <1>2
  <1>5. left[i] = "Query" \/ left[i] = "COMMIT"
    BY <1>4 DEF Shape
  <1> QED
    BY <1>3, <1>5

\* A handler that has sent a statement of its preparation.
LEMMA SetupServes ==
    ASSUME NEW r \in Requests, NEW j \in Job, NEW s \in Session,
           NEW written, NEW kept,
           Serving(r, j, s, written, kept), j.pc = "run",
           Head(j.left) \notin {"Query", "COMMIT"},
           ~Rejects(s, Head(j.left), j.m.writes)
    PROVE  LET k == Advance(j)
               t == After(s, Head(j.left), j.m.user_id, r, j.m.writes)
           IN  /\ k \in Job /\ k.conn = j.conn
               /\ t \in Session /\ t.wrote = s.wrote
               /\ Serving(r, k, t, written, kept)
  <1> DEFINE k == Advance(j)
             st == Head(j.left)
             t == After(s, st, j.m.user_id, r, j.m.writes)
  <1>1. InTransaction(j) /\ Shape(j.left) /\ Fits(j, s)
    BY DEF Serving
  <1>2. st \in Statements /\ j.m.user_id \in Callers /\ j.m.writes \in BOOLEAN
    BY <1>1 DEF Shape, Job, Message
  <1>3. /\ Tail(j.left) \in Seq(Statements)
        /\ Shape(Tail(j.left))
        /\ ~Ahead(Tail(j.left), "BEGIN")
        /\ \A x : Ahead(j.left, x) /\ x # st => Ahead(Tail(j.left), x)
        /\ Len(j.left) # 1
        /\ Len(Tail(j.left)) # 1
    BY <1>1, ShapeTail
  <1>4. k = [j EXCEPT !.left = Tail(@)]
    BY <1>3 DEF Advance
  <1>5. /\ k \in Job
        /\ k.left = Tail(j.left)
        /\ k.pc = j.pc /\ k.code = j.code /\ k.conn = j.conn
        /\ k.m = j.m /\ k.port = j.port /\ k.ran = j.ran
        /\ k.inherited = j.inherited /\ k.unkept = j.unkept
    BY <1>3, <1>4, TailJob
  <1>6. /\ t \in Session
        /\ t.wrote = s.wrote
        /\ s.tx # "none" \/ st = "BEGIN" => t.tx # "none"
        /\ t.tx = "open" => s.tx = "open" \/ st = "BEGIN"
        /\ st = "Role" /\ t.tx = "open" => t.role = role_of(j.m.user_id)
        /\ st # "Role" => t.role = s.role
        /\ st = "UserId" /\ t.tx = "open" => t.uid = j.m.user_id
        /\ st # "UserId" => t.uid = s.uid
        /\ st = "ReadOnly" /\ t.tx = "open" => t.readonly
        /\ s.readonly => t.readonly
    BY <1>2, AfterSetup
  <1> HIDE DEF k, t, st
  <1>7. HttpRow(k) = HttpRow(j) /\ InTransaction(k) = InTransaction(j)
    BY <1>5 DEF HttpRow, InTransaction
  <1>8. Fits(k, t)
    <2>1. CASE Ahead(j.left, "BEGIN")
      <3>1. Untouched(j)
        BY <1>1, <2>1 DEF Serving
      <3>2. st = "BEGIN"
        BY <1>3, <2>1
      <3> QED
        BY <1>3, <1>5, <1>6, <1>7, <3>1, <3>2 DEF Fits, Untouched
    <2>2. CASE ~Ahead(j.left, "BEGIN")
      <3>1. 1 \in 1..Len(j.left) /\ j.left[1] = st
        BY <1>1 DEF Shape, st
      <3>2. st # "BEGIN"
        BY <2>2, <3>1 DEF Ahead
      <3> QED
        BY <1>1, <1>3, <1>5, <1>6, <1>7, <2>2, <3>2 DEF Fits
    <2> QED
      BY <2>1, <2>2
  <1>9. r \notin written
    BY <1>3 DEF Serving, WritesFit
  <1>10. Serving(r, k, t, written, kept)
    BY <1>1, <1>3, <1>5, <1>7, <1>8, <1>9 DEF Serving, WritesFit, Asked, RanFits
  <1> QED
    BY <1>5, <1>6, <1>10 DEF k, t, st

\* The query of a transaction, answered: the row request has run as its caller.
LEMMA QueryServes ==
    ASSUME NEW r \in Requests, NEW j \in Job, NEW s \in Session,
           NEW written, NEW kept,
           Serving(r, j, s, written, kept), j.pc = "run", InTransaction(j),
           Head(j.left) = "Query", ~Rejects(s, "Query", j.m.writes),
           NEW code \in Found(j),
           NEW new \in SUBSET {r}, r \in new => j.m.writes /\ code = "OK",
           j.m.writes /\ code = "OK" => r \in new
    PROVE  LET ran == IF j.m.rpc \in RowRpcs THEN [role |-> s.role, uid |-> s.uid] ELSE NotRun
               k == Advance([j EXCEPT !.code = code, !.ran = ran])
               t == [s EXCEPT !.wrote = @ \cup new]
           IN  /\ s.tx = "open"
               /\ k \in Job /\ k.conn = j.conn
               /\ t \in Session /\ t.wrote = s.wrote \cup new
               /\ Serving(r, k, t, new, kept)
  <1> DEFINE ran == IF j.m.rpc \in RowRpcs THEN [role |-> s.role, uid |-> s.uid] ELSE NotRun
             i == [j EXCEPT !.code = code, !.ran = ran]
             k == Advance(i)
             t == [s EXCEPT !.wrote = @ \cup new]
  <1>1. Shape(j.left) /\ Fits(j, s)
    BY DEF Serving
  <1>2. j.m.writes \in BOOLEAN /\ j.m.readwrite \in BOOLEAN /\ j.m.user_id \in Callers
    BY DEF Job, Message
  <1>3. \A st : st \notin {"Query", "COMMIT"} => ~Ahead(j.left, st)
    BY <1>1, QueryNext
  <1>4. s.tx = "open"
    <2>1. s.tx \in {"none", "open", "failed"} /\ s.tx # "none"
      BY <1>1, <1>3 DEF Fits, Session
    <2> QED
      BY <2>1 DEF Rejects
  <1>5. new \in SUBSET {r} /\ (r \in new <=> j.m.writes /\ code = "OK")
    OBVIOUS
  <1>6. /\ t \in Session
        /\ t.wrote = s.wrote \cup new
        /\ t.tx = s.tx /\ t.role = s.role /\ t.uid = s.uid /\ t.readonly = s.readonly
    BY <1>5 DEF Session
  <1>7. code \in Codes /\ ran \in [role : {"none", "owner", "anon", "authenticated"}, uid : Callers]
    BY DEF Found, Codes, NotRun, Callers, Session
  <1>8. /\ i \in Job
        /\ i.left = j.left /\ i.pc = j.pc /\ i.code = code /\ i.conn = j.conn
        /\ i.m = j.m /\ i.port = j.port /\ i.ran = ran
        /\ i.inherited = j.inherited /\ i.unkept = j.unkept
    BY <1>7 DEF Job
  <1>9. /\ Tail(j.left) \in Seq(Statements)
        /\ Shape(Tail(j.left))
        /\ ~Ahead(Tail(j.left), "BEGIN")
        /\ Len(j.left) # 1
        /\ Len(Tail(j.left)) = 1
    BY <1>1, ShapeTail
  <1> HIDE DEF i
  <1>10. k = [i EXCEPT !.left = Tail(@)]
    BY <1>8, <1>9 DEF Advance
  <1>11. /\ k \in Job
         /\ k.left = Tail(j.left)
         /\ k.pc = "run" /\ k.code = code /\ k.conn = j.conn
         /\ k.m = j.m /\ k.port = j.port /\ k.ran = ran
         /\ k.inherited = j.inherited /\ k.unkept = j.unkept
    BY <1>8, <1>9, <1>10, TailJob
  <1> HIDE DEF k, t
  <1>12. HttpRow(k) = HttpRow(j) /\ InTransaction(k)
    BY <1>11 DEF HttpRow, InTransaction
  <1>13. Fits(k, t)
    BY <1>1, <1>3, <1>6, <1>11, <1>12 DEF Fits
  <1>14. RanFits(k)
    BY <1>1, <1>3, <1>4, <1>11, <1>12 DEF RanFits, Fits, HttpRow
  <1>15. WritesFit(r, k, new, kept)
    <2>1. j.m.writes /\ j.m.rpc = "ExecuteSQL" => j.m.readwrite
      BY <1>1, <1>2, <1>3, <1>4 DEF Fits, Rejects, HttpRow, RowRpcs
    <2> QED
      BY <1>5, <1>9, <1>11, <1>12, <2>1 DEF WritesFit
  <1>16. Asked(k)
    BY <1>11 DEF Serving, Asked
  <1>17. j.m.writes /\ code = "OK" => r \in t.wrote
    BY <1>5, <1>6
  <1>18. Serving(r, k, t, new, kept)
    BY <1>9, <1>11, <1>12, <1>13, <1>14, <1>15, <1>16, <1>17 DEF Serving
  <1> QED
    BY <1>4, <1>6, <1>11, <1>18 DEF k, i, t

\* What a handler may claim it may also claim when less is written or more is kept.
LEMMA FewerWrites ==
    ASSUME NEW r, NEW j, NEW s, NEW written, NEW kept,
           Serving(r, j, s, written, kept),
           NEW written2, r \in written2 => r \in written,
           NEW kept2, r \in kept => r \in kept2
    PROVE  Serving(r, j, s, written2, kept2)
  BY DEF Serving, WritesFit

\* COMMIT makes the writes of the transaction durable.
LEMMA CommitServes ==
    ASSUME NEW r \in Requests, NEW j \in Job, NEW s \in Session,
           NEW written, NEW kept,
           Serving(r, j, s, written, kept), j.pc = "run", Head(j.left) = "COMMIT"
    PROVE  LET k == Advance(j)
           IN  /\ k \in Job /\ k.conn = NoConn
               /\ After(s, "COMMIT", j.m.user_id, r, j.m.writes) = Fresh
               /\ Durable(s, "COMMIT", r, j.m.writes) = s.wrote
               /\ \A u : Serving(r, k, u, written, kept \cup s.wrote)
  <1> DEFINE k == Advance(j)
  <1>1. InTransaction(j) /\ Shape(j.left)
    <2>1. Head(<<"Query">>) # "COMMIT"
      OBVIOUS
    <2> QED
      BY <2>1 DEF Serving
  <1>2. Len(j.left) = 1
    BY <1>1, ShapeCommit
  <1>3. k = Done(j, j.code) /\ j.code \in Codes
    BY <1>2 DEF Advance, Job
  <1>4. /\ k \in Job
        /\ k.pc = "done" /\ k.code = j.code /\ k.conn = NoConn
        /\ k.m = j.m /\ k.port = j.port /\ k.ran = j.ran
        /\ k.inherited = j.inherited /\ k.unkept = j.unkept
    BY <1>3, DoneJob
  <1> HIDE DEF k
  <1>5. HttpRow(k) = HttpRow(j) /\ InTransaction(k)
    BY <1>1, <1>4 DEF HttpRow, InTransaction
  <1>6. j.code = "OK" /\ j.m.writes => r \in s.wrote
    BY <1>1, <1>2 DEF Serving
  <1>7. WritesFit(r, k, written, kept \cup s.wrote)
    BY <1>4, <1>5, <1>6 DEF Serving, WritesFit
  <1>8. Asked(k) /\ RanFits(k)
    BY <1>4, <1>5 DEF Serving, Asked, RanFits
  <1>9. \A u : Serving(r, k, u, written, kept \cup s.wrote)
    BY <1>4, <1>7, <1>8 DEF Serving
  <1>10. /\ After(s, "COMMIT", j.m.user_id, r, j.m.writes) = Fresh
         /\ Durable(s, "COMMIT", r, j.m.writes) = s.wrote
    BY DEF After, Durable
  <1> QED
    BY <1>4, <1>9, <1>10 DEF k

\* A statement that came back with an error: only a query that opened no transaction
\* may have written something that the caller is not told of.
LEMMA FailedServes ==
    ASSUME NEW r \in Requests, NEW j \in Job, NEW s \in Session,
           NEW written, NEW kept,
           Serving(r, j, s, written, kept), j.pc = "run",
           NEW k \in Failed(j, Head(j.left))
    PROVE  /\ k \in Job /\ k.conn \in {j.conn, NoConn}
           /\ \A u, w : (r \in w => r \in written \/ (~InTransaction(j) /\ j.m.writes)) =>
                Serving(r, k, u, w, kept)
  <1>1. Asked(j) /\ RanFits(j)
    BY DEF Serving
  <1>2. j.code \in Codes /\ j.m.writes \in BOOLEAN
    BY DEF Job, Message
  <1>3. CASE Head(j.left) = "Query" /\ InTransaction(j)
    <2>1. PICK code \in QueryErrors(j) : k = [j EXCEPT !.pc = "rollback", !.code = code]
      BY <1>3 DEF Failed
    <2>2. code \in {"InvalidArgument", "PermissionDenied", "Internal"}
      BY <1>3 DEF QueryErrors, InTransaction, HttpRow, RowRpcs
    <2>3. "rollback" \in {"idle", "wait", "run", "rollback", "done"} /\ code \in Codes
      BY <2>2 DEF Codes
    <2>4. /\ k \in Job
          /\ k.pc = "rollback" /\ k.code = code /\ k.conn = j.conn
          /\ k.m = j.m /\ k.port = j.port /\ k.ran = j.ran
      BY <2>1, <2>3 DEF Job
    <2>5. HttpRow(k) = HttpRow(j) /\ InTransaction(k)
      BY <1>3, <2>4 DEF HttpRow, InTransaction
    <2>6. Shape(j.left) /\ Fits(j, s)
      BY <1>3 DEF Serving
    <2>7. r \notin written
      BY <1>3, <2>6, ShapeCommit DEF Serving, WritesFit
    <2>8. j.conn # NoConn
      BY DEF Serving
    <2>9. Asked(k) /\ RanFits(k) /\ WritesFit(r, k, {}, kept)
      BY <1>1, <2>4, <2>5 DEF Asked, RanFits, WritesFit
    <2>10. \A u : Serving(r, k, u, {}, kept)
      BY <2>2, <2>4, <2>5, <2>8, <2>9 DEF Serving
    <2>11. \A u, w : r \notin w => Serving(r, k, u, w, kept)
      BY <2>10, FewerWrites
    <2> QED
      BY <1>3, <2>4, <2>6, <2>7, <2>11
  <1>4. CASE Head(j.left) = "Query" /\ ~InTransaction(j)
    <2>1. PICK code \in QueryErrors(j) : k = Done(j, code)
      BY <1>4 DEF Failed
    <2>2. code = "Internal" \/ (code = "OK" /\ j.m.rpc = "ListTables")
      BY <1>1, <1>4 DEF QueryErrors, InTransaction, HttpRow, Job, Asked
    <2>3. code \in Codes
      BY <2>2 DEF Codes
    <2>4. /\ k \in Job
          /\ k.pc = "done" /\ k.code = code /\ k.conn = NoConn
          /\ k.m = j.m /\ k.port = j.port /\ k.ran = j.ran
      BY <2>1, <2>3, DoneJob
    <2>5. ~HttpRow(k) /\ ~InTransaction(k) /\ k.m.rpc # "ExecuteSQL"
      BY <1>4, <2>4 DEF HttpRow, InTransaction
    <2>6. r \notin written
      BY <1>4 DEF Serving, WritesFit
    <2>7. k.m.writes => code = "Internal"
      BY <1>1, <2>2, <2>4 DEF Asked, Writers
    <2>8. Asked(k) /\ RanFits(k) /\ (j.m.writes => WritesFit(r, k, {r}, kept)) /\ WritesFit(r, k, {}, kept)
      BY <1>1, <2>4, <2>5, <2>7 DEF Asked, RanFits, WritesFit
    <2>9. \A u : (j.m.writes => Serving(r, k, u, {r}, kept)) /\ Serving(r, k, u, {}, kept)
      BY <2>4, <2>8 DEF Serving
    <2>10. \A u, w : (r \in w => j.m.writes) => Serving(r, k, u, w, kept)
      BY <2>9, FewerWrites
    <2> QED
      BY <1>4, <2>4, <2>6, <2>10
  <1>5. CASE Head(j.left) # "Query"
    <2>1. InTransaction(j) /\ Shape(j.left) /\ Fits(j, s)
      <3>1. Head(<<"Query">>) = "Query"
        OBVIOUS
      <3> QED
        BY <1>5, <3>1 DEF Serving
    <2>2. CASE Head(j.left) = "COMMIT" /\ HttpRow(j)
      <3> DEFINE i == [j EXCEPT !.unkept = TRUE]
      <3>1. k = Done(i, j.code)
        BY <2>2 DEF Failed
      <3>2. /\ i \in Job
            /\ i.m = j.m /\ i.port = j.port /\ i.ran = j.ran /\ i.unkept
        BY DEF Job
      <3> HIDE DEF i
      <3>3. /\ k \in Job
            /\ k.pc = "done" /\ k.code = j.code /\ k.conn = NoConn
            /\ k.m = j.m /\ k.port = j.port /\ k.ran = j.ran /\ k.unkept
        BY <1>2, <3>1, <3>2, DoneJob
      <3>4. HttpRow(k) /\ InTransaction(k)
        BY <2>2, <3>3 DEF HttpRow, InTransaction
      <3>5. Asked(k) /\ RanFits(k)
        BY <1>1, <2>2, <3>3, <3>4 DEF Asked, RanFits
      <3>6. WritesFit(r, k, written, kept)
        BY <2>1, <3>3 DEF Serving, WritesFit
      <3>7. \A u : Serving(r, k, u, written, kept)
        BY <3>3, <3>5, <3>6 DEF Serving
      <3> QED
        BY <2>1, <3>3, <3>7, FewerWrites
    <2>3. CASE ~(Head(j.left) = "COMMIT" /\ HttpRow(j))
      <3>1. k = Done(j, "Internal")
        BY <1>5, <2>3 DEF Failed
      <3>2. /\ k \in Job
            /\ k.pc = "done" /\ k.code = "Internal" /\ k.conn = NoConn
            /\ k.m = j.m /\ k.port = j.port /\ k.ran = j.ran
        BY <3>1, DoneJob DEF Codes
      <3>3. HttpRow(k) = HttpRow(j) /\ InTransaction(k)
        BY <2>1, <3>2 DEF HttpRow, InTransaction
      <3>4. Asked(k) /\ RanFits(k)
        BY <1>1, <3>2, <3>3 DEF Asked, RanFits
      <3>5. r \in written => ~HttpRow(j)
        BY <2>1, <2>3, ShapeCommit DEF Serving, WritesFit
      <3>6. WritesFit(r, k, written, kept)
        BY <3>2, <3>3, <3>5 DEF Serving, WritesFit
      <3>7. \A u : Serving(r, k, u, written, kept)
        BY <3>2, <3>4, <3>6 DEF Serving
      <3> QED
        BY <2>1, <3>2, <3>7, FewerWrites
    <2> QED
      BY <2>2, <2>3
  <1> QED
    BY <1>3, <1>4, <1>5

\* ROLLBACK is sent and the error is answered: nothing is written.
LEMMA RollbackServes ==
    ASSUME NEW r \in Requests, NEW j \in Job, NEW s, NEW written, NEW kept,
           Serving(r, j, s, written, kept), j.pc = "rollback"
    PROVE  LET k == Done(j, j.code)
           IN  /\ k \in Job /\ k.conn = NoConn
               /\ \A u : Serving(r, k, u, written, kept)
  <1> DEFINE k == Done(j, j.code)
  <1>1. j.code \in Codes
    BY DEF Job
  <1>2. /\ k \in Job
        /\ k.pc = "done" /\ k.code = j.code /\ k.conn = NoConn
        /\ k.m = j.m /\ k.port = j.port /\ k.ran = j.ran
    BY <1>1, DoneJob
  <1> HIDE DEF k
  <1>3. HttpRow(k) = HttpRow(j) /\ r \notin written /\ k.code # "OK"
    BY <1>2 DEF HttpRow, Serving, WritesFit
  <1>4. Asked(k) /\ RanFits(k) /\ WritesFit(r, k, written, kept)
    BY <1>2, <1>3 DEF Serving, Asked, RanFits, WritesFit
  <1> QED
    BY <1>2, <1>4 DEF Serving, k

-----------------------------------------------------------------------------
(* The routes of the gateway.                                               *)

\* The three tables are one.
LEMMA RouteTables ==
    /\ DOMAIN Routes = DOMAIN EngineRoutes \cup DOMAIN AuthRoutes \cup DOMAIN StorageRoutes
    /\ \A name \in DOMAIN EngineRoutes : Routes[name] = EngineRoutes[name]
    /\ \A name \in DOMAIN AuthRoutes : Routes[name] = AuthRoutes[name]
    /\ \A name \in DOMAIN StorageRoutes : Routes[name] = StorageRoutes[name]
  <1>1. /\ DOMAIN EngineRoutes = {"ListRows", "GetRow", "InsertRow", "UpdateRow", "DeleteRow",
             "ListTables", "GetSchema", "GetSchemaTable", "ReloadSchema", "ExecuteSQL",
             "MigratePreview", "MigrateApply"}
        /\ DOMAIN AuthRoutes = {"SignUp", "SignIn", "RefreshToken", "SignOut", "GetUser",
             "DeleteUser", "OAuthInitiate", "OAuthCallback"}
        /\ DOMAIN StorageRoutes = {"CreateBucket", "ListBuckets", "DeleteBucket", "Upload",
             "Download", "DeleteFile", "CreateSignedURL", "ListFiles"}
    BY DEF EngineRoutes, AuthRoutes, StorageRoutes
  <1>2. DOMAIN Routes = (DOMAIN EngineRoutes \cup DOMAIN AuthRoutes) \cup DOMAIN StorageRoutes
    BY DEF Routes
  <1>3. \A name \in DOMAIN EngineRoutes : Routes[name] = EngineRoutes[name]
    BY <1>1 DEF Routes
  <1>4. \A name \in DOMAIN AuthRoutes : Routes[name] = AuthRoutes[name]
    BY <1>1 DEF Routes
  <1>5. \A name \in DOMAIN StorageRoutes : Routes[name] = StorageRoutes[name]
    BY <1>1 DEF Routes
  <1> QED
    BY <1>2, <1>3, <1>4, <1>5

\* The routes, by what a proof needs of them.
LEMMA RouteFacts ==
    ASSUME NEW name \in DOMAIN Routes
    PROVE  /\ Routes[name].ok \in 200..302
           /\ Routes[name].service = "engine" =>
                name \in {"ListRows", "GetRow", "InsertRow", "UpdateRow", "DeleteRow", "ListTables",
                          "GetSchema", "GetSchemaTable", "ReloadSchema", "ExecuteSQL"}
  <1>1. CASE name \in DOMAIN EngineRoutes
    <2>1. name \in {"ListRows", "GetRow", "InsertRow", "UpdateRow", "DeleteRow",
                    "ListTables", "GetSchema", "GetSchemaTable", "ReloadSchema",
                    "ExecuteSQL", "MigratePreview", "MigrateApply"}
      BY <1>1 DEF EngineRoutes
    <2>2. /\ EngineRoutes["ListRows"] = ListRows /\ EngineRoutes["GetRow"] = GetRow
          /\ EngineRoutes["InsertRow"] = InsertRow /\ EngineRoutes["UpdateRow"] = UpdateRow
          /\ EngineRoutes["DeleteRow"] = DeleteRow /\ EngineRoutes["ListTables"] = ListTables
          /\ EngineRoutes["GetSchema"] = GetSchema /\ EngineRoutes["GetSchemaTable"] = GetSchemaTable
          /\ EngineRoutes["ReloadSchema"] = ReloadSchema /\ EngineRoutes["ExecuteSQL"] = ExecuteSQL
          /\ EngineRoutes["MigratePreview"] = MigratePreview /\ EngineRoutes["MigrateApply"] = MigrateApply
      BY DEF EngineRoutes
    <2>3. /\ ListRows.service = "engine" /\ ListRows.ok \in 200..302
          /\ GetRow.service = "engine" /\ GetRow.ok \in 200..302
          /\ InsertRow.service = "engine" /\ InsertRow.ok \in 200..302
          /\ UpdateRow.service = "engine" /\ UpdateRow.ok \in 200..302
          /\ DeleteRow.service = "engine" /\ DeleteRow.ok \in 200..302
          /\ ListTables.service = "engine" /\ ListTables.ok \in 200..302
          /\ GetSchema.service = "engine" /\ GetSchema.ok \in 200..302
          /\ GetSchemaTable.service = "engine" /\ GetSchemaTable.ok \in 200..302
          /\ ReloadSchema.service = "engine" /\ ReloadSchema.ok \in 200..302
          /\ ExecuteSQL.service = "engine" /\ ExecuteSQL.ok \in 200..302
          /\ MigratePreview.service = "engine_http" /\ MigratePreview.ok \in 200..302
          /\ MigrateApply.service = "engine_http" /\ MigrateApply.ok \in 200..302
      BY DEF ListRows, GetRow, InsertRow, UpdateRow, DeleteRow, ListTables,
           GetSchema, GetSchemaTable, ReloadSchema, ExecuteSQL, MigratePreview, MigrateApply, route, Body
    <2> QED
      BY <1>1, <2>1, <2>2, <2>3, RouteTables
  <1>2. CASE name \in DOMAIN AuthRoutes
    <2>1. name \in {"SignUp", "SignIn", "RefreshToken", "SignOut", "GetUser", "DeleteUser",
                    "OAuthInitiate", "OAuthCallback"}
      BY <1>2 DEF AuthRoutes
    <2>2. /\ AuthRoutes["SignUp"] = SignUp /\ AuthRoutes["SignIn"] = SignIn
          /\ AuthRoutes["RefreshToken"] = RefreshToken /\ AuthRoutes["SignOut"] = SignOut
          /\ AuthRoutes["GetUser"] = GetUser /\ AuthRoutes["DeleteUser"] = DeleteUser
          /\ AuthRoutes["OAuthInitiate"] = OAuthInitiate /\ AuthRoutes["OAuthCallback"] = OAuthCallback
      BY DEF AuthRoutes
    <2>3. /\ SignUp.service = "auth" /\ SignUp.ok \in 200..302
          /\ SignIn.service = "auth" /\ SignIn.ok \in 200..302
          /\ RefreshToken.service = "auth" /\ RefreshToken.ok \in 200..302
          /\ SignOut.service = "auth" /\ SignOut.ok \in 200..302
          /\ GetUser.service = "auth" /\ GetUser.ok \in 200..302
          /\ DeleteUser.service = "auth" /\ DeleteUser.ok \in 200..302
          /\ OAuthInitiate.service = "auth_http" /\ OAuthInitiate.ok \in 200..302
          /\ OAuthCallback.service = "auth_http" /\ OAuthCallback.ok \in 200..302
      BY DEF SignUp, SignIn, RefreshToken, SignOut, GetUser, DeleteUser,
           OAuthInitiate, OAuthCallback, route, Body, requireAuth
    <2> QED
      BY <1>2, <2>1, <2>2, <2>3, RouteTables
  <1>3. CASE name \in DOMAIN StorageRoutes
    <2>1. name \in {"CreateBucket", "ListBuckets", "DeleteBucket", "Upload", "Download",
                    "DeleteFile", "CreateSignedURL", "ListFiles"}
      BY <1>3 DEF StorageRoutes
    <2>2. /\ StorageRoutes["CreateBucket"] = CreateBucket /\ StorageRoutes["ListBuckets"] = ListBuckets
          /\ StorageRoutes["DeleteBucket"] = DeleteBucket /\ StorageRoutes["Upload"] = Upload
          /\ StorageRoutes["Download"] = Download /\ StorageRoutes["DeleteFile"] = DeleteFile
          /\ StorageRoutes["CreateSignedURL"] = CreateSignedURL /\ StorageRoutes["ListFiles"] = ListFiles
      BY DEF StorageRoutes
    <2>3. /\ CreateBucket.service = "storage" /\ CreateBucket.ok \in 200..302
          /\ ListBuckets.service = "storage" /\ ListBuckets.ok \in 200..302
          /\ DeleteBucket.service = "storage" /\ DeleteBucket.ok \in 200..302
          /\ Upload.service = "storage" /\ Upload.ok \in 200..302
          /\ Download.service = "storage" /\ Download.ok \in 200..302
          /\ DeleteFile.service = "storage" /\ DeleteFile.ok \in 200..302
          /\ CreateSignedURL.service = "storage" /\ CreateSignedURL.ok \in 200..302
          /\ ListFiles.service = "storage" /\ ListFiles.ok \in 200..302
      BY DEF CreateBucket, ListBuckets, DeleteBucket, Upload, Download, DeleteFile,
           CreateSignedURL, ListFiles, route, Body, requireAuth
    <2> QED
      BY <1>3, <2>1, <2>2, <2>3, RouteTables
  <1> QED
    BY <1>1, <1>2, <1>3, RouteTables

-----------------------------------------------------------------------------
(* From one handler to the system.                                          *)

\* The state every lemma below starts from.
LEMMA Unfold ==
    ASSUME IInv, NEW r \in Requests
    PROVE  /\ JobInv(r) /\ CallInv(r)
           /\ job[r] \in Job /\ call[r] \in Call
           /\ job[r].pc \in {"run", "rollback"} =>
                /\ job[r].conn \in Conns
                /\ session[job[r].conn] \in Session
                /\ call[r].pc \in {"calling", "direct"}
  <1>1. /\ JobInv(r) /\ CallInv(r)
        /\ job[r] \in Job /\ call[r] \in Call
        /\ session \in [Conns -> Session]
    BY DEF IInv, TypeOK, EngineTypeOK
  <1>2. ASSUME job[r].pc \in {"run", "rollback"}
        PROVE  /\ job[r].conn \in Conns
               /\ session[job[r].conn] \in Session
               /\ call[r].pc \in {"calling", "direct"}
    <2>1. job[r].conn # NoConn /\ job[r].conn \in Conns \cup {NoConn}
      BY <1>1, <1>2 DEF JobInv, Serving, Job
    <2>2. call[r].pc \in {"idle", "calling", "direct", "answered"}
      BY <1>1 DEF Call
    <2> QED
      BY <1>1, <1>2, <2>1, <2>2 DEF CallInv, CallFits
  <1> QED
    BY <1>1, <1>2

\* The holder of a connection takes a step: it may write, commit the transaction
\* of its connection, and keep the connection or give it back.  Nobody else notices.
LEMMA HeldKeeps ==
    ASSUME IInv, NEW r \in Requests, job[r].pc \in {"run", "rollback"},
           NEW k \in Job, k.conn \in {job[r].conn, NoConn},
           NEW t \in Session, NEW new \in SUBSET {r},
           job' = [job EXCEPT ![r] = k],
           session' = [session EXCEPT ![job[r].conn] = t],
           t.wrote \in SUBSET (session[job[r].conn].wrote \cup new),
           rows \in SUBSET rows',
           rows' \in SUBSET (rows \cup session[job[r].conn].wrote \cup new),
           faults' \in 0..MaxFaults,
           UNCHANGED call,
           \A u : (k.conn = job[r].conn => u = t) =>
                     Serving(r, k, u, Written \cup new, rows')
    PROVE  IInv'
  <1> DEFINE c == job[r].conn
             s == session[c]
  <1>1. /\ c \in Conns /\ s \in Session /\ job[r] \in Job
        /\ call[r].pc \in {"calling", "direct"} /\ CallInv(r)
    BY Unfold
  <1>2. /\ session \in [Conns -> Session] /\ job \in [Requests -> Job] /\ rows \in SUBSET Requests
        /\ call \in [Requests -> Call]
        /\ \A q, p \in Requests : q # p /\ job[q].conn # NoConn => job[q].conn # job[p].conn
    BY DEF IInv, TypeOK, EngineTypeOK
  <1>3. c # NoConn
    BY <1>1, EngineRowsAssumption
  <1>4. /\ session' \in [Conns -> Session] /\ session'[c] = t
        /\ \A d \in Conns : d # c => session'[d] = session[d]
    BY <1>1, <1>2
  <1>5. /\ job' \in [Requests -> Job] /\ job'[r] = k
        /\ \A q \in Requests : q # r => job'[q] = job[q]
    BY <1>2
  <1>6. s.wrote \in SUBSET Requests /\ rows' \in SUBSET Requests
    BY <1>1, <1>2 DEF Session
  <1>7. TypeOK'
    BY <1>2, <1>3, <1>4, <1>5, <1>6 DEF TypeOK, EngineTypeOK
  <1>8. Written' \in SUBSET (Written \cup new)
    BY <1>1, <1>4 DEF Written
  <1>9. ASSUME NEW q \in Requests, q # r
        PROVE  JobInv(q)' /\ CallInv(q)'
    <2>1. JobInv(q) /\ CallInv(q) /\ job[q] \in Job
      BY Unfold
    <2>2. (q \in Written' => q \in Written) /\ (q \in rows => q \in rows')
      BY <1>8, <1>9
    <2>3. job'[q] = job[q]
      BY <1>5, <1>9
    <2>4. job[q].conn # c
      BY <1>2, <1>3, <1>9
    <2>5. job[q].pc = "run" => session'[job[q].conn] = session[job[q].conn]
      <3>1. job[q].pc = "run" => job[q].conn \in Conns
        BY Unfold
      <3> QED
        BY <1>4, <2>4, <3>1
    <2>6. Serving(q, job[q], session[job[q].conn], Written', rows')
      BY <2>1, <2>2, FewerWrites DEF JobInv
    <2>7. Serving(q, job'[q], session'[job'[q].conn], Written', rows')
      BY <2>3, <2>5, <2>6 DEF Serving
    <2>8. CallInv(q)'
      BY <2>1, <2>2, <2>3 DEF CallInv, CallFits
    <2> QED
      BY <2>7, <2>8 DEF JobInv
  <1>10. JobInv(r)'
    <2>1. k.conn = c => session'[k.conn] = t
      BY <1>4
    <2>2. Serving(r, k, session'[k.conn], Written \cup new, rows')
      BY <2>1
    <2>3. Serving(r, k, session'[k.conn], Written', rows')
      BY <1>8, <2>2, FewerWrites
    <2> QED
      BY <1>5, <2>3 DEF JobInv
  <1>11. CallInv(r)'
    <2>1. call[r].pc # "answered" /\ call[r].pc # "idle" /\ call[r].status = Unset
      BY <1>1 DEF CallInv, CallFits
    <2>2. call[r].status \notin 400..499
      BY <2>1 DEF Unset
    <2>3. call[r].pc = "calling" =>
            call[r].route \in DOMAIN Routes /\ Routes[call[r].route].service = "engine"
      BY <1>1 DEF CallInv, CallFits
    <2> QED
      BY <1>1, <2>1, <2>2, <2>3 DEF CallInv, CallFits, ClientError
  <1> QED
    BY <1>7, <1>9, <1>10, <1>11 DEF IInv

\* A statement of the preparation (Setup).
LEMMA SetupKeeps ==
    ASSUME IInv, NEW r \in Requests, Setup(r), UNCHANGED call
    PROVE  IInv'
  <1> DEFINE j == job[r]
             s == session[j.conn]
             k == Advance(j)
             t == After(s, Head(j.left), j.m.user_id, r, j.m.writes)
  <1>1. /\ j.pc = "run" /\ Head(j.left) \notin {"Query", "COMMIT"}
        /\ ~Rejects(s, Head(j.left), j.m.writes)
        /\ session' = [session EXCEPT ![j.conn] = t]
        /\ job' = [job EXCEPT ![r] = k]
        /\ rows' = rows /\ faults' = faults
    BY DEF Setup
  <1>2. /\ j \in Job /\ s \in Session
        /\ Serving(r, j, s, Written, rows)
    BY <1>1, Unfold DEF JobInv
  <1>4. /\ k \in Job /\ k.conn = j.conn
        /\ t \in Session /\ t.wrote = s.wrote
        /\ Serving(r, k, t, Written, rows)
    BY <1>1, <1>2, SetupServes
  <1>5. faults \in 0..MaxFaults
    BY DEF IInv, TypeOK, EngineTypeOK
  <1> HIDE DEF k, t
  <1>6. \A u : u = t => Serving(r, k, u, Written \cup {}, rows')
    BY <1>1, <1>4 DEF Serving, WritesFit
  <1>7. {} \in SUBSET {r}
    OBVIOUS
  <1>8. t.wrote \in SUBSET (s.wrote \cup {})
    BY <1>4
  <1> QED
    BY <1>1, <1>4, <1>5, <1>6, <1>7, <1>8, HeldKeeps

\* The query succeeds (Query).
LEMMA QueryKeeps ==
    ASSUME IInv, NEW r \in Requests, Query(r), UNCHANGED call
    PROVE  IInv'
  <1> DEFINE j == job[r]
             s == session[j.conn]
             ran == IF j.m.rpc \in RowRpcs THEN [role |-> s.role, uid |-> s.uid] ELSE NotRun
  <1>1. /\ j.pc = "run" /\ Head(j.left) = "Query" /\ ~Rejects(s, "Query", j.m.writes)
        /\ faults' = faults
    BY DEF Query, At
  <1>2. PICK code \in Found(j) :
          LET writes == j.m.writes /\ code = "OK"
          IN  /\ session' = [session EXCEPT ![j.conn] = After(s, "Query", j.m.user_id, r, writes)]
              /\ rows' = rows \cup Durable(s, "Query", r, writes)
              /\ job' = [job EXCEPT ![r] = Advance([j EXCEPT !.code = code, !.ran = ran])]
    BY DEF Query
  <1> DEFINE writes == j.m.writes /\ code = "OK"
             k == Advance([j EXCEPT !.code = code, !.ran = ran])
             t == After(s, "Query", j.m.user_id, r, writes)
             durable == Durable(s, "Query", r, writes)
             new == IF writes THEN {r} ELSE {}
  <1>3. /\ j \in Job /\ s \in Session
        /\ Serving(r, j, s, Written, rows)
    BY <1>1, Unfold DEF JobInv
  <1>4. new \in SUBSET {r} /\ (new # {} <=> writes)
    OBVIOUS
  <1>5. faults' \in 0..MaxFaults
    BY <1>1 DEF IInv, TypeOK, EngineTypeOK
  <1>6. /\ session' = [session EXCEPT ![j.conn] = t]
        /\ rows' = rows \cup durable
        /\ job' = [job EXCEPT ![r] = k]
    BY <1>2
  <1>7. /\ k \in Job /\ k.conn \in {j.conn, NoConn}
        /\ t \in Session /\ t.wrote \in SUBSET (s.wrote \cup new)
        /\ durable \in SUBSET new
        /\ r \notin Written
        /\ \A u : (k.conn = j.conn => u = t) => Serving(r, k, u, new, rows')
    <2> DEFINE t0 == [s EXCEPT !.wrote = @ \cup new]
               durable0 == IF s.tx = "none" THEN new ELSE {}
    <2>0. t \in {t0, s} /\ (s.tx = "open" => t = t0) /\ durable = durable0
      <3>1. (s.tx = "open" /\ writes => t = t0) /\ (~(s.tx = "open" /\ writes) => t = s)
        BY DEF After
      <3>2. ~writes => t0 = s
        BY <1>3 DEF Session
      <3>3. durable = durable0
        BY DEF Durable
      <3> QED
        BY <3>1, <3>2, <3>3
    <2> HIDE DEF t, durable
    <2>1. CASE InTransaction(j)
      <3> HIDE DEF new
      <3>1. /\ s.tx = "open"
            /\ k \in Job /\ k.conn = j.conn
            /\ t0 \in Session /\ t0.wrote = s.wrote \cup new
            /\ Serving(r, k, t0, new, rows)
        <4>1. /\ new \in SUBSET {r}
              /\ r \in new => j.m.writes /\ code = "OK"
              /\ j.m.writes /\ code = "OK" => r \in new
          BY DEF new
        <4> QED
          BY <1>1, <1>3, <2>1, <4>1, QueryServes
      <3>2. r \notin Written
        BY <1>1, <1>3, <2>1, ShapeCommit DEF Serving, WritesFit
      <3> HIDE DEF k, t0
      <3>3. t = t0 /\ durable = {}
        BY <2>0, <3>1
      <3>4. Serving(r, k, t, new, rows')
        BY <1>6, <3>1, <3>3
      <3> QED
        BY <3>1, <3>2, <3>3, <3>4
    <2>2. CASE ~InTransaction(j)
      <3> DEFINE i == [j EXCEPT !.code = code, !.ran = ran]
      <3>1. code \in Codes /\ ran \in [role : {"none", "owner", "anon", "authenticated"}, uid : Callers]
        BY <1>3 DEF Found, Codes, NotRun, Callers, Session
      <3>2. /\ i \in Job
            /\ i.left = j.left /\ i.pc = j.pc /\ i.code = code
            /\ i.m = j.m /\ i.port = j.port /\ i.inherited = j.inherited
        BY <1>3, <3>1 DEF Job
      <3>3. k = Advance(i)
        OBVIOUS
      <3> HIDE DEF i, k
      <3>4. k = Done(i, code)
        <4>1. j.left = <<"Query">>
          BY <1>1, <1>3, <2>2 DEF Serving
        <4> QED
          BY <3>2, <3>3, <4>1 DEF Advance
      <3>5. /\ k \in Job
            /\ k.pc = "done" /\ k.code = code /\ k.conn = NoConn
            /\ k.m = j.m /\ k.port = j.port /\ k.inherited = j.inherited
        BY <3>1, <3>2, <3>4, DoneJob
      <3>6. /\ new \in SUBSET {r}
            /\ r \in new => j.m.writes /\ code = "OK"
            /\ j.m.writes /\ code = "OK" => r \in new
        BY DEF new
      <3> HIDE DEF new
      <3>7. j.m.writes /\ code = "OK" /\ s.tx = "none" => r \in rows'
        BY <1>6, <2>0, <3>6
      <3>8. r \notin Written /\ Asked(j) /\ (~j.inherited => s.tx = "none")
        BY <1>1, <1>3, <2>2 DEF Serving, WritesFit
      <3>9. ~HttpRow(k) /\ ~InTransaction(k) /\ k.m.rpc # "ExecuteSQL"
        BY <2>2, <3>5 DEF HttpRow, InTransaction
      <3>10. Asked(k) /\ RanFits(k)
        BY <3>5, <3>8, <3>9 DEF Asked, RanFits
      <3>11. WritesFit(r, k, new, rows')
        BY <3>5, <3>6, <3>7, <3>8, <3>9 DEF WritesFit
      <3>12. \A u : Serving(r, k, u, new, rows')
        BY <3>5, <3>10, <3>11 DEF Serving
      <3>13. durable \in SUBSET new
        BY <2>0
      <3>14. t0 \in Session /\ t0.wrote = s.wrote \cup new
        BY <1>3, <3>6 DEF Session
      <3> HIDE DEF t0
      <3>15. t \in Session /\ t.wrote \in SUBSET (s.wrote \cup new)
        BY <1>3, <2>0, <3>14
      <3> QED
        BY <3>5, <3>8, <3>13, <3>15, <3>12
    <2> QED
      BY <2>1, <2>2
  <1> HIDE DEF k, t, durable, new, writes
  <1>8. \A u : (k.conn = j.conn => u = t) => Serving(r, k, u, Written \cup new, rows')
    BY <1>4, <1>7 DEF Serving, WritesFit
  <1>9. rows \in SUBSET rows' /\ rows' \in SUBSET (rows \cup s.wrote \cup new)
    BY <1>6, <1>7
  <1> QED
    BY <1>1, <1>4, <1>5, <1>6, <1>7, <1>8, <1>9, HeldKeeps

\* COMMIT succeeds (Commit).
LEMMA CommitKeeps ==
    ASSUME IInv, NEW r \in Requests, Commit(r), UNCHANGED call
    PROVE  IInv'
  <1> DEFINE j == job[r]
             s == session[j.conn]
             k == Advance(j)
  <1>1. /\ j.pc = "run" /\ Head(j.left) = "COMMIT"
        /\ session' = [session EXCEPT ![j.conn] = After(s, "COMMIT", j.m.user_id, r, j.m.writes)]
        /\ rows' = rows \cup Durable(s, "COMMIT", r, j.m.writes)
        /\ job' = [job EXCEPT ![r] = k]
        /\ faults' = faults
    BY DEF Commit, At
  <1>2. /\ j \in Job /\ s \in Session
        /\ Serving(r, j, s, Written, rows)
    BY <1>1, Unfold DEF JobInv
  <1>4. /\ k \in Job /\ k.conn = NoConn
        /\ After(s, "COMMIT", j.m.user_id, r, j.m.writes) = Fresh
        /\ Durable(s, "COMMIT", r, j.m.writes) = s.wrote
        /\ \A u : Serving(r, k, u, Written, rows \cup s.wrote)
    BY <1>1, <1>2, CommitServes
  <1>5. faults' \in 0..MaxFaults /\ Fresh \in Session /\ Fresh.wrote = {}
    BY <1>1 DEF IInv, TypeOK, EngineTypeOK, Fresh, Session, Callers
  <1> HIDE DEF k
  <1>6. \A u : Serving(r, k, u, Written \cup {}, rows')
    BY <1>1, <1>4 DEF Serving, WritesFit
  <1>7. {} \in SUBSET {r}
    OBVIOUS
  <1>8. Fresh.wrote \in SUBSET (s.wrote \cup {}) /\ rows' \in SUBSET (rows \cup s.wrote \cup {})
    BY <1>1, <1>4, <1>5
  <1>9. rows \in SUBSET rows' /\ session' = [session EXCEPT ![j.conn] = Fresh]
    BY <1>1, <1>4
  <1> QED
    BY <1>1, <1>4, <1>5, <1>6, <1>7, <1>8, <1>9, HeldKeeps

\* ROLLBACK after a failed query (Rollback).
LEMMA RollbackKeeps ==
    ASSUME IInv, NEW r \in Requests, Rollback(r), UNCHANGED call
    PROVE  IInv'
  <1> DEFINE j == job[r]
             s == session[j.conn]
             k == Done(j, j.code)
  <1>1. /\ j.pc = "rollback"
        /\ session' = [session EXCEPT ![j.conn] = Fresh]
        /\ job' = [job EXCEPT ![r] = k]
        /\ rows' = rows /\ faults' = faults
    BY DEF Rollback
  <1>2. /\ j \in Job
        /\ Serving(r, j, s, Written, rows)
    BY <1>1, Unfold DEF JobInv
  <1>4. /\ k \in Job /\ k.conn = NoConn
        /\ \A u : Serving(r, k, u, Written, rows)
    BY <1>1, <1>2, RollbackServes
  <1>5. faults' \in 0..MaxFaults /\ Fresh \in Session /\ Fresh.wrote = {}
    BY <1>1 DEF IInv, TypeOK, EngineTypeOK, Fresh, Session, Callers
  <1> HIDE DEF k
  <1>6. \A u : Serving(r, k, u, Written \cup {}, rows')
    BY <1>1, <1>4 DEF Serving, WritesFit
  <1>7. {} \in SUBSET {r}
    OBVIOUS
  <1>8. Fresh.wrote \in SUBSET (s.wrote \cup {})
    BY <1>5
  <1> QED
    BY <1>1, <1>4, <1>5, <1>6, <1>7, <1>8, HeldKeeps

\* A statement comes back with an error (StatementFails).
LEMMA StatementFailsKeeps ==
    ASSUME IInv, NEW r \in Requests, StatementFails(r), UNCHANGED call
    PROVE  IInv'
  <1> DEFINE j == job[r]
             s == session[j.conn]
             t == AfterError(s, Head(j.left))
  <1>1. /\ j.pc = "run"
        /\ session' = [session EXCEPT ![j.conn] = t]
        /\ rows' = rows
    BY DEF StatementFails
  <1>2. PICK k \in Failed(j, Head(j.left)) : job' = [job EXCEPT ![r] = k]
    BY DEF StatementFails
  <1>3. faults' \in 0..MaxFaults
    <2> DEFINE expected == Head(j.left) = "Query" \/ Rejects(s, Head(j.left), j.m.writes)
    <2>1. (expected \/ faults < MaxFaults) /\ faults' = faults + (IF expected THEN 0 ELSE 1)
      BY DEF StatementFails
    <2>2. faults \in 0..MaxFaults
      BY DEF IInv, TypeOK, EngineTypeOK
    <2> HIDE DEF expected
    <2> QED
      BY <2>1, <2>2, EngineRowsAssumption
  <1>4. /\ j \in Job /\ s \in Session
        /\ Serving(r, j, s, Written, rows)
    BY <1>1, Unfold DEF JobInv
  <1>5. /\ k \in Job /\ k.conn \in {j.conn, NoConn}
        /\ \A u, w : (r \in w => r \in Written \/ (~InTransaction(j) /\ j.m.writes)) =>
             Serving(r, k, u, w, rows)
    <2>1. r \in Requests /\ j \in Job /\ s \in Session /\ j.pc = "run" /\ k \in Failed(j, Head(j.left))
      BY <1>1, <1>2, <1>4
    <2>2. Serving(r, j, s, Written, rows)
      BY <1>4
    <2> HIDE DEF j, s, t
    <2> QED
      BY ONLY <2>1, <2>2, FailedServes
  <1>6. \A u : Serving(r, k, u, Written \cup {}, rows')
    BY <1>1, <1>5
  <1>7. t \in Session /\ t.wrote \in SUBSET (s.wrote \cup {})
    BY <1>4 DEF AfterError, Fresh, Session, Callers
  <1>8. {} \in SUBSET {r} /\ rows \in SUBSET rows' /\ rows' \in SUBSET (rows \cup s.wrote \cup {})
    BY <1>1
  <1> HIDE DEF t
  <1> QED
    BY <1>1, <1>2, <1>3, <1>5, <1>6, <1>7, <1>8, HeldKeeps

\* The connection breaks under a statement, done or not (ConnectionLost).
LEMMA ConnectionLostKeeps ==
    ASSUME IInv, NEW r \in Requests, ConnectionLost(r), UNCHANGED call
    PROVE  IInv'
  <1> DEFINE j == job[r]
             s == session[j.conn]
             st == Head(j.left)
  <1>1. /\ j.pc = "run"
        /\ faults < MaxFaults /\ faults' = faults + 1
        /\ session' = [session EXCEPT ![j.conn] = Fresh]
    BY DEF ConnectionLost
  <1>2. PICK k \in Failed(j, st) : job' = [job EXCEPT ![r] = k]
    BY DEF ConnectionLost
  <1>3. PICK happened \in {{}, Durable(s, st, r, j.m.writes)} : rows' = rows \cup happened
    BY DEF ConnectionLost
  <1>4. faults' \in 0..MaxFaults
    BY <1>1, EngineRowsAssumption DEF IInv, TypeOK, EngineTypeOK
  <1>5. /\ j \in Job /\ s \in Session
        /\ Serving(r, j, s, Written, rows)
    BY <1>1, Unfold DEF JobInv
  <1>6. /\ k \in Job /\ k.conn \in {j.conn, NoConn}
        /\ \A u, w : (r \in w => r \in Written \/ (~InTransaction(j) /\ j.m.writes)) =>
             Serving(r, k, u, w, rows)
    <2>1. r \in Requests /\ j \in Job /\ s \in Session /\ j.pc = "run" /\ k \in Failed(j, Head(j.left))
      BY <1>1, <1>2, <1>5
    <2>2. Serving(r, j, s, Written, rows)
      BY <1>5
    <2> HIDE DEF j, s, st
    <2> QED
      BY ONLY <2>1, <2>2, FailedServes
  <1>7. PICK new \in SUBSET {r} : /\ happened \in SUBSET (s.wrote \cup new)
                                  /\ r \in new => ~InTransaction(j) /\ j.m.writes
    <2>1. CASE ~InTransaction(j) /\ j.m.writes
      <3>1. happened \in SUBSET (s.wrote \cup {r})
        BY <1>3 DEF Durable
      <3> QED
        BY <2>1, <3>1
    <2>2. CASE InTransaction(j)
      <3>1. Shape(j.left) /\ Fits(j, s)
        BY <1>1, <1>5, <2>2 DEF Serving
      <3>2. st = "Query" => s.tx # "none"
        BY <3>1, QueryNext DEF Fits
      <3>3. happened \in SUBSET (s.wrote \cup {}) /\ {} \in SUBSET {r} /\ r \notin {}
        BY <1>3, <3>2 DEF Durable
      <3> QED
        BY <3>3
    <2>3. CASE ~j.m.writes
      <3>1. happened \in SUBSET (s.wrote \cup {}) /\ {} \in SUBSET {r} /\ r \notin {}
        BY <1>3, <2>3 DEF Durable
      <3> QED
        BY <3>1
    <2> QED
      BY <2>1, <2>2, <2>3
  <1>8. \A u : Serving(r, k, u, Written \cup new, rows)
    <2>1. r \in Written \cup new => r \in Written \/ (~InTransaction(j) /\ j.m.writes)
      BY <1>7
    <2> QED
      BY <1>6, <2>1
  <1>9. \A u : Serving(r, k, u, Written \cup new, rows')
    BY <1>3, <1>8, FewerWrites
  <1>10. Fresh \in Session /\ Fresh.wrote = {}
    BY DEF Fresh, Session, Callers
  <1>11. /\ rows \in SUBSET rows' /\ rows' \in SUBSET (rows \cup s.wrote \cup new)
         /\ Fresh.wrote \in SUBSET (s.wrote \cup new)
    BY <1>3, <1>7, <1>10
  <1> QED
    BY <1>1, <1>2, <1>4, <1>6, <1>9, <1>10, <1>11, HeldKeeps

-----------------------------------------------------------------------------
(* Steps that touch no session.                                             *)

\* One request moves on, on a connection that nobody has or on none.
LEMMA OneKeeps ==
    ASSUME IInv, NEW r \in Requests, NEW k \in Job, NEW c \in Call,
           job' = [job EXCEPT ![r] = k],
           call' = [call EXCEPT ![r] = c],
           UNCHANGED <<session, rows>>,
           faults' \in 0..MaxFaults,
           k.conn # NoConn => \A q \in Requests : q # r => job[q].conn # k.conn,
           Serving(r, k, session[k.conn], Written, rows),
           CallFits(r, c, k, Written)
    PROVE  IInv'
  <1>1. /\ session \in [Conns -> Session] /\ job \in [Requests -> Job] /\ rows \in SUBSET Requests
        /\ call \in [Requests -> Call]
        /\ \A q, p \in Requests : q # p /\ job[q].conn # NoConn => job[q].conn # job[p].conn
        /\ \A q \in Requests : JobInv(q) /\ CallInv(q)
    BY DEF IInv, TypeOK, EngineTypeOK
  <1>2. /\ job' \in [Requests -> Job] /\ job'[r] = k
        /\ \A q \in Requests : q # r => job'[q] = job[q]
    BY <1>1
  <1>3. /\ call' \in [Requests -> Call] /\ call'[r] = c
        /\ \A q \in Requests : q # r => call'[q] = call[q]
    BY <1>1
  <1>4. Written' = Written /\ session' = session /\ rows' = rows
    BY DEF Written
  <1>5. \A q, p \in Requests : q # p /\ job'[q].conn # NoConn => job'[q].conn # job'[p].conn
    BY <1>1, <1>2
  <1>6. TypeOK'
    BY <1>1, <1>2, <1>3, <1>4, <1>5 DEF TypeOK, EngineTypeOK
  <1>7. ASSUME NEW q \in Requests
        PROVE  JobInv(q)' /\ CallInv(q)'
    <2>1. CASE q = r
      BY <1>2, <1>3, <1>4, <2>1 DEF JobInv, CallInv
    <2>2. CASE q # r
      BY <1>1, <1>2, <1>3, <1>4, <2>2 DEF JobInv, CallInv
    <2> QED
      BY <2>1, <2>2
  <1> QED
    BY <1>6, <1>7 DEF IInv

\* A request whose call has not begun has no handler and has written nothing.
LEMMA IdleCall ==
    ASSUME IInv, NEW r \in Requests, call[r].pc = "idle"
    PROVE  /\ job[r] = NoJob
           /\ r \notin Written
           /\ call[r].status = Unset
  <1>1. JobInv(r) /\ CallInv(r)
    BY Unfold
  <1>2. job[r].pc = "idle"
    BY <1>1 DEF CallInv, CallFits
  <1>3. r \notin Written
    BY <1>1, <1>2 DEF JobInv, Serving, WritesFit
  <1> QED
    BY <1>1, <1>2, <1>3 DEF JobInv, Serving, CallInv, CallFits

\* No handler yet.
LEMMA NoHandler == NoJob \in Job /\ NoJob.pc = "idle" /\ NoJob.conn = NoConn
  BY DEF NoJob, Job, message, Message, Callers, Codes, NotRun, Writers, Rpcs, RowRpcs

\* A handler starts to serve a message, or answers at once.
LEMMA HandleServes ==
    ASSUME NEW r \in Requests, NEW m \in Message, NEW port \in {"grpc", "http"},
           m.rpc # "none",
           port = "http" => m.rpc \in RowRpcs \cup {"ExecuteSQL"},
           m.writes => m.rpc \in Writers \cup {"ExecuteSQL"},
           NEW written, r \notin written, NEW kept,
           Handle(r, m, port)
    PROVE  \E k \in Job : /\ job' = [job EXCEPT ![r] = k]
                          /\ k.conn = NoConn /\ k.pc \in {"wait", "done"}
                          /\ \A s : Serving(r, k, s, written, kept)
  <1> DEFINE j == [NoJob EXCEPT !.m = m, !.port = port]
  <1>1. NoJob \in Job
    BY NoHandler
  <1>2. /\ j \in Job
        /\ j.m = m /\ j.port = port /\ j.pc = "idle" /\ j.conn = NoConn /\ j.code = "OK"
        /\ j.ran = NotRun /\ j.inherited = FALSE /\ j.unkept = FALSE
    BY <1>1 DEF Job, NoJob
  <1>3. Asked(j)
    BY <1>2 DEF Asked
  <1> HIDE DEF j
  <1>4. CASE m.rpc # "GetSchema" /\
             job' = [job EXCEPT ![r] = [j EXCEPT !.pc = "wait", !.left = Program(m, port)]]
    <2> DEFINE k == [j EXCEPT !.pc = "wait", !.left = Program(m, port)]
    <2>1. /\ k.m = m /\ k.port = port /\ k.left = Program(m, port)
          /\ k.pc = "wait" /\ k.code = "OK" /\ k.conn = NoConn
          /\ k.ran = NotRun /\ k.inherited = FALSE /\ k.unkept = FALSE
      BY <1>2 DEF Job
    <2>2. "wait" \in {"idle", "wait", "run", "rollback", "done"}
      OBVIOUS
    <2>3. Program(m, port) \in Seq(Statements) => k \in Job
      BY <1>2, <2>2 DEF Job
    <2> HIDE DEF k
    <2>4. Asked(k)
      BY <2>1 DEF Asked
    <2>5. /\ InTransaction(k) => Shape(k.left) /\ Untouched(k)
          /\ ~InTransaction(k) => k.left = <<"Query">>
          /\ k.left \in Seq(Statements)
      BY <2>1, <2>4, ProgramShape
    <2>6. RanFits(k) /\ WritesFit(r, k, written, kept)
      BY <2>1 DEF RanFits, WritesFit
    <2>7. \A s : Serving(r, k, s, written, kept)
      BY <2>1, <2>4, <2>5, <2>6 DEF Serving
    <2>8. job' = [job EXCEPT ![r] = k]
      BY <1>4 DEF k
    <2> QED
      BY <2>1, <2>3, <2>5, <2>7, <2>8
  <1>5. ASSUME NEW code \in Immediate(m),
               job' = [job EXCEPT ![r] = [j EXCEPT !.pc = "done", !.code = code]]
        PROVE  \E k \in Job : /\ job' = [job EXCEPT ![r] = k]
                              /\ k.conn = NoConn /\ k.pc \in {"wait", "done"}
                              /\ \A s : Serving(r, k, s, written, kept)
    <2> DEFINE k == [j EXCEPT !.pc = "done", !.code = code]
    <2>1. code \in Codes /\ (code = "OK" => ~m.writes)
      BY <1>5 DEF Immediate, Codes, RowRpcs, Writers, Message
    <2>2. "done" \in {"idle", "wait", "run", "rollback", "done"}
      OBVIOUS
    <2>3. /\ k \in Job
          /\ k.m = m /\ k.port = port
          /\ k.pc = "done" /\ k.code = code /\ k.conn = NoConn /\ k.ran = NotRun
      BY <1>2, <2>1, <2>2 DEF Job
    <2> HIDE DEF k
    <2>4. Asked(k) /\ RanFits(k) /\ WritesFit(r, k, written, kept)
      BY <2>1, <2>3 DEF Asked, RanFits, WritesFit
    <2>5. \A s : Serving(r, k, s, written, kept)
      BY <2>3, <2>4 DEF Serving
    <2>6. job' = [job EXCEPT ![r] = k]
      BY <1>5 DEF k
    <2> QED
      BY <2>3, <2>5, <2>6
  <1> QED
    BY <1>4, <1>5 DEF Handle, j

\* A waiting handler is given a free connection (Acquire).
LEMMA AcquireKeeps ==
    ASSUME IInv, NEW r \in Requests, Acquire(r), UNCHANGED call
    PROVE  IInv'
  <1> DEFINE j == job[r]
  <1>1. /\ j.pc = "wait" /\ UNCHANGED <<session, rows, faults>>
    BY DEF Acquire
  <1>2. PICK c \in Conns :
          /\ Free(c)
          /\ job' = [job EXCEPT ![r].pc = "run", ![r].conn = c,
                                ![r].inherited = session[c].tx # "none"]
    BY DEF Acquire
  <1>3. /\ j \in Job /\ Serving(r, j, session[j.conn], Written, rows) /\ CallInv(r) /\ call[r] \in Call
    BY Unfold DEF JobInv
  <1> DEFINE inherited == session[c].tx # "none"
             k == [j EXCEPT !.pc = "run", !.conn = c, !.inherited = inherited]
  <1>4. job' = [job EXCEPT ![r] = k] /\ call' = [call EXCEPT ![r] = call[r]]
    BY <1>2 DEF IInv, TypeOK, EngineTypeOK
  <1>5. "run" \in {"idle", "wait", "run", "rollback", "done"} /\ inherited \in BOOLEAN
    OBVIOUS
  <1>6. /\ k \in Job
        /\ k.m = j.m /\ k.port = j.port /\ k.left = j.left /\ k.ran = j.ran
        /\ k.pc = "run" /\ k.code = j.code /\ k.conn = c
        /\ k.unkept = j.unkept /\ (~k.inherited => session[c].tx = "none")
    BY <1>3, <1>5 DEF Job
  <1> HIDE DEF k
  <1>7. HttpRow(k) = HttpRow(j) /\ InTransaction(k) = InTransaction(j)
    BY <1>6 DEF HttpRow, InTransaction
  <1>8. c # NoConn
    BY EngineRowsAssumption
  <1>9. r \notin Written
    BY <1>1, <1>3 DEF Serving, WritesFit
  <1>10. Asked(k) /\ RanFits(k) /\ WritesFit(r, k, Written, rows)
    BY <1>3, <1>6, <1>7, <1>9 DEF Serving, Asked, RanFits, WritesFit
  <1>11. InTransaction(k) => Shape(k.left) /\ Untouched(k) /\ Fits(k, session[c]) /\ Len(k.left) # 1
    <2> SUFFICES ASSUME InTransaction(k)
                 PROVE  Shape(k.left) /\ Untouched(k) /\ Fits(k, session[c]) /\ Len(k.left) # 1
      OBVIOUS
    <2>1. Shape(j.left) /\ Untouched(j)
      BY <1>1, <1>3, <1>7 DEF Serving
    <2>2. Shape(k.left) /\ Untouched(k)
      BY <1>6, <1>7, <2>1 DEF Untouched
    <2>3. Fits(k, session[c])
      BY <2>2 DEF Fits, Untouched
    <2>4. Len(k.left) # 1
      <3>1. PICK i \in 1..Len(k.left) : k.left[i] = "BEGIN"
        BY <2>2 DEF Untouched, Ahead
      <3>2. i = 1 /\ (1 = Len(k.left) => k.left[1] = "COMMIT")
        BY <2>2, <3>1 DEF Shape
      <3> QED
        BY <3>1, <3>2
    <2> QED
      BY <2>2, <2>3, <2>4
  <1>12. ~InTransaction(k) => k.left = <<"Query">>
    BY <1>1, <1>3, <1>6, <1>7 DEF Serving
  <1>13. Serving(r, k, session[k.conn], Written, rows)
    BY <1>6, <1>8, <1>10, <1>11, <1>12 DEF Serving
  <1>14. CallFits(r, call[r], k, Written)
    BY <1>1, <1>3, <1>6 DEF CallInv, CallFits
  <1>15. \A q \in Requests : job[q].conn # k.conn
    BY <1>2, <1>6 DEF Free
  <1>16. faults' \in 0..MaxFaults
    BY <1>1 DEF IInv, TypeOK, EngineTypeOK
  <1> QED
    BY <1>1, <1>3, <1>4, <1>6, <1>13, <1>14, <1>15, <1>16, OneKeeps

\* A waiting handler is given no connection (AcquireFails).
LEMMA AcquireFailsKeeps ==
    ASSUME IInv, NEW r \in Requests, AcquireFails(r), UNCHANGED call
    PROVE  IInv'
  <1> DEFINE j == job[r]
             k == [j EXCEPT !.pc = "done", !.code = "Internal", !.left = <<>>]
  <1>1. /\ j.pc = "wait" /\ faults < MaxFaults /\ faults' = faults + 1
        /\ UNCHANGED <<session, rows>>
    BY DEF AcquireFails
  <1>2. job' = [job EXCEPT ![r] = k] /\ call' = [call EXCEPT ![r] = call[r]]
    BY DEF AcquireFails, IInv, TypeOK, EngineTypeOK
  <1>3. /\ j \in Job /\ Serving(r, j, session[j.conn], Written, rows) /\ CallInv(r) /\ call[r] \in Call
    BY Unfold DEF JobInv
  <1>4. /\ "done" \in {"idle", "wait", "run", "rollback", "done"} /\ "Internal" \in Codes
        /\ <<>> \in Seq(Statements)
    BY DEF Codes
  <1>5. /\ k \in Job
        /\ k.m = j.m /\ k.port = j.port /\ k.ran = j.ran
        /\ k.pc = "done" /\ k.code = "Internal" /\ k.conn = j.conn
    BY <1>3, <1>4 DEF Job
  <1> HIDE DEF k
  <1>6. j.conn = NoConn /\ r \notin Written
    BY <1>1, <1>3 DEF Serving, WritesFit
  <1>7. HttpRow(k) = HttpRow(j)
    BY <1>5 DEF HttpRow
  <1>8. Asked(k) /\ RanFits(k) /\ WritesFit(r, k, Written, rows)
    BY <1>3, <1>5, <1>6, <1>7 DEF Serving, Asked, RanFits, WritesFit
  <1>9. Serving(r, k, session[k.conn], Written, rows)
    BY <1>5, <1>6, <1>8 DEF Serving
  <1>10. CallFits(r, call[r], k, Written)
    BY <1>1, <1>3, <1>5 DEF CallInv, CallFits
  <1>11. faults' \in 0..MaxFaults
    BY <1>1, EngineRowsAssumption DEF IInv, TypeOK, EngineTypeOK
  <1> QED
    BY <1>1, <1>2, <1>3, <1>5, <1>6, <1>9, <1>10, <1>11, OneKeeps

\* The engine serves a request (Engine).
LEMMA EngineKeeps ==
    ASSUME IInv, NEW r \in Requests, Engine(r)
    PROVE  IInv'
  <1>1. EngineStep(r) /\ UNCHANGED call
    BY DEF Engine
  <1> QED
    BY <1>1, AcquireKeeps, AcquireFailsKeeps, SetupKeeps, QueryKeeps, CommitKeeps, RollbackKeeps,
       StatementFailsKeeps, ConnectionLostKeeps DEF EngineStep

-----------------------------------------------------------------------------
(* Steps of the gateway.                                                    *)

\* The client sees something else, the engine does not move.
LEMMA CallKeeps ==
    ASSUME IInv, NEW r \in Requests, NEW c \in Call,
           call' = [call EXCEPT ![r] = c],
           UNCHANGED <<session, job, rows>>,
           faults' \in 0..MaxFaults,
           CallFits(r, c, job[r], Written)
    PROVE  IInv'
  <1>1. job[r] \in Job /\ Serving(r, job[r], session[job[r].conn], Written, rows)
    BY Unfold DEF JobInv
  <1>2. /\ job' = [job EXCEPT ![r] = job[r]]
        /\ job[r].conn # NoConn => \A q \in Requests : q # r => job[q].conn # job[r].conn
    BY DEF IInv, TypeOK, EngineTypeOK
  <1> QED
    BY <1>1, <1>2, OneKeeps

\* The client is answered, and a client error is no news to the engine.
LEMMA AnswerKeeps ==
    ASSUME IInv, NEW r \in Requests, NEW status \in 0..599, Answer(r, status),
           UNCHANGED engineVars,
           job[r].pc \in {"idle", "done"},
           status \in 400..499 => r \notin Written
    PROVE  IInv'
  <1> DEFINE c == [NoCall EXCEPT !.pc = "answered", !.status = status]
  <1>1. /\ call' = [call EXCEPT ![r] = c]
        /\ UNCHANGED <<session, job, rows, faults>>
    BY DEF Answer, engineVars
  <1>2. /\ c \in Call
        /\ c.pc = "answered" /\ c.status = status
    <2>1. /\ "none" \in DOMAIN Routes \cup {"none"}
          /\ "answered" \in {"idle", "calling", "direct", "answered"}
      OBVIOUS
    <2> QED
      BY <2>1 DEF NoCall, Call
  <1> HIDE DEF c
  <1>3. CallFits(r, c, job[r], Written)
    BY <1>2 DEF CallFits, ClientError
  <1>4. faults' \in 0..MaxFaults
    BY <1>1 DEF IInv, TypeOK, EngineTypeOK
  <1> QED
    BY <1>1, <1>2, <1>3, <1>4, CallKeeps

\* A service, or an HTTP port behind a pass-through route, answers a call that the
\* engine knows nothing of.
LEMMA ServiceKeeps ==
    ASSUME IInv, NEW r \in Requests, NEW status \in 0..599, Answer(r, status),
           UNCHANGED engineVars,
           call[r].pc = "calling", Routes[call[r].route].service # "engine"
    PROVE  IInv'
  <1>1. JobInv(r) /\ CallInv(r)
    BY Unfold
  <1>2. job[r].pc = "idle"
    BY <1>1 DEF CallInv, CallFits
  <1>3. r \notin Written
    BY <1>1, <1>2 DEF JobInv, Serving, WritesFit
  <1> QED
    BY <1>2, <1>3, AnswerKeeps

\* A call to auth, storage or an HTTP port begins.
LEMMA CallingKeeps ==
    ASSUME IInv, NEW r \in Requests, NEW name \in DOMAIN Routes,
           call[r].pc = "idle", Calling(r, name), UNCHANGED engineVars
    PROVE  IInv'
  <1> DEFINE c == [NoCall EXCEPT !.route = name, !.pc = "calling"]
  <1>1. /\ call' = [call EXCEPT ![r] = c]
        /\ UNCHANGED <<session, job, rows, faults>>
    BY DEF Calling, engineVars
  <1>2. /\ c \in Call
        /\ c.pc = "calling" /\ c.status = Unset /\ c.route = name
    <2>1. /\ Unset \in 0..599
          /\ "calling" \in {"idle", "calling", "direct", "answered"}
      BY DEF Unset
    <2> QED
      BY <2>1 DEF NoCall, Call
  <1> HIDE DEF c
  <1>3. job[r] = NoJob
    BY IdleCall
  <1>4. CallFits(r, c, job[r], Written)
    BY <1>2, <1>3 DEF CallFits, ClientError, NoJob, Unset
  <1>5. faults' \in 0..MaxFaults
    BY <1>1 DEF IInv, TypeOK, EngineTypeOK
  <1> QED
    BY <1>1, <1>2, <1>4, <1>5, CallKeeps

\* Requests that the gateway answers itself.
LEMMA MiddlewareKeeps ==
    ASSUME IInv, NEW r \in Requests, Unauthorized(r) \/ BadBody(r) \/ CORS(r)
    PROVE  IInv'
  <1>1. call[r].pc = "idle"
    BY DEF Unauthorized, BadBody, CORS, Arrives
  <1>2. PICK status \in {401, 400, 204} : Answer(r, status)
    BY DEF Unauthorized, BadBody, CORS
  <1>3. UNCHANGED engineVars
    BY DEF Unauthorized, BadBody, CORS
  <1>4. job[r] = NoJob /\ r \notin Written
    BY <1>1, IdleCall
  <1>5. status \in 0..599 /\ job[r].pc = "idle"
    BY <1>4 DEF NoJob
  <1> QED
    BY ONLY IInv, r \in Requests, <1>2, <1>3, <1>4, <1>5, AnswerKeeps

\* Requests that do not go to the engine's gRPC port.
LEMMA ForwardKeeps ==
    ASSUME IInv, NEW r \in Requests,
           CallAuth(r) \/ CallStorage(r) \/ proxyToEngineHTTP(r) \/ proxyToAuthHTTP(r)
    PROVE  IInv'
  <1>1. PICK name \in DOMAIN Routes : call[r].pc = "idle" /\ Calling(r, name)
    BY DEF CallAuth, CallStorage, proxyToEngineHTTP, proxyToAuthHTTP, PassThrough, Arrives
  <1>2. UNCHANGED engineVars
    BY DEF CallAuth, CallStorage, proxyToEngineHTTP, proxyToAuthHTTP, PassThrough
  <1> QED
    BY <1>1, <1>2, CallingKeeps

\* A message of the gateway says what the engine needs to know.
LEMMA MessagesAsk ==
    /\ \A rpc \in RowRpcs, user \in Callers :
         /\ message(rpc, user) \in Message
         /\ message(rpc, user).rpc = rpc
         /\ message(rpc, user).writes => rpc \in Writers
    /\ \A readwrite \in BOOLEAN, writes \in BOOLEAN, user \in Callers :
         LET m == [ExecuteSQLRequest(readwrite, writes) EXCEPT !.user_id = user]
         IN  m \in Message /\ m.rpc = "ExecuteSQL"
    /\ \A name \in {"ListRows", "GetRow", "InsertRow", "UpdateRow", "DeleteRow", "ListTables",
                    "GetSchema", "GetSchemaTable", "ReloadSchema", "ExecuteSQL"}, user \in Callers :
         \A m \in Requested(name, user) :
           /\ m \in Message /\ m.rpc # "none"
           /\ m.writes => m.rpc \in Writers \cup {"ExecuteSQL"}
  <1>1. \A rpc \in Rpcs, user \in Callers :
          /\ message(rpc, user) \in Message
          /\ message(rpc, user).rpc = rpc
          /\ message(rpc, user).writes => rpc \in Writers
    <2> TAKE rpc \in Rpcs, user \in Callers
    <2> DEFINE writes == rpc \in Writers
    <2>1. writes \in BOOLEAN
      OBVIOUS
    <2>2. message(rpc, user) =
            [rpc |-> rpc, user_id |-> user, readwrite |-> FALSE, writes |-> writes]
      BY DEF message
    <2>3. writes => rpc \in Writers
      OBVIOUS
    <2> HIDE DEF writes
    <2> QED
      BY <2>1, <2>2, <2>3 DEF Message
  <1>2. Anonymous \in Callers /\ RowRpcs \subseteq Rpcs
    BY DEF Callers, Rpcs
  <1>3. \A readwrite \in BOOLEAN, writes \in BOOLEAN :
          /\ ExecuteSQLRequest(readwrite, writes) \in Message
          /\ ExecuteSQLRequest(readwrite, writes).rpc = "ExecuteSQL"
    BY <1>2 DEF ExecuteSQLRequest, message, Message, Rpcs
  <1>4. \A readwrite \in BOOLEAN, writes \in BOOLEAN, user \in Callers :
          LET m == [ExecuteSQLRequest(readwrite, writes) EXCEPT !.user_id = user]
          IN  m \in Message /\ m.rpc = "ExecuteSQL"
    BY <1>3 DEF Message
  <1>5. ASSUME NEW name \in {"ListRows", "GetRow", "InsertRow", "UpdateRow", "DeleteRow", "ListTables",
                             "GetSchema", "GetSchemaTable", "ReloadSchema", "ExecuteSQL"},
               NEW user \in Callers, NEW m \in Requested(name, user)
        PROVE  /\ m \in Message /\ m.rpc # "none"
               /\ m.writes => m.rpc \in Writers \cup {"ExecuteSQL"}
    <2>1. CASE name = "ExecuteSQL"
      <3>1. PICK readwrite \in BOOLEAN, writes \in BOOLEAN : m = ExecuteSQLRequest(readwrite, writes)
        BY <2>1 DEF Requested
      <3> QED
        BY <1>3, <3>1
    <2>2. CASE name # "ExecuteSQL"
      <3>1. PICK rpc \in Rpcs, u \in Callers : m = message(rpc, u)
        BY <1>2, <2>2 DEF Requested, ListRowsRequest, GetRowRequest, InsertRowRequest, UpdateRowRequest,
             DeleteRowRequest, ListTablesRequest, GetSchemaRequest, ReloadSchemaRequest, Rpcs, RowRpcs
      <3>2. rpc # "none"
        BY DEF Rpcs, RowRpcs
      <3> QED
        BY <1>1, <3>1, <3>2
    <2> QED
      BY <2>1, <2>2
  <1> QED
    BY <1>1, <1>2, <1>4, <1>5

\* A call to the engine begins (CallEngine).
LEMMA CallEngineKeeps ==
    ASSUME IInv, NEW r \in Requests, CallEngine(r)
    PROVE  IInv'
  <1>1. PICK name \in DOMAIN Routes, user \in Callers :
          /\ Arrives(r, {"engine"}, name, user)
          /\ \E m \in Requested(name, user) : Handle(r, m, "grpc")
          /\ Calling(r, name)
    BY DEF CallEngine
  <1>2. PICK m \in Requested(name, user) : Handle(r, m, "grpc")
    BY <1>1
  <1>3. Routes[name].service = "engine" /\ call[r].pc = "idle"
    BY <1>1 DEF Arrives
  <1>4. name \in {"ListRows", "GetRow", "InsertRow", "UpdateRow", "DeleteRow", "ListTables",
                  "GetSchema", "GetSchemaTable", "ReloadSchema", "ExecuteSQL"}
    BY <1>3, RouteFacts
  <1>5. /\ m \in Message /\ m.rpc # "none"
        /\ m.writes => m.rpc \in Writers \cup {"ExecuteSQL"}
    BY <1>4, MessagesAsk
  <1>6. r \notin Written
    BY <1>3, IdleCall
  <1>7. PICK k \in Job : /\ job' = [job EXCEPT ![r] = k]
                         /\ k.conn = NoConn /\ k.pc \in {"wait", "done"}
                         /\ \A s : Serving(r, k, s, Written, rows)
    BY <1>2, <1>5, <1>6, HandleServes
  <1> DEFINE c == [NoCall EXCEPT !.route = name, !.pc = "calling"]
  <1>8. call' = [call EXCEPT ![r] = c]
    BY <1>1 DEF Calling
  <1>9. /\ c \in Call
        /\ c.pc = "calling" /\ c.status = Unset /\ c.route = name
    <2>1. /\ Unset \in 0..599
          /\ "calling" \in {"idle", "calling", "direct", "answered"}
      BY DEF Unset
    <2> QED
      BY <2>1 DEF NoCall, Call
  <1> HIDE DEF c
  <1>10. CallFits(r, c, k, Written)
    BY <1>3, <1>9 DEF CallFits, ClientError, Unset
  <1>11. UNCHANGED <<session, rows>> /\ faults' \in 0..MaxFaults
    BY DEF CallEngine, IInv, TypeOK, EngineTypeOK
  <1> QED
    BY <1>7, <1>8, <1>9, <1>10, <1>11, OneKeeps

\* A request comes in on the engine's own port (Direct).
LEMMA DirectKeeps ==
    ASSUME IInv, NEW r \in Requests, Direct(r)
    PROVE  IInv'
  <1>1. PICK m \in Message : /\ Handle(r, m, "http")
                             /\ m.rpc \in RowRpcs \cup {"ExecuteSQL"}
                             /\ m.writes => m.rpc \in Writers \cup {"ExecuteSQL"}
    <2>1. PICK user \in Callers :
            \/ \E rpc \in RowRpcs \cap Load[r] : Handle(r, message(rpc, user), "http")
            \/ \E readwrite, writes \in BOOLEAN :
                 Handle(r, [ExecuteSQLRequest(readwrite, writes) EXCEPT !.user_id = user], "http")
      BY DEF Direct
    <2>2. CASE \E rpc \in RowRpcs \cap Load[r] : Handle(r, message(rpc, user), "http")
      <3>1. PICK rpc \in RowRpcs : Handle(r, message(rpc, user), "http")
        BY <2>2
      <3> QED
        BY <3>1, MessagesAsk
    <2>3. CASE \E readwrite, writes \in BOOLEAN :
                 Handle(r, [ExecuteSQLRequest(readwrite, writes) EXCEPT !.user_id = user], "http")
      <3>1. PICK readwrite \in BOOLEAN, writes \in BOOLEAN :
              Handle(r, [ExecuteSQLRequest(readwrite, writes) EXCEPT !.user_id = user], "http")
        BY <2>3
      <3> DEFINE m == [ExecuteSQLRequest(readwrite, writes) EXCEPT !.user_id = user]
      <3>2. m \in Message /\ m.rpc = "ExecuteSQL"
        BY MessagesAsk
      <3>3. Handle(r, m, "http")
        BY <3>1
      <3> HIDE DEF m
      <3> QED
        BY <3>2, <3>3
    <2> QED
      BY <2>1, <2>2, <2>3
  <1>2. m.rpc # "none"
    BY <1>1 DEF RowRpcs
  <1>3. call[r].pc = "idle" /\ UNCHANGED <<session, rows, faults>>
    BY DEF Direct
  <1>4. r \notin Written /\ call[r].status = Unset /\ call[r] \in Call
    BY <1>3, IdleCall, Unfold
  <1>5. PICK k \in Job : /\ job' = [job EXCEPT ![r] = k]
                         /\ k.conn = NoConn /\ k.pc \in {"wait", "done"}
                         /\ \A s : Serving(r, k, s, Written, rows)
    BY <1>1, <1>2, <1>4, HandleServes
  <1> DEFINE c == [call[r] EXCEPT !.pc = "direct"]
  <1>6. call' = [call EXCEPT ![r] = c]
    BY DEF Direct, IInv, TypeOK
  <1>7. c \in Call /\ c.pc = "direct" /\ c.status = Unset
    <2>1. "direct" \in {"idle", "calling", "direct", "answered"}
      OBVIOUS
    <2> QED
      BY <1>4, <2>1 DEF Call
  <1> HIDE DEF c
  <1>8. CallFits(r, c, k, Written)
    BY <1>7 DEF CallFits, ClientError, Unset
  <1>9. faults' \in 0..MaxFaults
    BY <1>3 DEF IInv, TypeOK, EngineTypeOK
  <1> QED
    BY <1>3, <1>5, <1>6, <1>7, <1>8, <1>9, OneKeeps

\* The status of a failure is a status.
LEMMA StatusRange == \A code : writeGRPCError(code) \in {404, 400, 401, 403, 409, 500}
  BY DEF writeGRPCError

\* The engine's answer goes to the client (Reply).
LEMMA ReplyKeeps ==
    ASSUME IInv, NEW r \in Requests, Reply(r)
    PROVE  IInv'
  <1> DEFINE j == job[r]
             ok == Routes[call[r].route].ok
             status == IF j.code = "OK" THEN ok ELSE writeGRPCError(j.code)
  <1>1. /\ call[r].pc = "calling" /\ j.pc = "done"
        /\ Answer(r, status) /\ UNCHANGED engineVars
    BY DEF Reply, Waiting
  <1>2. /\ JobInv(r) /\ CallInv(r) /\ j \in Job
    BY Unfold
  <1>3. ok \in 200..302
    BY <1>1, <1>2, RouteFacts DEF CallInv, CallFits
  <1>4. status \in 0..599 /\ ok \notin 400..499
    <2>1. ok \in 0..599 /\ ok \notin 400..499
      <3> HIDE DEF ok
      <3> QED
        BY <1>3
    <2>2. writeGRPCError(j.code) \in 0..599
      BY StatusRange
    <2> QED
      BY <2>1, <2>2
  <1>5. status \in 400..499 => j.code \notin {"OK", "Canceled", "Internal"}
    <2>1. CASE j.code = "OK"
      BY <1>4, <2>1
    <2>2. CASE j.code \in {"Canceled", "Internal"}
      BY <2>2 DEF writeGRPCError
    <2> QED
      BY <2>1, <2>2
  <1>6. r \in Written => j.code \in {"OK", "Canceled", "Internal"}
    BY <1>1, <1>2 DEF JobInv, Serving, WritesFit
  <1>7. status \in 400..499 => r \notin Written
    BY <1>5, <1>6
  <1> HIDE DEF status
  <1> QED
    BY <1>1, <1>4, <1>7, AnswerKeeps

\* The status of a success is a status.
LEMMA Succeeds ==
    ASSUME IInv, NEW r \in Requests, call[r].pc = "calling"
    PROVE  Routes[call[r].route].ok \in 0..599
  <1>1. CallInv(r)
    BY Unfold
  <1>2. call[r].route \in DOMAIN Routes
    BY <1>1 DEF CallInv, CallFits
  <1> DEFINE ok == Routes[call[r].route].ok
  <1>3. ok \in 200..302
    BY <1>2, RouteFacts
  <1> HIDE DEF ok
  <1>4. ok \in 0..599
    BY <1>3
  <1> QED
    BY <1>4 DEF ok

\* Auth, storage or an HTTP port answers.
LEMMA ServeKeeps ==
    ASSUME IInv, NEW r \in Requests, ServeAuth(r) \/ ServeStorage(r) \/ ServePassThrough(r)
    PROVE  IInv'
  <1> DEFINE handler == Routes[call[r].route]
  <1>1. call[r].pc = "calling" /\ handler.service # "engine" /\ UNCHANGED engineVars
    BY DEF ServeAuth, ServeStorage, ServePassThrough, Waiting
  <1>2. handler.ok \in 0..599
    BY <1>1, Succeeds
  <1>3. \A code : writeGRPCError(code) \in 0..599
    BY StatusRange
  <1>4. PassedOn(handler.op) \subseteq 0..599
    BY DEF PassedOn
  <1>5. PICK status \in 0..599 : Answer(r, status)
    <2>1. CASE ServeAuth(r)
      <3>1. PICK e, code : Answer(r, IF code = "OK" THEN handler.ok ELSE writeGRPCError(code))
                             \/ Answer(r, handler.ok)
        BY <2>1 DEF ServeAuth
      <3> HIDE DEF handler
      <3> QED
        BY <1>2, <1>3, <3>1
    <2>2. CASE ServeStorage(r)
      <3>1. PICK code : Answer(r, handler.ok) \/ Answer(r, writeGRPCError(code))
        BY <2>2 DEF ServeStorage
      <3> HIDE DEF handler
      <3> QED
        BY <1>2, <1>3, <3>1
    <2>3. CASE ServePassThrough(r)
      <3>1. PICK status \in {handler.ok} \cup PassedOn(handler.op) : Answer(r, status)
        BY <2>3 DEF ServePassThrough
      <3> HIDE DEF handler
      <3> QED
        BY <1>2, <1>4, <3>1
    <2> QED
      BY <2>1, <2>2, <2>3
  <1> HIDE DEF handler
  <1> QED
    BY <1>1, <1>5, ServiceKeeps DEF handler

-----------------------------------------------------------------------------
(* Clients that go away, the process.                                       *)

\* A handler that is dropped: its connection goes back as it is, and what it has
\* written and not committed stays with that session.
LEMMA DroppedServes ==
    ASSUME NEW r, NEW j \in Job, NEW s, NEW written, NEW kept,
           Serving(r, j, s, written, kept), j.pc \in {"wait", "run", "rollback"}
    PROVE  LET k == [NoJob EXCEPT !.m = j.m, !.pc = "done", !.code = "Canceled"]
           IN  /\ k \in Job
               /\ k.pc = "done" /\ k.conn = NoConn
               /\ \A u : Serving(r, k, u, written, kept)
  <1> DEFINE k == [NoJob EXCEPT !.m = j.m, !.pc = "done", !.code = "Canceled"]
  <1>1. NoJob \in Job
    BY NoHandler
  <1>2. k \in Job
    <2>1. "done" \in {"idle", "wait", "run", "rollback", "done"} /\ "Canceled" \in Codes
      BY DEF Codes
    <2> QED
      BY <1>1, <2>1 DEF Job
  <1>3. /\ k.pc = "done" /\ k.conn = NoConn /\ k.code = "Canceled" /\ k.ran = NotRun
        /\ k.m = j.m /\ k.port = "grpc"
    BY DEF NoJob
  <1> HIDE DEF k
  <1>4. ~HttpRow(k)
    BY <1>3 DEF HttpRow
  <1>5. Asked(k) /\ RanFits(k)
    BY <1>3, <1>4 DEF Serving, Asked, RanFits
  <1>6. WritesFit(r, k, written, kept)
    BY <1>3, <1>4 DEF Serving, WritesFit
  <1>7. \A u : Serving(r, k, u, written, kept)
    BY <1>3, <1>5, <1>6 DEF Serving
  <1> QED
    BY <1>2, <1>3, <1>7 DEF k

\* What a client sees whose call ended before the answer was back.
LEMMA AnsweredCall ==
    ASSUME NEW status \in 0..599
    PROVE  /\ [NoCall EXCEPT !.pc = "answered", !.status = status] \in Call
           /\ [NoCall EXCEPT !.pc = "answered", !.status = status].pc = "answered"
           /\ [NoCall EXCEPT !.pc = "answered", !.status = status].status = status
  <1>1. /\ "none" \in DOMAIN Routes \cup {"none"}
        /\ "answered" \in {"idle", "calling", "direct", "answered"}
    OBVIOUS
  <1> QED
    BY <1>1 DEF NoCall, Call

\* Calls end before their answer is back: their handlers are dropped, and their
\* clients see "cut", which is no client error.
LEMMA CutShortKeeps ==
    ASSUME IInv, NEW gone, NEW cut \in Call, cut.pc = "answered", ~ClientError(cut),
           call' = [r \in Requests |-> IF r \in gone THEN cut ELSE call[r]],
           Drop(gone), UNCHANGED <<session, rows>>, faults' \in 0..MaxFaults
    PROVE  IInv'
  <1> DEFINE dropped(r) == [NoJob EXCEPT !.m = job[r].m, !.pc = "done", !.code = "Canceled"]
  <1>1. /\ session \in [Conns -> Session] /\ job \in [Requests -> Job] /\ rows \in SUBSET Requests
        /\ call \in [Requests -> Call]
        /\ \A q, p \in Requests : q # p /\ job[q].conn # NoConn => job[q].conn # job[p].conn
        /\ \A q \in Requests : JobInv(q) /\ CallInv(q)
    BY DEF IInv, TypeOK, EngineTypeOK
  <1>2. /\ call' = [r \in Requests |-> IF r \in gone THEN cut ELSE call[r]]
        /\ job' = [r \in Requests |-> IF r \in gone /\ Running(r) THEN dropped(r) ELSE job[r]]
        /\ Written' = Written /\ session' = session /\ rows' = rows
    BY DEF Drop, Written
  <1>4. ASSUME NEW r \in Requests
        PROVE  /\ job'[r] \in Job
               /\ job'[r].conn \in {job[r].conn, NoConn}
               /\ Serving(r, job'[r], session[job'[r].conn], Written, rows)
               /\ r \in gone => job'[r].pc \in {"idle", "done"}
    <2>1. job[r] \in Job /\ Serving(r, job[r], session[job[r].conn], Written, rows)
      BY <1>1 DEF JobInv
    <2>2. CASE r \in gone /\ Running(r)
      <3>1. job'[r] = dropped(r)
        BY <1>2, <2>2
      <3>2. /\ dropped(r) \in Job
            /\ dropped(r).pc = "done" /\ dropped(r).conn = NoConn
            /\ \A u : Serving(r, dropped(r), u, Written, rows)
        BY <2>1, <2>2, DroppedServes DEF Running
      <3> HIDE DEF dropped
      <3> QED
        BY <3>1, <3>2
    <2>3. CASE ~(r \in gone /\ Running(r))
      <3>1. job'[r] = job[r]
        BY <1>2, <2>3
      <3>2. r \in gone => job[r].pc \in {"idle", "done"}
        BY <2>1, <2>3 DEF Running, Job
      <3> QED
        BY <2>1, <3>1, <3>2
    <2> QED
      BY <2>2, <2>3
  <1>5. /\ job' \in [Requests -> Job]
        /\ \A q \in Requests : call'[q] \in Call
        /\ \A q \in Requests : call'[q] = IF q \in gone THEN cut ELSE call[q]
    <2>1. job' = [r \in Requests |-> job'[r]]
      BY <1>2
    <2>2. \A q \in Requests : call'[q] = IF q \in gone THEN cut ELSE call[q]
      BY <1>2
    <2> QED
      BY <1>1, <1>4, <2>1, <2>2
  <1>6. call' \in [Requests -> Call]
    <2>1. call' = [q \in Requests |-> call'[q]]
      BY <1>2
    <2> QED
      BY <1>5, <2>1
  <1>7. \A q, p \in Requests : q # p /\ job'[q].conn # NoConn => job'[q].conn # job'[p].conn
    BY <1>1, <1>4
  <1>8. TypeOK'
    BY <1>1, <1>2, <1>5, <1>6, <1>7 DEF TypeOK, EngineTypeOK
  <1>9. ASSUME NEW q \in Requests
        PROVE  JobInv(q)' /\ CallInv(q)'
    <2>1. JobInv(q)'
      BY <1>2, <1>4 DEF JobInv
    <2>2. CASE q \in gone
      <3>1. call'[q] = cut
        BY <1>5, <2>2
      <3>2. CallFits(q, cut, job'[q], Written)
        BY <1>4, <2>2 DEF CallFits, ClientError
      <3> QED
        BY <1>2, <2>1, <3>1, <3>2 DEF CallInv
    <2>3. CASE q \notin gone
      <3>1. call'[q] = call[q]
        BY <1>5, <2>3
      <3>2. job'[q] = job[q]
        BY <1>2, <2>3
      <3> QED
        BY <1>1, <1>2, <2>1, <3>1, <3>2 DEF CallInv
    <2> QED
      BY <2>1, <2>2, <2>3
  <1> QED
    BY <1>8, <1>9 DEF IInv

\* One client goes away (Abandon), or the process stops (main).
LEMMA CutOffKeeps ==
    ASSUME IInv, (\E r \in Requests : Abandon(r)) \/ main
    PROVE  IInv'
  <1>1. /\ UNCHANGED <<session, rows>>
        /\ faults' = faults \/ (faults < MaxFaults /\ faults' = faults + 1)
    BY DEF Abandon, main
  <1>3. faults' \in 0..MaxFaults
    BY <1>1, EngineRowsAssumption DEF IInv, TypeOK, EngineTypeOK
  <1>2. PICK gone : Cancel(gone)
    BY DEF Abandon, main
  <1> DEFINE cut == [NoCall EXCEPT !.pc = "answered", !.status = Cut]
  <1>4. call' = [r \in Requests |-> IF r \in gone THEN cut ELSE call[r]] /\ Drop(gone)
    BY <1>2 DEF Cancel
  <1>5. Cut \in 0..599
    BY DEF Cut
  <1>6. cut \in Call /\ cut.pc = "answered" /\ cut.status = Cut
    BY <1>5, AnsweredCall
  <1> HIDE DEF cut
  <1>7. ~ClientError(cut)
    BY <1>6 DEF ClientError, Cut
  <1> QED
    BY ONLY IInv, <1>1, <1>3, <1>4, <1>6, <1>7, CutShortKeeps

\* The call of one request cannot be made or breaks (Unreachable).
LEMMA UnreachableKeeps ==
    ASSUME IInv, NEW r \in Requests, Unreachable(r)
    PROVE  IInv'
  <1>1. PICK status \in {502, writeGRPCError("Unavailable")} : Answer(r, status)
    BY DEF Unreachable
  <1>2. writeGRPCError("Unavailable") = 500
    BY DEF writeGRPCError
  <1>3. status \in 0..599
    BY <1>1, <1>2
  <1>4. /\ faults < MaxFaults /\ faults' = faults + 1
        /\ Drop({r}) /\ UNCHANGED <<session, rows>>
    BY DEF Unreachable
  <1>5. faults' \in 0..MaxFaults
    BY <1>4, EngineRowsAssumption DEF IInv, TypeOK, EngineTypeOK
  <1> DEFINE c == [NoCall EXCEPT !.pc = "answered", !.status = status]
  <1>6. call' = [call EXCEPT ![r] = c]
    BY <1>1 DEF Answer
  <1>7. c \in Call /\ c.pc = "answered" /\ c.status = status
    BY <1>3, AnsweredCall
  <1> HIDE DEF c
  <1>8. call' = [q \in Requests |-> IF q \in {r} THEN c ELSE call[q]]
    BY <1>6 DEF IInv, TypeOK
  <1>9. ~ClientError(c)
    BY <1>1, <1>2, <1>7 DEF ClientError
  <1> QED
    BY ONLY IInv, <1>4, <1>5, <1>7, <1>8, <1>9, CutShortKeeps

-----------------------------------------------------------------------------
(* The invariant of the specification.                                      *)

\* Nothing has come in: every connection is fresh, no handler runs.
LEMMA InitInv ==
    ASSUME Init
    PROVE  IInv
  <1>1. /\ session = [c \in Conns |-> Fresh] /\ job = [r \in Requests |-> NoJob]
        /\ rows = {} /\ faults = 0 /\ call = [r \in Requests |-> NoCall]
    BY DEF Init, EngineInit
  <1>2. Fresh \in Session /\ Fresh.wrote = {}
    BY DEF Fresh, Session, Callers
  <1>3. /\ NoCall \in Call
        /\ NoCall.pc = "idle" /\ NoCall.status = Unset
        /\ Unset \notin 400..499
    <2>1. /\ "none" \in DOMAIN Routes \cup {"none"}
          /\ "idle" \in {"idle", "calling", "direct", "answered"} /\ Unset \in 0..599
      BY DEF Unset
    <2>2. Unset \notin 400..499
      BY DEF Unset
    <2> QED
      BY <2>1, <2>2 DEF NoCall, Call
  <1>4. Written = {}
    BY <1>1, <1>2 DEF Written
  <1>5. TypeOK
    BY <1>1, <1>2, <1>3, NoHandler, EngineRowsAssumption DEF TypeOK, EngineTypeOK
  <1>6. \A r, s : Serving(r, NoJob, s, {}, {})
    <2>1. /\ NoJob.port = "grpc" /\ NoJob.ran = NotRun /\ NoJob.pc = "idle" /\ NoJob.conn = NoConn
          /\ NoJob.m = message("none", Anonymous)
      BY DEF NoJob
    <2>4. ~NoJob.m.writes
      <3> DEFINE writes == "none" \in Writers
      <3>1. writes = FALSE
        BY DEF Writers
      <3>2. NoJob.m = [rpc |-> "none", user_id |-> Anonymous, readwrite |-> FALSE, writes |-> writes]
        BY <2>1 DEF message
      <3> HIDE DEF writes
      <3> QED
        BY <3>1, <3>2
    <2>2. ~HttpRow(NoJob)
      BY <2>1 DEF HttpRow
    <2>3. Asked(NoJob) /\ RanFits(NoJob) /\ \A r : WritesFit(r, NoJob, {}, {})
      BY <2>1, <2>2, <2>4 DEF Asked, RanFits, WritesFit
    <2> QED
      BY <2>1, <2>2, <2>3 DEF Serving
  <1>7. \A r : CallFits(r, NoCall, NoJob, {})
    BY <1>3, NoHandler DEF CallFits, ClientError
  <1>8. \A r \in Requests : job[r] = NoJob /\ call[r] = NoCall
    BY <1>1
  <1>9. \A r \in Requests : JobInv(r) /\ CallInv(r)
    BY <1>1, <1>4, <1>6, <1>7, <1>8 DEF JobInv, CallInv
  <1> QED
    BY <1>5, <1>9 DEF IInv

\* Nothing happens.
LEMMA StutterKeeps ==
    ASSUME IInv, UNCHANGED vars
    PROVE  IInv'
  <1>1. /\ session' = session /\ job' = job /\ rows' = rows /\ faults' = faults /\ call' = call
    BY DEF vars, engineVars
  <1>2. Written' = Written
    BY <1>1 DEF Written
  <1>3. TypeOK'
    BY <1>1 DEF IInv, TypeOK, EngineTypeOK
  <1>4. \A r \in Requests : JobInv(r)' /\ CallInv(r)'
    BY <1>1, <1>2 DEF IInv, JobInv, CallInv
  <1> QED
    BY <1>3, <1>4 DEF IInv

\* In every reachable state each handler is where its statements and its session say,
\* and each client sees what its handler allows.
THEOREM Invariance == Spec => []IInv
  <1>1. Init => IInv
    BY InitInv
  <1>2. IInv /\ [Next]_vars => IInv'
    <2> SUFFICES ASSUME IInv, [Next]_vars
                 PROVE  IInv'
      OBVIOUS
    <2>1. CASE \E r \in Requests : Arrive(r)
      <3>1. PICK r \in Requests : Arrive(r)
        BY <2>1
      <3> QED
        BY <3>1, MiddlewareKeeps, ForwardKeeps, CallEngineKeeps, DirectKeeps DEF Arrive
    <2>2. CASE \E r \in Requests : Serve(r)
      <3>1. PICK r \in Requests : Serve(r)
        BY <2>2
      <3> QED
        BY <3>1, ReplyKeeps, ServeKeeps, UnreachableKeeps
           DEF Serve
    <2>3. CASE \E r \in Requests : Engine(r)
      BY <2>3, EngineKeeps
    <2>4. CASE (\E r \in Requests : Abandon(r)) \/ main
      BY <2>4, CutOffKeeps
    <2>5. CASE Finished \/ UNCHANGED vars
      BY <2>5, StutterKeeps DEF Finished
    <2> QED
      BY <2>1, <2>2, <2>3, <2>4, <2>5 DEF Next
  <1> QED
    BY <1>1, <1>2, PTL DEF Spec

-----------------------------------------------------------------------------
(* What the runs check, for every value of the constants.                   *)

\* Every variable keeps its type, and no two handlers hold the same connection.
THEOREM TypeOKAlways == Spec => []TypeOK
  <1>1. IInv => TypeOK
    BY DEF IInv
  <1> QED
    BY <1>1, Invariance, PTL

\* A row request on the engine's own port runs under its caller, whatever transaction
\* its connection brought along: set_rls_context opens with BEGIN and is behind the
\* handler before the query (routes.rs).
THEOREM HttpRowsAlwaysUnderCaller == Spec => []HttpRowsUnderCaller
  <1>1. IInv => HttpRowsUnderCaller
    BY DEF IInv, JobInv, Serving, RanFits, HttpRowsUnderCaller
  <1> QED
    BY <1>1, Invariance, PTL

\* A write that was answered with success is committed, but for the two cases the
\* property names.
THEOREM AnsweredWriteAlwaysKept == Spec => []AnsweredWriteKept
  <1>1. IInv => AnsweredWriteKept
    BY DEF IInv, JobInv, Serving, WritesFit, AnsweredWriteKept
  <1> QED
    BY <1>1, Invariance, PTL

\* A row request of the engine's own port that was refused has written nothing, and
\* nothing of it waits in a session for the next COMMIT.
THEOREM RefusedRowAlwaysLeavesNothing == Spec => []RefusedRowLeavesNothing
  <1>1. IInv => RefusedRowLeavesNothing
    BY DEF IInv, JobInv, Serving, WritesFit, Written, RefusedRowLeavesNothing
  <1> QED
    BY <1>1, Invariance, PTL

\* SQL that was not asked for in readwrite mode never writes (SET TRANSACTION READ
\* ONLY, sent before the query of scoped SQL).
THEOREM ReadOnlyQueryNeverWrites == Spec => []ReadOnlyQueryWritesNothing
  <1>1. IInv => ReadOnlyQueryWritesNothing
    BY DEF IInv, JobInv, Serving, WritesFit, Written, ReadOnlyQueryWritesNothing
  <1> QED
    BY <1>1, Invariance, PTL

\* A request that reached the engine through the gateway and was answered with a
\* client error changed nothing.
THEOREM ClientErrorNeverWrote == Spec => []ClientErrorWroteNothing
  <1>1. IInv => ClientErrorWroteNothing
    BY DEF IInv, CallInv, CallFits, ClientError, Written, ClientErrorWroteNothing
  <1> QED
    BY <1>1, Invariance, PTL

=============================================================================
