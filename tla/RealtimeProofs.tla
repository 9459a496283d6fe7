---------------------------- MODULE RealtimeProofs ----------------------------
(***************************************************************************)
(* Proofs about Realtime for any clients, subscriptions and changes, and    *)
(* any number of deaths, reconnections and messages under way.              *)
(*                                                                         *)
(* What a client was sent and what its channel has still to read are one    *)
(* stream.  The channel only turns the next mail of it into a push and the  *)
(* relay leaves it as it is, so the stream grows at one end only, by what   *)
(* the dispatcher sends.                                                    *)
(***************************************************************************)
EXTENDS Realtime, FiniteSetTheorems, SequenceTheorems, WellFoundedInduction, TLAPS

-----------------------------------------------------------------------------
(* The inductive invariant.                                                 *)

Stream(c) == Sent(c) \o channel[c].mailbox

\* The rows of c that the change being dispatched still has to be sent to.
Pending(c) == {row \in dispatcher.to : row.client = c /\ row.join = channel[c].join}

\* The dispatcher has in hand, and before it in line, what was committed later and later.
Rising(numbers) == \A i, j \in DOMAIN numbers : i < j => numbers[i] < numbers[j]

\* The changes that have a notification of their own.
Heads == {n \in DOMAIN log : carrier[n] = n}

\* Every change has one, its own or that of an equal change before it.
Carried ==
    /\ Len(carrier) = Len(log)
    /\ \A n \in DOMAIN log : carrier[n] \in Heads /\ log[carrier[n]] = log[n]

InLine ==
    /\ Len(log) <= MaxChanges
    /\ Carried
    /\ dispatcher.to # {} => dispatcher.number # 0
    /\ dispatcher.number <= Len(log)
    /\ Rising(notify) /\ Rising(dispatcher.mailbox)
    /\ \A i \in DOMAIN dispatcher.mailbox, j \in DOMAIN notify : dispatcher.mailbox[i] < notify[j]
    /\ \A n \in Undispatched : dispatcher.number < n /\ n <= Len(log)

\* The changes of stream s came in order, and before all that is in hand or in line.
Ordered(s, number, line, length) ==
    /\ \A i, j \in DOMAIN s : i < j /\ s[i].type = "change" /\ s[j].type = "change"
                              => s[i].number <= s[j].number
    /\ \A i \in DOMAIN s : s[i].type = "change" =>
         /\ s[i].number <= length
         /\ number # 0 => s[i].number <= number
         /\ \A n \in line : s[i].number < n

\* The unsubscriptions of stream s that no subscription has followed yet.
Quiet(s) ==
    {i \in DOMAIN s : /\ s[i].type = "unsubscribed"
                      /\ \A k \in DOMAIN s : i < k => s[k].type # "subscribed"}

\* A change sent after an unsubscription was committed before it, or a subscription came
\* between; without one there are no rows to send a later change to.
Stopped(s, rows, pending, number) ==
    /\ \A i, j \in DOMAIN s :
         /\ i < j /\ s[i].type = "unsubscribed" /\ s[j].type = "change"
         /\ \A k \in i..j : s[k].type # "subscribed"
         => s[j].number <= s[i].at
    /\ pending # {} => \A i \in Quiet(s) : number <= s[i].at
    /\ rows # {} => Quiet(s) = {}

Confirmed(s) == {i \in DOMAIN s : s[i].type = "subscribed"}
Wanting(s, change) == {i \in Confirmed(s) : match(change, s[i].sub)}
Waiting(s, change, n) == {i \in Wanting(s, change) : s[i].at < n}

\* One row for each confirmed subscription.
Paired(s, rows) ==
    \E g \in [rows -> DOMAIN s] :
        /\ \A x, y \in rows : g[x] = g[y] => x = y
        /\ \A i \in Confirmed(s) : \E x \in rows : g[x] = i
        /\ \A x \in rows : g[x] \in Confirmed(s) /\ s[g[x]].sub = x.sub

\* Change n is in stream s, or about to be, as often as is due.
Counted(s, pending, number, n, change) ==
    Number(n, s) + (IF number # n THEN 0 ELSE Cardinality(pending))
        \in Cardinality(Waiting(s, change, n))..Cardinality(Wanting(s, change))

\* Client c is connected, has lost nothing and has not unsubscribed.
Steady(c) ==
    /\ client[c].undisturbed /\ channel[c].alive
    /\ \A i \in DOMAIN Stream(c) : Stream(c)[i].type # "unsubscribed"

\* The rows of a channel are numbered, and are no more than were asked for.
RowsNumbered(c) ==
    /\ channel[c].alive => channel[c].join > 0
    /\ \A row \in RowsOf(c) : row.ref <= Cardinality(RowsOf(c))
    /\ Cardinality(RowsOf(c)) + Cardinality(Asked(c)) <= used.commands

ClientInv(c) ==
    /\ RowsNumbered(c)
    /\ Ordered(Stream(c), dispatcher.number, Undispatched, Len(log))
    /\ Stopped(Stream(c), RowsOf(c), Pending(c), dispatcher.number)
    /\ Steady(c) => /\ Paired(Stream(c), RowsOf(c))
                    /\ \A n \in Heads \ Undispatched :
                         Counted(Stream(c), Pending(c), dispatcher.number, n, log[n])

IInv ==
    /\ TypeOK
    /\ IsFiniteSet(registry.rows) /\ IsFiniteSet(dispatcher.to)
    /\ \A row \in dispatcher.to : row.join <= channel[row.client].join
    /\ ~dispatcher.up => dispatcher = Gone
    /\ InLine
    /\ \A c \in Clients : ClientInv(c)

-----------------------------------------------------------------------------
(* Sequences.                                                               *)

\* A sequence and its end.
LEMMA Appended ==
    ASSUME NEW U, NEW s \in Seq(U), NEW m \in U
    PROVE  /\ Append(s, m) \in Seq(U)
           /\ Len(s) \in Nat /\ DOMAIN s = 1..Len(s)
           /\ Len(Append(s, m)) = Len(s) + 1
           /\ DOMAIN Append(s, m) = 1..(Len(s) + 1)
           /\ \A i \in 1..Len(s) : Append(s, m)[i] = s[i]
           /\ Append(s, m)[Len(s) + 1] = m
  <1>1. Append(s, m) \in Seq(U) /\ Len(s) \in Nat /\ DOMAIN s = 1..Len(s)
    BY LenProperties
  <1>2. Len(Append(s, m)) = Len(s) + 1
    OBVIOUS
  <1>3. DOMAIN Append(s, m) = 1..(Len(s) + 1)
    BY <1>1, <1>2, LenProperties
  <1>4. \A i \in 1..Len(s) : Append(s, m)[i] = s[i]
    BY <1>1
  <1>5. Append(s, m)[Len(s) + 1] = m
    BY <1>1
  <1> QED
    BY <1>1, <1>2, <1>3, <1>4, <1>5

\* A sequence and its beginning.
LEMMA Beginning ==
    ASSUME NEW U, NEW s \in Seq(U), s # <<>>
    PROVE  /\ Head(s) = s[1] /\ Head(s) \in U
           /\ Tail(s) \in Seq(U)
           /\ Len(s) \in Nat /\ Len(s) >= 1 /\ DOMAIN s = 1..Len(s)
           /\ Len(Tail(s)) = Len(s) - 1
           /\ DOMAIN Tail(s) = 1..(Len(s) - 1)
           /\ \A i \in 1..(Len(s) - 1) : Tail(s)[i] = s[i + 1]
  <1>1. /\ Head(s) \in U /\ Tail(s) \in Seq(U) /\ Len(Tail(s)) = Len(s) - 1
        /\ \A i \in 1..Len(Tail(s)) : Tail(s)[i] = s[i + 1]
    BY HeadTailProperties
  <1>2. Len(s) \in Nat /\ Len(s) >= 1 /\ DOMAIN s = 1..Len(s)
    BY EmptySeq, LenProperties
  <1>3. DOMAIN Tail(s) = 1..(Len(s) - 1)
    BY <1>1, LenProperties
  <1>4. Head(s) = s[1]
    OBVIOUS
  <1> QED
    BY <1>1, <1>2, <1>3, <1>4

\* Two sequences, one after the other.
LEMMA Joined ==
    ASSUME NEW U, NEW s \in Seq(U), NEW t \in Seq(U)
    PROVE  /\ s \o t \in Seq(U)
           /\ Len(s) \in Nat /\ Len(t) \in Nat
           /\ Len(s \o t) = Len(s) + Len(t)
           /\ DOMAIN (s \o t) = 1..(Len(s) + Len(t))
           /\ DOMAIN s = 1..Len(s) /\ DOMAIN t = 1..Len(t)
           /\ \A i \in 1..(Len(s) + Len(t)) :
                (s \o t)[i] = IF i <= Len(s) THEN s[i] ELSE t[i - Len(s)]
  <1>1. /\ s \o t \in Seq(U) /\ Len(s \o t) = Len(s) + Len(t)
        /\ \A i \in 1..(Len(s) + Len(t)) :
             (s \o t)[i] = IF i <= Len(s) THEN s[i] ELSE t[i - Len(s)]
    BY ConcatProperties
  <1>2. Len(s) \in Nat /\ Len(t) \in Nat /\ DOMAIN s = 1..Len(s) /\ DOMAIN t = 1..Len(t)
    BY LenProperties
  <1>3. DOMAIN (s \o t) = 1..(Len(s) + Len(t))
    BY <1>1, LenProperties
  <1> QED
    BY <1>1, <1>2, <1>3

\* The first element of t is turned into m and goes over to s.
LEMMA Turned ==
    ASSUME NEW U, NEW s \in Seq(U), NEW t \in Seq(U), t # <<>>, NEW m \in U
    PROVE  /\ Len(s) + 1 \in DOMAIN (s \o t) /\ (s \o t)[Len(s) + 1] = Head(t)
           /\ Append(s, m) \o Tail(t) = [s \o t EXCEPT ![Len(s) + 1] = m]
  <1> DEFINE all == s \o t
             p == Len(s) + 1
             a == Append(s, m)
             b == Tail(t)
             new == [all EXCEPT ![p] = m]
  <1>1. /\ all \in Seq(U) /\ Len(s) \in Nat /\ Len(t) \in Nat
        /\ Len(all) = Len(s) + Len(t) /\ DOMAIN all = 1..(Len(s) + Len(t))
        /\ \A i \in 1..(Len(s) + Len(t)) : all[i] = IF i <= Len(s) THEN s[i] ELSE t[i - Len(s)]
    BY Joined
  <1>2. /\ a \in Seq(U) /\ Len(a) = Len(s) + 1
        /\ \A i \in 1..Len(s) : a[i] = s[i]
        /\ a[Len(s) + 1] = m
    BY Appended
  <1>3. /\ b \in Seq(U) /\ Len(b) = Len(t) - 1 /\ Len(t) >= 1
        /\ \A i \in 1..(Len(t) - 1) : b[i] = t[i + 1]
        /\ Head(t) = t[1]
    BY Beginning
  <1>4. /\ a \o b \in Seq(U) /\ Len(a \o b) = Len(a) + Len(b)
        /\ \A i \in 1..(Len(a) + Len(b)) : (a \o b)[i] = IF i <= Len(a) THEN a[i] ELSE b[i - Len(a)]
    BY <1>2, <1>3, ConcatProperties
  <1>5. p \in 1..Len(all) /\ p - Len(s) = 1 /\ ~(p <= Len(s))
    BY <1>1, <1>3
  <1>6. all[p] = Head(t)
    BY <1>1, <1>3, <1>5
  <1> HIDE DEF all, a, b
  <1>7. /\ new \in Seq(U) /\ Len(new) = Len(all)
        /\ \A i \in 1..Len(all) : new[i] = IF i = p THEN m ELSE all[i]
    BY <1>1, <1>5, ExceptSeq
  <1> HIDE DEF new
  <1>8. Len(a \o b) = Len(new)
    BY <1>1, <1>2, <1>3, <1>4, <1>7
  <1>9. ASSUME NEW i \in 1..Len(new)
        PROVE  (a \o b)[i] = new[i]
    <2>1. i \in 1..(Len(s) + Len(t)) /\ i \in 1..(Len(a) + Len(b)) /\ i \in 1..Len(all)
      BY <1>1, <1>4, <1>7, <1>8
    <2>2. CASE i <= Len(s)
      <3>1. i \in 1..Len(s) /\ i <= Len(a) /\ i # p
        BY <1>1, <1>2, <2>1, <2>2
      <3>2. (a \o b)[i] = s[i]
        BY <1>2, <1>4, <2>1, <3>1
      <3>3. new[i] = s[i]
        BY <1>1, <1>7, <2>1, <2>2, <3>1
      <3> QED
        BY <3>2, <3>3
    <2>3. CASE i = p
      BY <1>1, <1>2, <1>4, <1>7, <2>1, <2>3
    <2>4. CASE i > p
      <3>1. (a \o b)[i] = b[i - p] /\ new[i] = t[i - Len(s)]
        BY <1>1, <1>2, <1>4, <1>7, <2>1, <2>4
      <3>2. i - p \in 1..(Len(t) - 1) /\ (i - p) + 1 = i - Len(s)
        BY <1>1, <2>1, <2>4
      <3>3. b[i - p] = t[(i - p) + 1]
        BY <1>3, <3>2
      <3> QED
        BY <3>1, <3>2, <3>3
    <2> QED
      BY <1>1, <2>1, <2>2, <2>3, <2>4
  <1>10. a \o b = new
    BY <1>4, <1>7, <1>8, <1>9, SeqEqual
  <1> QED
    BY <1>1, <1>5, <1>6, <1>10 DEF all, a, b, new

\* The first element of t goes over to s.
LEMMA Passed ==
    ASSUME NEW U, NEW s \in Seq(U), NEW t \in Seq(U), t # <<>>
    PROVE  Append(s, Head(t)) \o Tail(t) = s \o t
  <1>1. Head(t) \in U
    BY Beginning
  <1>2. /\ (s \o t)[Len(s) + 1] = Head(t)
        /\ Append(s, Head(t)) \o Tail(t) = [s \o t EXCEPT ![Len(s) + 1] = Head(t)]
    BY <1>1, Turned
  <1>3. s \o t \in Seq(U)
    BY ConcatProperties
  <1> QED
    BY <1>2, <1>3

\* A longer end makes a longer sequence.
LEMMA Longer ==
    ASSUME NEW U, NEW s \in Seq(U), NEW t \in Seq(U), NEW m \in U
    PROVE  s \o Append(t, m) = Append(s \o t, m)
  <1> DEFINE a == Append(t, m)
             all == s \o t
             x == s \o a
             y == Append(all, m)
  <1>1. /\ a \in Seq(U) /\ Len(a) = Len(t) + 1 /\ Len(t) \in Nat
        /\ \A i \in 1..Len(t) : a[i] = t[i]
        /\ a[Len(t) + 1] = m
    BY Appended
  <1>2. /\ all \in Seq(U) /\ Len(all) = Len(s) + Len(t) /\ Len(s) \in Nat
        /\ \A i \in 1..(Len(s) + Len(t)) : all[i] = IF i <= Len(s) THEN s[i] ELSE t[i - Len(s)]
    BY Joined
  <1>3. /\ x \in Seq(U) /\ Len(x) = Len(s) + Len(a)
        /\ \A i \in 1..(Len(s) + Len(a)) : x[i] = IF i <= Len(s) THEN s[i] ELSE a[i - Len(s)]
    BY <1>1, ConcatProperties
  <1>4. /\ y \in Seq(U) /\ Len(y) = Len(all) + 1
        /\ \A i \in 1..Len(all) : y[i] = all[i]
        /\ y[Len(all) + 1] = m
    BY <1>2, Appended
  <1> HIDE DEF a, all, x, y
  <1>5. Len(x) = Len(y)
    BY <1>1, <1>2, <1>3, <1>4
  <1>6. ASSUME NEW i \in 1..Len(x)
        PROVE  x[i] = y[i]
    <2>1. CASE i <= Len(s)
      <3>1. x[i] = s[i]
        BY <1>3, <2>1
      <3>2. i \in 1..(Len(s) + Len(t)) /\ i \in 1..Len(all)
        BY <1>1, <1>2, <1>3, <2>1
      <3>3. y[i] = s[i]
        BY <1>2, <1>4, <2>1, <3>2
      <3> QED
        BY <3>1, <3>3
    <2>2. CASE i > Len(s) /\ i <= Len(s) + Len(t)
      <3>1. x[i] = a[i - Len(s)] /\ i - Len(s) \in 1..Len(t) /\ y[i] = t[i - Len(s)]
        BY <1>1, <1>2, <1>3, <1>4, <2>2
      <3> QED
        BY <1>1, <3>1
    <2>3. CASE i = Len(s) + Len(t) + 1
      <3>1. x[i] = a[i - Len(s)] /\ i - Len(s) = Len(t) + 1
        BY <1>1, <1>2, <1>3, <2>3
      <3> QED
        BY <1>1, <1>2, <1>4, <2>3, <3>1
    <2> QED
      BY <1>1, <1>2, <1>3, <2>1, <2>2, <2>3
  <1> QED
    BY <1>3, <1>4, <1>5, <1>6, SeqEqual DEF a, all, x, y

-----------------------------------------------------------------------------
(* Streams.                                                                 *)

Message == Pushes \cup Mail

\* The kinds of messages, and what each carries.
LEMMA Kinds ==
    ASSUME NEW m \in Message
    PROVE  /\ m.type = "change" => m \in Pushes /\ m \in Mail /\ m.number \in Numbers
           /\ m.type = "subscribed" => m.at \in 0..MaxChanges /\ m.sub \in Subscriptions
           /\ m.type = "unsubscribed" => m.at \in 0..MaxChanges
           /\ m.type = "subscribe" => m.sub \in Subscriptions
           /\ m \in Mail => m.type \in {"subscribe", "unsubscribe", "change"}
           /\ m \in Pushes => m.type \in {"subscribed", "unsubscribed", "change"}
  BY DEF Message, Pushes, Mail

\* A client's stream is a sequence of messages, its first part of pushes and its second of mail.
LEMMA StreamType ==
    ASSUME TypeOK, NEW c \in Clients
    PROVE  /\ client[c].got \in Seq(Pushes) /\ client[c].wire \in Seq(Pushes)
           /\ Sent(c) \in Seq(Pushes) /\ Sent(c) \in Seq(Message)
           /\ channel[c].mailbox \in Seq(Mail) /\ channel[c].mailbox \in Seq(Message)
           /\ Stream(c) \in Seq(Message)
           /\ DOMAIN Stream(c) = 1..Len(Stream(c)) /\ Len(Stream(c)) \in Nat
  <1>1. /\ client[c] \in [wire : Seq(Pushes), got : Seq(Pushes), undisturbed : BOOLEAN]
        /\ channel[c] \in [join : 0..MaxJoins, alive : BOOLEAN, mailbox : Seq(Mail)]
    BY DEF TypeOK
  <1>2. client[c].got \in Seq(Pushes) /\ client[c].wire \in Seq(Pushes)
    BY <1>1
  <1>3. Sent(c) \in Seq(Pushes)
    BY <1>2, ConcatProperties DEF Sent
  <1>4. channel[c].mailbox \in Seq(Mail)
    BY <1>1
  <1>5. Sent(c) \in Seq(Message) /\ channel[c].mailbox \in Seq(Message)
    <2>1. Pushes \subseteq Message /\ Mail \subseteq Message
      BY DEF Message
    <2> QED
      BY <1>3, <1>4, <2>1, SeqMonotonic
  <1>6. Stream(c) \in Seq(Message)
    BY <1>5, ConcatProperties DEF Stream
  <1> QED
    BY <1>2, <1>3, <1>4, <1>5, <1>6, LenProperties

\* The relay passes a push on (proxyWS): the client was sent what it was sent.
LEMMA RelayedStream ==
    ASSUME TypeOK, NEW c \in Clients, client[c].wire # <<>>,
           client'[c].got = Append(client[c].got, Head(client[c].wire)),
           client'[c].wire = Tail(client[c].wire)
    PROVE  Sent(c)' = Sent(c)
  <1>1. client[c].got \in Seq(Pushes) /\ client[c].wire \in Seq(Pushes)
    BY StreamType
  <1> QED
    BY <1>1, Passed DEF Sent

\* A push on the wire (push).
LEMMA PushedSent ==
    ASSUME TypeOK, NEW c \in Clients, NEW m \in Pushes,
           client'[c].got = client[c].got, client'[c].wire = Append(client[c].wire, m)
    PROVE  Sent(c)' = Append(Sent(c), m)
  <1>1. client[c].got \in Seq(Pushes) /\ client[c].wire \in Seq(Pushes)
    BY StreamType
  <1> DEFINE a == client[c].got
             b == client[c].wire
  <1>2. Sent(c)' = a \o Append(b, m) /\ Sent(c) = a \o b
    BY DEF Sent
  <1>3. a \in Seq(Pushes) /\ b \in Seq(Pushes) /\ m \in Pushes
    BY <1>1
  <1> HIDE DEF a, b
  <1>4. a \o Append(b, m) = Append(a \o b, m)
    BY ONLY <1>3, Longer
  <1> QED
    BY <1>2, <1>4

\* The channel turns its next mail into push m.
LEMMA TurnedStream ==
    ASSUME TypeOK, NEW c \in Clients, NEW m \in Pushes, channel[c].mailbox # <<>>,
           client'[c].got = client[c].got, client'[c].wire = Append(client[c].wire, m),
           channel'[c].mailbox = Tail(channel[c].mailbox)
    PROVE  LET p == Len(Sent(c)) + 1
           IN  /\ p \in DOMAIN Stream(c)
               /\ Stream(c)[p] = Head(channel[c].mailbox)
               /\ Stream(c)' = [Stream(c) EXCEPT ![p] = m]
  <1>1. Sent(c)' = Append(Sent(c), m)
    BY PushedSent
  <1>2. Sent(c) \in Seq(Message) /\ channel[c].mailbox \in Seq(Message) /\ m \in Message
    BY StreamType DEF Message
  <1>3. Stream(c)' = Append(Sent(c), m) \o Tail(channel[c].mailbox)
    BY <1>1 DEF Stream
  <1>4. Stream(c) = Sent(c) \o channel[c].mailbox
    BY DEF Stream
  <1> DEFINE a == Sent(c)
             b == channel[c].mailbox
  <1>5. a \in Seq(Message) /\ b \in Seq(Message) /\ b # <<>> /\ m \in Message
    BY <1>2
  <1> HIDE DEF a, b
  <1>6. /\ Len(a) + 1 \in DOMAIN (a \o b) /\ (a \o b)[Len(a) + 1] = Head(b)
        /\ Append(a, m) \o Tail(b) = [a \o b EXCEPT ![Len(a) + 1] = m]
    BY ONLY <1>5, Turned
  <1> QED
    BY <1>3, <1>4, <1>6 DEF a, b

\* A message is delivered to the channel (Deliver).
LEMMA DeliveredStream ==
    ASSUME TypeOK, NEW c \in Clients, NEW m \in Mail, client'[c] = client[c],
           channel'[c].mailbox = Append(channel[c].mailbox, m)
    PROVE  Stream(c)' = Append(Stream(c), m)
  <1>1. Sent(c) \in Seq(Message) /\ channel[c].mailbox \in Seq(Message) /\ m \in Message
    BY StreamType DEF Message
  <1>2. Sent(c)' = Sent(c)
    BY DEF Sent
  <1> DEFINE a == Sent(c)
             b == channel[c].mailbox
  <1>3. Stream(c)' = a \o Append(b, m) /\ Stream(c) = a \o b
    BY <1>2 DEF Stream
  <1>4. a \in Seq(Message) /\ b \in Seq(Message) /\ m \in Message
    BY <1>1
  <1> HIDE DEF a, b
  <1>5. a \o Append(b, m) = Append(a \o b, m)
    BY ONLY <1>4, Longer
  <1> QED
    BY <1>3, <1>5

\* After a join or an end nothing has been sent.
LEMMA EmptyStream ==
    ASSUME NEW c, client'[c] = Unheard, channel'[c].mailbox = <<>>
    PROVE  Sent(c)' = <<>> /\ Stream(c)' = <<>>
  <1>1. <<>> \in Seq({}) /\ (<<>> \o <<>>) = <<>>
    BY EmptySeq, ConcatEmptySeq
  <1>2. client'[c].got = <<>> /\ client'[c].wire = <<>>
    BY DEF Unheard
  <1>3. Sent(c)' = <<>>
    BY <1>1, <1>2 DEF Sent
  <1> QED
    BY <1>1, <1>3 DEF Stream

\* Stream t has message m at p, where s has nothing yet or a command; otherwise they agree.
OneMore(s, t, p, m) ==
    /\ Len(s) \in Nat /\ DOMAIN s = 1..Len(s) /\ p \in Nat
    /\ DOMAIN t = DOMAIN s \cup {p}
    /\ p \in DOMAIN s => s[p].type \in {"subscribe", "unsubscribe"}
    /\ t[p] = m
    /\ \A i \in DOMAIN s : i # p => t[i] = s[i]

\* What is delivered is one more, at the end.
LEMMA DeliveredIsMore ==
    ASSUME NEW s \in Seq(Message), NEW m \in Message
    PROVE  /\ OneMore(s, Append(s, m), Len(s) + 1, m)
           /\ \A i \in DOMAIN s : i < Len(s) + 1
  <1> DEFINE t == Append(s, m)
             p == Len(s) + 1
  <1>1. /\ Len(s) \in Nat /\ DOMAIN s = 1..Len(s) /\ DOMAIN t = 1..(Len(s) + 1)
        /\ \A i \in 1..Len(s) : t[i] = s[i]
        /\ t[p] = m
    BY Appended
  <1> HIDE DEF t
  <1>2. p \in Nat /\ DOMAIN t = DOMAIN s \cup {p} /\ p \notin DOMAIN s
    BY <1>1
  <1> QED
    BY <1>1, <1>2 DEF OneMore, t

\* What is turned is one more, where the command was.
LEMMA TurnedIsMore ==
    ASSUME NEW s \in Seq(Message), NEW p \in DOMAIN s, NEW m \in Message,
           s[p].type \in {"subscribe", "unsubscribe"}
    PROVE  OneMore(s, [s EXCEPT ![p] = m], p, m)
  <1>1. DOMAIN s = 1..Len(s) /\ Len(s) \in Nat
    BY LenProperties
  <1> QED
    BY <1>1 DEF OneMore

-----------------------------------------------------------------------------
(* Order and silence on a stream with one more message.                     *)

\* A change is only sent after what was sent before it, and from the dispatcher's hand.
LEMMA OrderedMore ==
    ASSUME NEW s, NEW t, NEW p, NEW m, OneMore(s, t, p, m),
           NEW number \in Nat, NEW line, NEW length, Ordered(s, number, line, length),
           m.type = "change" =>
             /\ \A i \in DOMAIN s : i < p
             /\ m.number = number /\ number # 0 /\ number <= length
             /\ \A n \in line : number < n
    PROVE  Ordered(t, number, line, length)
  <1>1. \A i \in DOMAIN t : (i \in DOMAIN s /\ t[i] = s[i]) \/ (i = p /\ t[i] = m)
    BY DEF OneMore
  <1>2. ASSUME NEW i \in DOMAIN t, t[i].type = "change"
        PROVE  /\ t[i].number <= length
               /\ number # 0 => t[i].number <= number
               /\ \A n \in line : t[i].number < n
    BY <1>1, <1>2 DEF Ordered
  <1>3. ASSUME NEW i \in DOMAIN t, NEW j \in DOMAIN t, i < j,
               t[i].type = "change", t[j].type = "change"
        PROVE  t[i].number <= t[j].number
    <2>1. CASE i = p /\ t[i] = m
      <3>1. j \in DOMAIN s /\ j \in Nat /\ p \in Nat
        BY <1>1, <1>3, <2>1 DEF OneMore
      <3> QED
        BY <1>3, <2>1, <3>1
    <2>2. CASE j = p /\ t[j] = m /\ i \in DOMAIN s /\ t[i] = s[i]
      BY <1>3, <2>2 DEF Ordered
    <2>3. CASE i \in DOMAIN s /\ t[i] = s[i] /\ j \in DOMAIN s /\ t[j] = s[j]
      BY <1>3, <2>3 DEF Ordered
    <2> QED
      BY <1>1, <1>3, <2>1, <2>2, <2>3
  <1> QED
    BY <1>2, <1>3 DEF Ordered

\* Between two places of the longer stream nothing has been taken away.
LEMMA StillBetween ==
    ASSUME NEW s, NEW t, NEW p, NEW m, OneMore(s, t, p, m),
           NEW i \in DOMAIN s, NEW j \in DOMAIN s,
           \A k \in i..j : t[k].type # "subscribed"
    PROVE  \A k \in i..j : s[k].type # "subscribed"
  <1>1. ASSUME NEW k \in i..j
        PROVE  s[k].type # "subscribed"
    <2>1. k \in DOMAIN s
      BY DEF OneMore
    <2> QED
      BY <1>1, <2>1 DEF OneMore
  <1> QED
    BY <1>1

\* A command is no mark.
LEMMA StoppedCommand ==
    ASSUME NEW s, NEW t, NEW p, NEW m, OneMore(s, t, p, m), m.type \in {"subscribe", "unsubscribe"},
           NEW rows, NEW pending, NEW number, Stopped(s, rows, pending, number)
    PROVE  Stopped(t, rows, pending, number) /\ Quiet(t) = Quiet(s)
  <1>1. \A i \in DOMAIN t : t[i].type \in {"change", "subscribed", "unsubscribed"} =>
             i \in DOMAIN s /\ i # p /\ t[i] = s[i]
    BY DEF OneMore
  <1>2. \A i \in DOMAIN s : i \in DOMAIN t /\ (i # p => t[i] = s[i])
    BY DEF OneMore
  <1>3. p \in DOMAIN s => s[p].type \in {"subscribe", "unsubscribe"}
    BY DEF OneMore
  <1>4. Quiet(t) = Quiet(s)
    <2>1. ASSUME NEW i \in Quiet(t)
          PROVE  i \in Quiet(s)
      BY <1>1, <1>2, <1>3 DEF Quiet
    <2>2. ASSUME NEW i \in Quiet(s)
          PROVE  i \in Quiet(t)
      BY <1>1, <1>2, <1>3 DEF Quiet
    <2> QED
      BY <2>1, <2>2
  <1>5. ASSUME NEW i \in DOMAIN t, NEW j \in DOMAIN t, i < j,
               t[i].type = "unsubscribed", t[j].type = "change",
               \A k \in i..j : t[k].type # "subscribed"
        PROVE  t[j].number <= t[i].at
    <2>1. i \in DOMAIN s /\ j \in DOMAIN s /\ t[i] = s[i] /\ t[j] = s[j]
      BY <1>1, <1>5
    <2>2. \A k \in i..j : s[k].type # "subscribed"
      BY <1>5, <2>1, StillBetween
    <2> QED
      BY <1>5, <2>1, <2>2 DEF Stopped
  <1>6. \A i \in Quiet(t) : t[i] = s[i]
    BY <1>1 DEF Quiet
  <1> QED
    BY <1>4, <1>5, <1>6 DEF Stopped

\* A change comes to one who is waiting.
LEMMA StoppedChange ==
    ASSUME NEW s, NEW t, NEW p, NEW m, OneMore(s, t, p, m), m.type = "change",
           \A i \in DOMAIN s : i < p,
           NEW rows, NEW pending, NEW number, Stopped(s, rows, pending, number),
           pending # {}, m.number = number,
           NEW fewer, NEW next, fewer # {} => next = number
    PROVE  Stopped(t, rows, fewer, next)
  <1>1. p \notin DOMAIN s /\ p \in DOMAIN t /\ t[p] = m /\ \A i \in DOMAIN s : i \in DOMAIN t /\ t[i] = s[i]
    BY DEF OneMore
  <1>2. \A i \in DOMAIN t : i = p \/ i \in DOMAIN s
    BY DEF OneMore
  <1>3. Quiet(t) = Quiet(s)
    <2>1. ASSUME NEW i \in Quiet(t)
          PROVE  i \in Quiet(s)
      BY <1>1, <1>2 DEF Quiet
    <2>2. ASSUME NEW i \in Quiet(s)
          PROVE  i \in Quiet(t)
      BY <1>1, <1>2 DEF Quiet
    <2> QED
      BY <2>1, <2>2
  <1>4. ASSUME NEW i \in DOMAIN t, NEW j \in DOMAIN t, i < j,
               t[i].type = "unsubscribed", t[j].type = "change",
               \A k \in i..j : t[k].type # "subscribed"
        PROVE  t[j].number <= t[i].at
    <2>1. i \in DOMAIN s /\ t[i] = s[i]
      BY <1>1, <1>2, <1>4
    <2>2. CASE j = p
      <3>1. ASSUME NEW k \in DOMAIN s, i < k
            PROVE  s[k].type # "subscribed"
        <4>1. k < p /\ k \in Nat /\ p \in Nat /\ i \in Nat
          BY <2>1 DEF OneMore
        <4>2. k \in i..j
          BY <2>2, <3>1, <4>1
        <4> QED
          BY <1>1, <1>4, <4>2
      <3>2. i \in Quiet(s)
        BY <1>4, <2>1, <3>1 DEF Quiet
      <3> QED
        BY <1>1, <2>1, <2>2, <3>2 DEF Stopped
    <2>3. CASE j \in DOMAIN s
      <3>1. \A k \in i..j : s[k].type # "subscribed"
        BY <1>4, <2>1, <2>3, StillBetween
      <3> QED
        BY <1>1, <1>4, <2>1, <2>3, <3>1 DEF Stopped
    <2> QED
      BY <1>2, <2>2, <2>3
  <1>5. \A i \in Quiet(t) : t[i] = s[i]
    BY <1>1, <1>3 DEF Quiet
  <1> QED
    BY <1>3, <1>4, <1>5 DEF Stopped

\* A subscription ends every silence.
LEMMA StoppedSubscribed ==
    ASSUME NEW s, NEW t, NEW p, NEW m, OneMore(s, t, p, m), m.type = "subscribed",
           \A i \in DOMAIN s : s[i].type = "unsubscribed" => i < p,
           NEW rows, NEW pending, NEW number, Stopped(s, rows, pending, number), NEW more
    PROVE  Stopped(t, more, pending, number)
  <1>1. p \in DOMAIN t /\ t[p] = m
    BY DEF OneMore
  <1>2. \A i \in DOMAIN t : t[i].type \in {"change", "unsubscribed"} => i \in DOMAIN s /\ t[i] = s[i]
    BY DEF OneMore
  <1>3. Quiet(t) = {}
    BY <1>1, <1>2 DEF Quiet
  <1>4. ASSUME NEW i \in DOMAIN t, NEW j \in DOMAIN t, i < j,
               t[i].type = "unsubscribed", t[j].type = "change",
               \A k \in i..j : t[k].type # "subscribed"
        PROVE  t[j].number <= t[i].at
    <2>1. i \in DOMAIN s /\ j \in DOMAIN s /\ t[i] = s[i] /\ t[j] = s[j]
      BY <1>2, <1>4
    <2>2. \A k \in i..j : s[k].type # "subscribed"
      BY <1>4, <2>1, StillBetween
    <2> QED
      BY <1>4, <2>1, <2>2 DEF Stopped
  <1> QED
    BY <1>3, <1>4 DEF Stopped

\* An unsubscription comes after all changes so far were committed.
LEMMA StoppedUnsubscribed ==
    ASSUME NEW s, NEW t, NEW p, NEW m, OneMore(s, t, p, m), m.type = "unsubscribed",
           NEW rows, NEW pending, NEW number, Stopped(s, rows, pending, number),
           \A i \in DOMAIN s : s[i].type = "change" => s[i].number <= m.at,
           number <= m.at
    PROVE  Stopped(t, {}, pending, number)
  <1>1. p \in DOMAIN t /\ t[p] = m
    BY DEF OneMore
  <1>2. \A i \in DOMAIN t : t[i].type \in {"change", "unsubscribed"} => i = p \/ (i \in DOMAIN s /\ t[i] = s[i])
    BY DEF OneMore
  <1>3. ASSUME NEW i \in Quiet(t), pending # {}
        PROVE  number <= t[i].at
    <2>1. CASE i = p
      BY <1>1, <2>1
    <2>2. CASE i \in DOMAIN s /\ t[i] = s[i]
      <3>1. ASSUME NEW k \in DOMAIN s, i < k
            PROVE  s[k].type # "subscribed"
        BY <3>1 DEF Quiet, OneMore
      <3>2. i \in Quiet(s)
        BY <2>2, <3>1 DEF Quiet
      <3> QED
        BY <1>3, <2>2, <3>2 DEF Stopped
    <2> QED
      BY <1>2, <2>1, <2>2 DEF Quiet
  <1>4. ASSUME NEW i \in DOMAIN t, NEW j \in DOMAIN t, i < j,
               t[i].type = "unsubscribed", t[j].type = "change",
               \A k \in i..j : t[k].type # "subscribed"
        PROVE  t[j].number <= t[i].at
    <2>1. j \in DOMAIN s /\ t[j] = s[j]
      BY <1>1, <1>2, <1>4
    <2>2. CASE i = p
      BY <1>1, <1>4, <2>1, <2>2
    <2>3. CASE i \in DOMAIN s /\ t[i] = s[i]
      <3>1. \A k \in i..j : s[k].type # "subscribed"
        BY <1>4, <2>1, <2>3, StillBetween
      <3> QED
        BY <1>4, <2>1, <2>3, <3>1 DEF Stopped
    <2> QED
      BY <1>2, <1>4, <2>2, <2>3
  <1> QED
    BY <1>3, <1>4 DEF Stopped

-----------------------------------------------------------------------------
(* Counting.                                                                *)

\* The places in a stream are finitely many.
LEMMA PlacesFinite ==
    ASSUME NEW s, Len(s) \in Nat, DOMAIN s = 1..Len(s), NEW T, T \subseteq DOMAIN s
    PROVE  IsFiniteSet(T) /\ Cardinality(T) \in Nat
  <1>1. IsFiniteSet(1..Len(s))
    BY FS_Interval
  <1>2. IsFiniteSet(T)
    BY <1>1, FS_Subset
  <1> QED
    BY <1>2, FS_CardinalityType

\* One more message is one more copy of the change it tells of, if it tells of one.
LEMMA NumberMore ==
    ASSUME NEW s, NEW t, NEW p, NEW m, OneMore(s, t, p, m), NEW n,
           m.type = "change" => p \notin DOMAIN s
    PROVE  /\ Number(n, s) \in Nat /\ Number(n, t) \in Nat
           /\ Number(n, t) = IF m.type = "change" /\ m.number = n THEN Number(n, s) + 1
                             ELSE Number(n, s)
  <1> DEFINE A == {i \in DOMAIN s : s[i].type = "change" /\ s[i].number = n}
             B == {i \in DOMAIN t : t[i].type = "change" /\ t[i].number = n}
  <1>1. /\ DOMAIN t = DOMAIN s \cup {p} /\ t[p] = m
        /\ \A i \in DOMAIN s : i # p => t[i] = s[i]
        /\ p \in DOMAIN s => s[p].type # "change"
    BY DEF OneMore
  <1>2. IsFiniteSet(A) /\ Cardinality(A) \in Nat
    BY PlacesFinite DEF OneMore
  <1>3. Number(n, s) = Cardinality(A) /\ Number(n, t) = Cardinality(B)
    BY DEF Number
  <1>4. CASE m.type = "change" /\ m.number = n
    <2>1. B = A \cup {p} /\ p \notin A
      BY <1>1, <1>4
    <2> HIDE DEF A, B
    <2>2. Cardinality(B) = Cardinality(A) + 1
      BY <1>2, <2>1, FS_AddElement
    <2> QED
      BY <1>2, <1>3, <1>4, <2>2
  <1>5. CASE ~(m.type = "change" /\ m.number = n)
    <2>1. B = A
      BY <1>1, <1>5
    <2> QED
      BY <1>2, <1>3, <1>5, <2>1
  <1> QED
    BY <1>4, <1>5

\* The confirmed subscriptions of a stream are finitely many.
LEMMA ConfirmedFinite ==
    ASSUME NEW s \in Seq(Message), NEW change, NEW n
    PROVE  /\ IsFiniteSet(Wanting(s, change)) /\ Cardinality(Wanting(s, change)) \in Nat
           /\ IsFiniteSet(Waiting(s, change, n)) /\ Cardinality(Waiting(s, change, n)) \in Nat
           /\ Cardinality(Waiting(s, change, n)) <= Cardinality(Wanting(s, change))
  <1>1. Len(s) \in Nat /\ DOMAIN s = 1..Len(s)
    BY LenProperties
  <1>2. Wanting(s, change) \subseteq DOMAIN s /\ Waiting(s, change, n) \subseteq Wanting(s, change)
    BY DEF Wanting, Waiting, Confirmed
  <1>3. IsFiniteSet(Wanting(s, change)) /\ Cardinality(Wanting(s, change)) \in Nat
    BY <1>1, <1>2, PlacesFinite
  <1>4. /\ IsFiniteSet(Waiting(s, change, n))
        /\ Cardinality(Waiting(s, change, n)) <= Cardinality(Wanting(s, change))
    BY <1>2, <1>3, FS_Subset
  <1> QED
    BY <1>3, <1>4, FS_CardinalityType

\* What is no confirmation confirms nothing.
LEMMA ConfirmedSame ==
    ASSUME NEW s, NEW t, NEW p, NEW m, OneMore(s, t, p, m), m.type # "subscribed",
           NEW change, NEW n
    PROVE  /\ Confirmed(t) = Confirmed(s)
           /\ \A i \in Confirmed(s) : t[i] = s[i]
           /\ Wanting(t, change) = Wanting(s, change)
           /\ Waiting(t, change, n) = Waiting(s, change, n)
  <1>1. /\ DOMAIN t = DOMAIN s \cup {p} /\ t[p] = m
        /\ \A i \in DOMAIN s : i # p => t[i] = s[i]
        /\ p \in DOMAIN s => s[p].type # "subscribed"
    BY DEF OneMore
  <1>2. Confirmed(t) = Confirmed(s) /\ \A i \in Confirmed(s) : t[i] = s[i]
    BY <1>1 DEF Confirmed
  <1>3. Wanting(t, change) = Wanting(s, change)
    BY <1>2 DEF Wanting
  <1>4. \A i \in Wanting(s, change) : t[i] = s[i]
    BY <1>2 DEF Wanting
  <1> QED
    BY <1>2, <1>3, <1>4 DEF Waiting

\* A confirmation is one more, and waits for no change that was committed before it.
LEMMA ConfirmedMore ==
    ASSUME NEW s, NEW t, NEW p, NEW m, OneMore(s, t, p, m), m.type = "subscribed",
           NEW change, NEW n, ~(m.at < n)
    PROVE  /\ Confirmed(t) = Confirmed(s) \cup {p} /\ p \notin Confirmed(s)
           /\ \A i \in Confirmed(s) : t[i] = s[i]
           /\ Wanting(s, change) \subseteq Wanting(t, change)
           /\ Waiting(t, change, n) = Waiting(s, change, n)
  <1>1. /\ DOMAIN t = DOMAIN s \cup {p} /\ t[p] = m
        /\ \A i \in DOMAIN s : i # p => t[i] = s[i]
        /\ p \in DOMAIN s => s[p].type # "subscribed"
    BY DEF OneMore
  <1>2. /\ Confirmed(t) = Confirmed(s) \cup {p} /\ p \notin Confirmed(s)
        /\ \A i \in Confirmed(s) : t[i] = s[i]
    BY <1>1 DEF Confirmed
  <1>3. /\ \A i \in Wanting(s, change) : i \in Wanting(t, change)
        /\ \A i \in Wanting(t, change) : i = p \/ i \in Wanting(s, change)
        /\ \A i \in Wanting(s, change) : t[i] = s[i]
    BY <1>2 DEF Wanting
  <1>4. Waiting(t, change, n) = Waiting(s, change, n)
    BY <1>1, <1>3 DEF Waiting
  <1> QED
    BY <1>2, <1>3, <1>4

\* A new row for a new confirmation.
LEMMA PairedMore ==
    ASSUME NEW s, NEW t, NEW p, NEW m, OneMore(s, t, p, m), m.type = "subscribed",
           NEW rows, Paired(s, rows), NEW row, row \notin rows, row.sub = m.sub
    PROVE  Paired(t, rows \cup {row})
  <1>1. /\ DOMAIN t = DOMAIN s \cup {p} /\ t[p] = m
        /\ \A i \in DOMAIN s : i # p => t[i] = s[i]
        /\ p \in DOMAIN s => s[p].type # "subscribed"
    BY DEF OneMore
  <1>2. PICK g \in [rows -> DOMAIN s] :
             /\ \A x, y \in rows : g[x] = g[y] => x = y
             /\ \A i \in Confirmed(s) : \E x \in rows : g[x] = i
             /\ \A x \in rows : g[x] \in Confirmed(s) /\ s[g[x]].sub = x.sub
    BY DEF Paired
  <1>3. /\ Confirmed(t) = Confirmed(s) \cup {p} /\ p \notin Confirmed(s)
        /\ \A i \in Confirmed(s) : t[i] = s[i]
    BY <1>1 DEF Confirmed
  <1> DEFINE h == [x \in rows \cup {row} |-> IF x = row THEN p ELSE g[x]]
  <1>4. h \in [rows \cup {row} -> DOMAIN t] /\ h[row] = p /\ \A x \in rows : h[x] = g[x]
    BY <1>1, <1>2
  <1> HIDE DEF h
  <1>5. \A x, y \in rows \cup {row} : h[x] = h[y] => x = y
    BY <1>2, <1>3, <1>4
  <1>6. \A i \in Confirmed(t) : \E x \in rows \cup {row} : h[x] = i
    BY <1>2, <1>3, <1>4
  <1>7. \A x \in rows \cup {row} : h[x] \in Confirmed(t) /\ t[h[x]].sub = x.sub
    BY <1>1, <1>2, <1>3, <1>4
  <1> QED
    BY <1>4, <1>5, <1>6, <1>7 DEF Paired

\* Otherwise rows and confirmations stay paired.
LEMMA PairedSame ==
    ASSUME NEW s, NEW t, NEW p, NEW m, OneMore(s, t, p, m), m.type # "subscribed",
           NEW rows, Paired(s, rows)
    PROVE  Paired(t, rows)
  <1>1. DOMAIN s \subseteq DOMAIN t
    BY DEF OneMore
  <1>2. PICK g \in [rows -> DOMAIN s] :
             /\ \A x, y \in rows : g[x] = g[y] => x = y
             /\ \A i \in Confirmed(s) : \E x \in rows : g[x] = i
             /\ \A x \in rows : g[x] \in Confirmed(s) /\ s[g[x]].sub = x.sub
    BY DEF Paired
  <1>3. Confirmed(t) = Confirmed(s) /\ \A i \in Confirmed(s) : t[i] = s[i]
    BY ConfirmedSame
  <1>4. g \in [rows -> DOMAIN t]
    BY <1>1, <1>2
  <1> QED
    BY <1>2, <1>3, <1>4 DEF Paired

\* As many rows match a change as confirmed subscriptions do.
LEMMA MatchingRows ==
    ASSUME NEW s \in Seq(Message), NEW rows, Paired(s, rows), NEW change
    PROVE  Cardinality({row \in rows : match(change, row.sub)}) = Cardinality(Wanting(s, change))
  <1> DEFINE R == {row \in rows : match(change, row.sub)}
             W == Wanting(s, change)
  <1>1. PICK g \in [rows -> DOMAIN s] :
             /\ \A x, y \in rows : g[x] = g[y] => x = y
             /\ \A i \in Confirmed(s) : \E x \in rows : g[x] = i
             /\ \A x \in rows : g[x] \in Confirmed(s) /\ s[g[x]].sub = x.sub
    BY DEF Paired
  <1> DEFINE h == [x \in R |-> g[x]]
  <1>2. \A x \in R : x \in rows /\ h[x] = g[x] /\ h[x] \in W
    BY <1>1 DEF Wanting
  <1>3. \A i \in W : \E x \in R : h[x] = i
    <2>1. ASSUME NEW i \in W
          PROVE  \E x \in R : h[x] = i
      <3>1. PICK x \in rows : g[x] = i
        BY <1>1 DEF Wanting
      <3>2. x \in R
        BY <1>1, <3>1 DEF Wanting
      <3> QED
        BY <1>2, <3>1, <3>2
    <2> QED
      BY <2>1
  <1>4. h \in [R -> W]
    BY <1>2
  <1> HIDE DEF h, R, W
  <1>5. h \in Injection(R, W) /\ h \in Surjection(R, W)
    <2>1. \A x, y \in R : h[x] = h[y] => x = y
      BY <1>1, <1>2
    <2> QED
      BY <1>3, <1>4, <2>1 DEF Injection, Surjection, IsInjective
  <1>6. IsFiniteSet(W)
    BY ConfirmedFinite DEF W
  <1> QED
    BY <1>5, <1>6, FS_Injection DEF R, W

\* A change is counted once on each side of the join.
LEMMA NumberJoined ==
    ASSUME NEW s \in Seq(Message), NEW t \in Seq(Message), NEW n
    PROVE  Number(n, s \o t) = Number(n, s) + Number(n, t)
  <1> DEFINE all == s \o t
             A == {i \in DOMAIN s : s[i].type = "change" /\ s[i].number = n}
             B == {i \in DOMAIN t : t[i].type = "change" /\ t[i].number = n}
             C == {i \in DOMAIN all : all[i].type = "change" /\ all[i].number = n}
             D == {i \in C : i > Len(s)}
             h == [i \in B |-> Len(s) + i]
  <1>1. /\ Len(s) \in Nat /\ Len(t) \in Nat
        /\ DOMAIN all = 1..(Len(s) + Len(t)) /\ DOMAIN s = 1..Len(s) /\ DOMAIN t = 1..Len(t)
        /\ \A i \in 1..(Len(s) + Len(t)) : all[i] = IF i <= Len(s) THEN s[i] ELSE t[i - Len(s)]
    BY Joined
  <1> HIDE DEF all
  <1>2. C = A \cup D /\ A \cap D = {}
    <2>1. ASSUME NEW i \in C
          PROVE  i \in A \/ i \in D
      BY <1>1
    <2>2. ASSUME NEW i \in A
          PROVE  i \in C /\ i \notin D
      BY <1>1
    <2> QED
      BY <2>1, <2>2
  <1>3. \A i \in B : Len(s) + i \in D
    <2>1. ASSUME NEW i \in B
          PROVE  Len(s) + i \in D
      <3>1. /\ i \in 1..Len(t) /\ Len(s) + i \in 1..(Len(s) + Len(t)) /\ ~(Len(s) + i <= Len(s))
            /\ (Len(s) + i) - Len(s) = i
        BY <1>1
      <3>2. all[Len(s) + i] = t[i]
        BY <1>1, <3>1
      <3> QED
        BY <1>1, <3>1, <3>2
    <2> QED
      BY <2>1
  <1>4. \A j \in D : \E i \in B : Len(s) + i = j
    <2>1. ASSUME NEW j \in D
          PROVE  j - Len(s) \in B /\ Len(s) + (j - Len(s)) = j
      <3>1. j \in 1..(Len(s) + Len(t)) /\ ~(j <= Len(s)) /\ j - Len(s) \in 1..Len(t)
        BY <1>1
      <3>2. all[j] = t[j - Len(s)]
        BY <1>1, <3>1
      <3> QED
        BY <1>1, <3>1, <3>2
    <2> QED
      BY <2>1
  <1>5. h \in Bijection(B, D)
    <2>1. \A i \in B : i \in Nat /\ h[i] = Len(s) + i
      BY <1>1
    <2>2. h \in [B -> D]
      BY <1>3
    <2> HIDE DEF h, D, B
    <2>3. \A x, y \in B : h[x] = h[y] => x = y
      BY <1>1, <2>1
    <2>4. \A j \in D : \E i \in B : h[i] = j
      BY <1>4, <2>1
    <2> QED
      BY <2>2, <2>3, <2>4 DEF Bijection, Injection, Surjection, IsInjective
  <1>6. IsFiniteSet(A) /\ IsFiniteSet(B) /\ Cardinality(A) \in Nat /\ Cardinality(B) \in Nat
    BY <1>1, PlacesFinite
  <1> HIDE DEF A, B, C, D, h
  <1>7. IsFiniteSet(D) /\ Cardinality(D) = Cardinality(B)
    BY <1>5, <1>6, FS_Bijection DEF ExistsBijection
  <1>8. Cardinality(C) = Cardinality(A) + Cardinality(D) - Cardinality(A \cap D)
    BY <1>2, <1>6, <1>7, FS_Union
  <1>9. Cardinality(A \cap D) = 0
    BY <1>2, FS_EmptySet
  <1>10. Cardinality(C) = Cardinality(A) + Cardinality(B)
    BY <1>6, <1>7, <1>8, <1>9
  <1> QED
    BY <1>10 DEF Number, A, B, C, all

-----------------------------------------------------------------------------
(* The line of changes before the dispatcher.                               *)

Elements(s) == {s[i] : i \in DOMAIN s}

\* The first of line b goes over to line a, which is before it.
LEMMA LineMoves ==
    ASSUME NEW a \in Seq(Numbers), NEW b \in Seq(Numbers), b # <<>>,
           Rising(a), Rising(b), \A i \in DOMAIN a, j \in DOMAIN b : a[i] < b[j]
    PROVE  /\ Append(a, Head(b)) \in Seq(Numbers) /\ Tail(b) \in Seq(Numbers)
           /\ Rising(Append(a, Head(b))) /\ Rising(Tail(b))
           /\ \A i \in DOMAIN Append(a, Head(b)), j \in DOMAIN Tail(b) : Append(a, Head(b))[i] < Tail(b)[j]
           /\ \A i \in DOMAIN a, j \in DOMAIN Tail(b) : a[i] < Tail(b)[j]
           /\ Elements(Append(a, Head(b))) \cup Elements(Tail(b)) = Elements(a) \cup Elements(b)
           /\ Elements(Tail(b)) \subseteq Elements(b)
           /\ Head(b) \in Elements(b)
  <1> DEFINE n == Head(b)
             x == Append(a, n)
             y == Tail(b)
  <1>1. /\ n = b[1] /\ n \in Numbers /\ y \in Seq(Numbers)
        /\ Len(b) \in Nat /\ Len(b) >= 1 /\ DOMAIN b = 1..Len(b)
        /\ DOMAIN y = 1..(Len(b) - 1)
        /\ \A i \in 1..(Len(b) - 1) : y[i] = b[i + 1]
    BY Beginning
  <1>2. /\ x \in Seq(Numbers)
        /\ Len(a) \in Nat /\ DOMAIN a = 1..Len(a) /\ DOMAIN x = 1..(Len(a) + 1)
        /\ \A i \in 1..Len(a) : x[i] = a[i]
        /\ x[Len(a) + 1] = n
    BY <1>1, Appended
  <1> HIDE DEF n, x, y
  <1>3. 1 \in DOMAIN b /\ \A i \in DOMAIN y : i + 1 \in DOMAIN b /\ 1 < i + 1 /\ y[i] = b[i + 1]
    BY <1>1
  <1>4. \A i \in DOMAIN x : (i \in DOMAIN a /\ x[i] = a[i]) \/ (i = Len(a) + 1 /\ x[i] = b[1])
    BY <1>1, <1>2
  <1>5. Rising(y)
    <2>1. ASSUME NEW i \in DOMAIN y, NEW j \in DOMAIN y, i < j
          PROVE  y[i] < y[j]
      <3>1. i + 1 < j + 1
        BY <1>1, <2>1
      <3> QED
        BY <1>3, <3>1 DEF Rising
    <2> QED
      BY <2>1 DEF Rising
  <1>6. Rising(x)
    <2>1. ASSUME NEW i \in DOMAIN x, NEW j \in DOMAIN x, i < j
          PROVE  x[i] < x[j]
      <3>1. i \in DOMAIN a /\ x[i] = a[i]
        BY <1>2, <2>1
      <3> QED
        BY <1>3, <1>4, <2>1, <3>1 DEF Rising
    <2> QED
      BY <2>1 DEF Rising
  <1>7. \A i \in DOMAIN x, j \in DOMAIN y : x[i] < y[j]
    BY <1>3, <1>4 DEF Rising
  <1>8. \A i \in DOMAIN a, j \in DOMAIN y : a[i] < y[j]
    BY <1>3
  <1>9. Elements(x) \cup Elements(y) = Elements(a) \cup Elements(b)
    <2>1. ASSUME NEW v \in Elements(x) \cup Elements(y)
          PROVE  v \in Elements(a) \cup Elements(b)
      BY <1>3, <1>4 DEF Elements
    <2>2. ASSUME NEW i \in DOMAIN a
          PROVE  a[i] \in Elements(x)
      BY <1>2 DEF Elements
    <2>3. ASSUME NEW j \in DOMAIN b
          PROVE  b[j] \in Elements(x) \cup Elements(y)
      <3>1. CASE j = 1
        <4>1. Len(a) + 1 \in DOMAIN x /\ x[Len(a) + 1] = b[j]
          BY <1>1, <1>2, <3>1
        <4> QED
          BY <4>1 DEF Elements
      <3>2. CASE j # 1
        <4>1. j - 1 \in DOMAIN y /\ y[j - 1] = b[j]
          BY <1>1, <3>2
        <4> QED
          BY <4>1 DEF Elements
      <3> QED
        BY <3>1, <3>2
    <2> QED
      BY <2>1, <2>2, <2>3 DEF Elements
  <1>10. Elements(y) \subseteq Elements(b) /\ n \in Elements(b)
    BY <1>1, <1>3 DEF Elements
  <1> QED
    BY <1>1, <1>2, <1>5, <1>6, <1>7, <1>8, <1>9, <1>10 DEF n, x, y

\* The first of a line is taken: it is before all others.
LEMMA LineTaken ==
    ASSUME NEW a \in Seq(Numbers), a # <<>>, Rising(a)
    PROVE  /\ Tail(a) \in Seq(Numbers) /\ Rising(Tail(a))
           /\ Head(a) \in Elements(a) /\ Head(a) \in Numbers
           /\ Elements(a) = Elements(Tail(a)) \cup {Head(a)}
           /\ \A n \in Elements(Tail(a)) : Head(a) < n
  <1> DEFINE n == Head(a)
             y == Tail(a)
  <1>1. /\ n = a[1] /\ n \in Numbers /\ y \in Seq(Numbers)
        /\ Len(a) \in Nat /\ Len(a) >= 1 /\ DOMAIN a = 1..Len(a)
        /\ DOMAIN y = 1..(Len(a) - 1)
        /\ \A i \in 1..(Len(a) - 1) : y[i] = a[i + 1]
    BY Beginning
  <1> HIDE DEF n, y
  <1>2. 1 \in DOMAIN a /\ \A i \in DOMAIN y : i + 1 \in DOMAIN a /\ 1 < i + 1 /\ y[i] = a[i + 1]
    BY <1>1
  <1>3. Rising(y)
    <2>1. ASSUME NEW i \in DOMAIN y, NEW j \in DOMAIN y, i < j
          PROVE  y[i] < y[j]
      <3>1. i + 1 < j + 1
        BY <1>1, <2>1
      <3> QED
        BY <1>2, <3>1 DEF Rising
    <2> QED
      BY <2>1 DEF Rising
  <1>4. Elements(a) = Elements(y) \cup {n}
    <2>1. ASSUME NEW j \in DOMAIN a
          PROVE  a[j] \in Elements(y) \cup {n}
      <3>1. CASE j = 1
        BY <1>1, <3>1
      <3>2. CASE j # 1
        <4>1. j - 1 \in DOMAIN y /\ y[j - 1] = a[j]
          BY <1>1, <3>2
        <4> QED
          BY <4>1 DEF Elements
      <3> QED
        BY <3>1, <3>2
    <2> QED
      BY <1>1, <1>2, <2>1 DEF Elements
  <1>5. \A i \in Elements(y) : n < i
    BY <1>1, <1>2 DEF Elements, Rising
  <1>6. n \in Elements(a)
    BY <1>1, <1>2 DEF Elements
  <1> QED
    BY <1>1, <1>3, <1>4, <1>5, <1>6 DEF n, y

\* Later changes go to the end of a line.
LEMMA LineGrows ==
    ASSUME NEW a \in Seq(Numbers), Rising(a), NEW b \in Seq(Numbers), Rising(b),
           \A i \in Elements(a), j \in Elements(b) : i < j
    PROVE  /\ a \o b \in Seq(Numbers) /\ Rising(a \o b)
           /\ Elements(a \o b) = Elements(a) \cup Elements(b)
  <1> DEFINE x == a \o b
  <1>1. /\ x \in Seq(Numbers) /\ Len(a) \in Nat /\ Len(b) \in Nat
        /\ DOMAIN a = 1..Len(a) /\ DOMAIN b = 1..Len(b) /\ DOMAIN x = 1..(Len(a) + Len(b))
        /\ \A i \in 1..(Len(a) + Len(b)) : x[i] = IF i <= Len(a) THEN a[i] ELSE b[i - Len(a)]
    BY Joined
  <1> HIDE DEF x
  <1>2. ASSUME NEW i \in DOMAIN x
        PROVE  \/ i <= Len(a) /\ i \in DOMAIN a /\ x[i] = a[i]
               \/ i > Len(a) /\ i - Len(a) \in DOMAIN b /\ x[i] = b[i - Len(a)]
    BY <1>1
  <1>3. Rising(x)
    <2>1. ASSUME NEW i \in DOMAIN x, NEW j \in DOMAIN x, i < j
          PROVE  x[i] < x[j]
      <3>1. CASE j <= Len(a)
        <4>1. i <= Len(a)
          BY <1>1, <2>1, <3>1
        <4>2. i \in DOMAIN a /\ x[i] = a[i] /\ j \in DOMAIN a /\ x[j] = a[j]
          BY <1>1, <1>2, <3>1, <4>1
        <4> QED
          BY <2>1, <4>2 DEF Rising
      <3>2. CASE i <= Len(a) /\ j > Len(a)
        <4>1. i \in DOMAIN a /\ x[i] = a[i] /\ j - Len(a) \in DOMAIN b /\ x[j] = b[j - Len(a)]
          BY <1>1, <1>2, <3>2
        <4> QED
          BY <4>1 DEF Elements
      <3>3. CASE i > Len(a) /\ j > Len(a)
        <4>1. /\ i - Len(a) \in DOMAIN b /\ x[i] = b[i - Len(a)]
              /\ j - Len(a) \in DOMAIN b /\ x[j] = b[j - Len(a)]
          BY <1>1, <1>2, <3>3
        <4>2. i - Len(a) < j - Len(a)
          BY <1>1, <2>1
        <4> QED
          BY <4>1, <4>2 DEF Rising
      <3> QED
        BY <1>1, <3>1, <3>2, <3>3
    <2> QED
      BY <2>1 DEF Rising
  <1>4. Elements(x) = Elements(a) \cup Elements(b)
    <2>1. \A v \in Elements(x) : v \in Elements(a) \cup Elements(b)
      BY <1>2 DEF Elements
    <2>2. \A i \in DOMAIN a : a[i] \in Elements(x)
      <3>1. ASSUME NEW i \in DOMAIN a
            PROVE  i \in DOMAIN x /\ x[i] = a[i]
        BY <1>1
      <3> QED
        BY <3>1 DEF Elements
    <2>3. \A i \in DOMAIN b : b[i] \in Elements(x)
      <3>1. ASSUME NEW i \in DOMAIN b
            PROVE  Len(a) + i \in DOMAIN x /\ x[Len(a) + i] = b[i]
        <4>1. Len(a) + i \in 1..(Len(a) + Len(b)) /\ ~(Len(a) + i <= Len(a)) /\ (Len(a) + i) - Len(a) = i
          BY <1>1
        <4> QED
          BY <1>1, <4>1
      <3> QED
        BY <3>1 DEF Elements
    <2> QED
      BY <2>1, <2>2, <2>3 DEF Elements
  <1> QED
    BY <1>1, <1>3, <1>4 DEF x

\* A list of a set has the set's elements, in order (InOrder).
LEMMA Listed ==
    ASSUME NEW S \in SUBSET Numbers, IsFiniteSet(S), NEW queue \in InOrder(S)
    PROVE  queue \in Seq(Numbers) /\ Rising(queue) /\ Elements(queue) = S
  <1>1. /\ queue \in [1..Cardinality(S) -> S] /\ DOMAIN queue = 1..Cardinality(S)
        /\ \A n \in S : \E i \in DOMAIN queue : queue[i] = n
        /\ \A i, j \in DOMAIN queue : i < j => queue[i] < queue[j]
    BY DEF InOrder
  <1>2. Cardinality(S) \in Nat
    BY FS_CardinalityType
  <1>3. queue \in Seq(Numbers)
    <2>1. queue \in [1..Cardinality(S) -> Numbers]
      BY <1>1
    <2> QED
      BY <1>2, <2>1, IsASeq
  <1>4. Elements(queue) = S
    BY <1>1 DEF Elements
  <1> QED
    BY <1>1, <1>3, <1>4 DEF Rising

\* Of the changes of a transaction that are equal to one of them, one is the first.
LEMMA FirstEqualIsFirst ==
    ASSUME NEW s \in Seq(Changes), NEW i \in 1..Len(s)
    PROVE  LET j == FirstEqual(s, i)
           IN  /\ j \in 1..Len(s) /\ s[j] = s[i]
               /\ FirstEqual(s, j) = j
  <1> DEFINE T == {1..j : j \in {k \in 1..i : s[k] = s[i]}}
             First(k, j) == /\ j \in 1..k /\ s[j] = s[k]
                            /\ \A m \in 1..(j - 1) : s[m] # s[k]
  <1>1. Len(s) \in Nat /\ i \in Nat /\ i \in 1..i /\ IsFiniteSet(1..i)
    BY LenProperties, FS_Interval
  <1>2. T \subseteq SUBSET (1..i) /\ T # {}
    <2>1. (1..i) \in T
      BY <1>1
    <2>2. \A j \in 1..i : (1..j) \subseteq (1..i)
      BY <1>1
    <2> QED
      BY <2>1, <2>2
  <1>3. PICK t \in T : \A u \in T : ~(<<u, t>> \in StrictSubsetOrdering(1..i))
    <2>1. IsWellFoundedOn(StrictSubsetOrdering(1..i), SUBSET (1..i))
      BY <1>1, FS_FiniteSubsetsOfFinite, FS_StrictSubsetOrderingWellFounded
    <2> HIDE DEF T
    <2> QED
      BY <1>2, <2>1, WFMin
  <1>4. PICK j \in 1..i : t = 1..j /\ s[j] = s[i]
    OBVIOUS
  <1>5. First(i, j)
    <2>1. ASSUME NEW m \in 1..(j - 1), s[m] = s[i]
          PROVE  FALSE
      <3>1. m \in 1..i /\ (1..m) \in T /\ j \notin 1..m /\ j \in 1..j /\ (1..m) \subseteq (1..j)
        BY <1>1, <2>1
      <3>2. (1..m) \in SUBSET (1..i) /\ (1..j) \in SUBSET (1..i) /\ (1..m) # (1..j)
        BY <1>1, <3>1
      <3>3. <<1..m, 1..j>> \in StrictSubsetOrdering(1..i)
        BY <3>1, <3>2 DEF StrictSubsetOrdering
      <3> QED
        BY <1>3, <1>4, <3>1, <3>3
    <2> QED
      BY <1>4, <2>1
  <1> HIDE DEF T
  <1> DEFINE f == FirstEqual(s, i)
             g == FirstEqual(s, f)
  <1>6. First(i, f)
    BY <1>5 DEF FirstEqual
  <1> HIDE DEF f
  <1>7. f \in 1..f /\ First(f, f)
    BY <1>1, <1>6
  <1>8. First(f, g)
    BY <1>7 DEF FirstEqual
  <1> HIDE DEF g
  <1>9. g = f
    BY <1>1, <1>6, <1>7, <1>8
  <1> QED
    BY <1>1, <1>6, <1>9 DEF f, g

-----------------------------------------------------------------------------
(* What a step leaves to a client.                                          *)

\* The types, one by one.
LEMMA Basics ==
    ASSUME IInv
    PROVE  /\ log \in Seq(Changes) /\ Len(log) \in Nat /\ DOMAIN log = 1..Len(log)
           /\ carrier \in Seq(Numbers) /\ Carried /\ Heads \subseteq DOMAIN log
           /\ Len(log) \in 0..MaxChanges
           /\ notify \in Seq(Numbers) /\ dispatcher.mailbox \in Seq(Numbers)
           /\ dispatcher \in [up : BOOLEAN, mailbox : Seq(Numbers), number : 0..MaxChanges,
                              to : SUBSET Row]
           /\ dispatcher.number \in Nat /\ dispatcher.to \subseteq Row
           /\ registry \in [up : BOOLEAN, rows : SUBSET Row]
           /\ used.commands \in Nat
           /\ Undispatched = Elements(notify) \cup Elements(dispatcher.mailbox)
           /\ \A n \in Undispatched : n \in Nat
  <1>1. /\ {MaxChanges, MaxCommands} \subseteq Nat
        /\ log \in Seq(Changes) /\ notify \in Seq(Numbers) /\ Len(log) <= MaxChanges
        /\ carrier \in Seq(Numbers) /\ Carried /\ Heads \subseteq DOMAIN log
        /\ dispatcher \in [up : BOOLEAN, mailbox : Seq(Numbers), number : 0..MaxChanges,
                           to : SUBSET Row]
        /\ registry \in [up : BOOLEAN, rows : SUBSET Row]
        /\ used \in [commands : 0..MaxCommands, faults : 0..MaxFaults]
    BY RealtimeAssumption DEF IInv, TypeOK, InLine, Heads
  <1>2. Len(log) \in Nat /\ DOMAIN log = 1..Len(log)
    BY <1>1, LenProperties
  <1>3. Undispatched = Elements(notify) \cup Elements(dispatcher.mailbox)
    BY DEF Undispatched, Elements
  <1>4. dispatcher.mailbox \in Seq(Numbers) /\ dispatcher.to \subseteq Row
    BY <1>1
  <1>5. /\ dispatcher.number \in Nat /\ used.commands \in Nat /\ Len(log) \in 0..MaxChanges
    BY <1>1, <1>2
  <1>6. \A n \in Elements(notify) : n \in Nat
    <2>1. \A i \in 1..Len(notify) : notify[i] \in Numbers
      BY <1>1, ElementOfSeq
    <2>2. DOMAIN notify = 1..Len(notify)
      BY <1>1, LenProperties
    <2> QED
      BY <2>1, <2>2 DEF Elements, Numbers
  <1>7. \A n \in Elements(dispatcher.mailbox) : n \in Nat
    <2>1. \A i \in 1..Len(dispatcher.mailbox) : dispatcher.mailbox[i] \in Numbers
      BY <1>4, ElementOfSeq
    <2>2. DOMAIN dispatcher.mailbox = 1..Len(dispatcher.mailbox)
      BY <1>4, LenProperties
    <2> QED
      BY <2>1, <2>2 DEF Elements, Numbers
  <1> QED
    BY <1>1, <1>2, <1>3, <1>4, <1>5, <1>6, <1>7

\* A client has finitely many rows and requests for them.
LEMMA ClientFinite ==
    ASSUME IInv, NEW c \in Clients
    PROVE  /\ IsFiniteSet(RowsOf(c)) /\ Cardinality(RowsOf(c)) \in Nat
           /\ IsFiniteSet(Pending(c)) /\ Cardinality(Pending(c)) \in Nat
           /\ IsFiniteSet(Asked(c)) /\ Cardinality(Asked(c)) \in Nat
  <1>1. IsFiniteSet(RowsOf(c)) /\ IsFiniteSet(Pending(c))
    BY FS_Subset DEF IInv, RowsOf, Pending
  <1>2. IsFiniteSet(Asked(c)) /\ Cardinality(Asked(c)) \in Nat
    <2>1. channel[c].mailbox \in Seq(Mail)
      BY StreamType DEF IInv
    <2>2. Len(channel[c].mailbox) \in Nat /\ DOMAIN channel[c].mailbox = 1..Len(channel[c].mailbox)
      BY <2>1, LenProperties
    <2>3. Asked(c) \subseteq DOMAIN channel[c].mailbox
      BY DEF Asked
    <2> QED
      BY <2>2, <2>3, PlacesFinite
  <1> QED
    BY <1>1, <1>2, FS_CardinalityType

\* Nothing happens to client c but that it may have lost a change.
LEMMA ClientStays ==
    ASSUME IInv, NEW c \in Clients,
           Stream(c)' = Stream(c), channel'[c] = channel[c], log' = log /\ carrier' = carrier,
           RowsOf(c)' = RowsOf(c) \/ (RowsOf(c)' = {} /\ ~client'[c].undisturbed),
           client'[c].undisturbed => client[c].undisturbed /\ Undispatched' = Undispatched,
           Undispatched' \subseteq Undispatched,
           \/ dispatcher'.number = dispatcher.number /\ Pending(c)' = Pending(c)
           \/ dispatcher'.number = 0 /\ Pending(c)' = {} /\ ~client'[c].undisturbed,
           used'.commands \in Nat, used.commands <= used'.commands
    PROVE  ClientInv(c)'
  <1>1. ClientInv(c)
    BY DEF IInv
  <1>2. RowsNumbered(c)'
    <2>1. Asked(c)' = Asked(c)
      BY DEF Asked
    <2>2. /\ Cardinality(RowsOf(c)) \in Nat /\ Cardinality(Asked(c)) \in Nat /\ used.commands \in Nat
          /\ Cardinality({}) = 0
      BY ClientFinite, Basics, FS_EmptySet
    <2>3. CASE RowsOf(c)' = RowsOf(c)
      BY <1>1, <2>1, <2>2, <2>3 DEF ClientInv, RowsNumbered
    <2>4. CASE RowsOf(c)' = {}
      BY <1>1, <2>1, <2>2, <2>4 DEF ClientInv, RowsNumbered
    <2> QED
      BY <2>3, <2>4
  <1>3. Ordered(Stream(c), dispatcher.number, Undispatched, Len(log))'
    BY <1>1 DEF ClientInv, Ordered
  <1>4. Stopped(Stream(c), RowsOf(c), Pending(c), dispatcher.number)'
    BY <1>1 DEF ClientInv, Stopped
  <1>5. ASSUME Steady(c)'
        PROVE  /\ Paired(Stream(c), RowsOf(c))'
               /\ \A n \in Heads' \ Undispatched' :
                    Counted(Stream(c)', Pending(c)', dispatcher'.number, n, log'[n])
    <2>1. Steady(c)
      BY <1>5 DEF Steady
    <2>2. /\ RowsOf(c)' = RowsOf(c) /\ Undispatched' = Undispatched
          /\ dispatcher'.number = dispatcher.number /\ Pending(c)' = Pending(c)
      BY <1>5 DEF Steady
    <2> QED
      BY <1>1, <2>1, <2>2 DEF ClientInv, Heads
  <1> QED
    BY <1>2, <1>3, <1>4, <1>5 DEF ClientInv

\* A change is lost (Disturbed): the streams stay, but nobody can count on all of it.
LEMMA DisturbedClients ==
    ASSUME IInv, client' = Disturbed, channel' = channel
    PROVE  /\ client' \in [Clients -> [wire : Seq(Pushes), got : Seq(Pushes), undisturbed : BOOLEAN]]
           /\ \A c \in Clients : Stream(c)' = Stream(c) /\ ~client'[c].undisturbed
  <1>1. ASSUME NEW c \in Clients
        PROVE  /\ client'[c] \in [wire : Seq(Pushes), got : Seq(Pushes), undisturbed : BOOLEAN]
               /\ client'[c].wire = client[c].wire /\ client'[c].got = client[c].got
               /\ ~client'[c].undisturbed
    <2>1. client[c] \in [wire : Seq(Pushes), got : Seq(Pushes), undisturbed : BOOLEAN]
      BY DEF IInv, TypeOK
    <2>2. client'[c] = [client[c] EXCEPT !.undisturbed = FALSE]
      BY DEF Disturbed
    <2> QED
      BY <2>1, <2>2
  <1>2. client' \in [Clients -> [wire : Seq(Pushes), got : Seq(Pushes), undisturbed : BOOLEAN]]
    <2>1. client' = [c \in Clients |-> client'[c]]
      BY DEF Disturbed
    <2> QED
      BY <1>1, <2>1
  <1> QED
    BY <1>1, <1>2 DEF Stream, Sent

\* Nothing happens to the clients that they can see.
LEMMA SameClients ==
    ASSUME client' = client, channel' = channel
    PROVE  \A c : Stream(c)' = Stream(c)
  BY DEF Stream, Sent

\* A fault is counted (Fault).
LEMMA FaultCounted ==
    ASSUME IInv, Fault
    PROVE  /\ used' \in [commands : 0..MaxCommands, faults : 0..MaxFaults]
           /\ used'.commands = used.commands
           /\ used'.commands \in Nat /\ used.commands <= used'.commands
  <1>1. used \in [commands : 0..MaxCommands, faults : 0..MaxFaults] /\ MaxFaults \in Nat
    BY RealtimeAssumption DEF IInv, TypeOK
  <1>2. used.faults + 1 \in 0..MaxFaults
    BY <1>1 DEF Fault
  <1>3. used' = [used EXCEPT !.faults = used.faults + 1]
    BY DEF Fault
  <1>4. used' \in [commands : 0..MaxCommands, faults : 0..MaxFaults] /\ used'.commands = used.commands
    BY <1>1, <1>2, <1>3
  <1> QED
    BY <1>4, Basics

-----------------------------------------------------------------------------
(* PostgreSQL and the listener.                                             *)

\* The changes of a transaction go to the end of the log, and share their notifications
\* among themselves.
LEMMA Committed ==
    ASSUME IInv, Commit
    PROVE  /\ log' \in Seq(Changes) /\ carrier' \in Seq(Numbers)
           /\ Len(log') \in Nat /\ Len(log) <= Len(log') /\ Len(log') <= MaxChanges
           /\ DOMAIN log = 1..Len(log) /\ DOMAIN log' = 1..Len(log')
           /\ \A k \in DOMAIN log : log'[k] = log[k] /\ carrier'[k] = carrier[k]
           /\ Carried'
  <1>1. PICK transaction \in Transactions :
            /\ Len(log) + Len(transaction) <= MaxChanges
            /\ log' = log \o transaction
            /\ carrier' = carrier \o
                 [i \in 1..Len(transaction) |-> Len(log) + FirstEqual(transaction, i)]
    BY DEF Commit
  <1> DEFINE s == transaction
             n == Len(log)
             m == Len(s)
             shared == [i \in 1..m |-> n + FirstEqual(s, i)]
  <1>2. /\ s \in Seq(Changes) /\ log \in Seq(Changes) /\ carrier \in Seq(Numbers)
        /\ n \in Nat /\ m \in Nat /\ MaxChanges \in Nat /\ n + m <= MaxChanges
        /\ DOMAIN log = 1..n /\ DOMAIN s = 1..m
        /\ Carried /\ Heads \subseteq DOMAIN log
    <2>1. s \in Seq(Changes)
      BY RealtimeAssumption
    <2> QED
      BY <1>1, <2>1, RealtimeAssumption, Basics, LenProperties
  <1>3. log' = log \o s /\ carrier' = carrier \o shared
    BY <1>1
  <1> HIDE DEF s, n, m
  <1>4. \A i \in 1..m : FirstEqual(s, i) \in 1..m /\ s[FirstEqual(s, i)] = s[i]
                        /\ FirstEqual(s, FirstEqual(s, i)) = FirstEqual(s, i)
    BY <1>2, FirstEqualIsFirst DEF m
  <1>5. /\ shared \in Seq(Numbers) /\ Len(shared) = m
        /\ \A i \in 1..m : shared[i] = n + FirstEqual(s, i)
    <2>1. \A i \in 1..m : n + FirstEqual(s, i) \in Numbers
      BY <1>2, <1>4 DEF Numbers
    <2>2. shared \in [1..m -> Numbers]
      BY <2>1
    <2> QED
      BY <1>2, <2>2, IsASeq, LenProperties
  <1> HIDE DEF shared
  <1>6. /\ log' \in Seq(Changes) /\ Len(log') = n + m /\ DOMAIN log' = 1..(n + m)
        /\ \A i \in 1..(n + m) : log'[i] = IF i <= n THEN log[i] ELSE s[i - n]
    BY <1>2, <1>3, Joined DEF n, m
  <1>7. /\ carrier' \in Seq(Numbers) /\ Len(carrier') = n + m
        /\ \A i \in 1..(n + m) : carrier'[i] = IF i <= n THEN carrier[i] ELSE shared[i - n]
    <2>1. Len(carrier) = n
      BY <1>2 DEF Carried, n
    <2> QED
      BY <1>2, <1>3, <1>5, <2>1, Joined
  <1>8. ASSUME NEW k \in 1..(n + m)
        PROVE  carrier'[k] \in Heads' /\ log'[carrier'[k]] = log'[k]
    <2>1. CASE k <= n
      <3>1. carrier'[k] = carrier[k] /\ log'[k] = log[k] /\ k \in DOMAIN log
        BY <1>2, <1>6, <1>7, <1>8, <2>1
      <3>2. carrier[k] \in 1..n /\ carrier[carrier[k]] = carrier[k] /\ log[carrier[k]] = log[k]
        BY <1>2, <3>1 DEF Carried, Heads
      <3>3. carrier[k] \in 1..(n + m) /\ carrier[k] <= n
        BY <1>2, <3>2
      <3>4. carrier'[carrier[k]] = carrier[k] /\ log'[carrier[k]] = log[k]
        BY <1>6, <1>7, <3>2, <3>3
      <3> QED
        BY <1>6, <3>1, <3>3, <3>4 DEF Heads
    <2>2. CASE k > n
      <3> DEFINE i == k - n
                 j == FirstEqual(s, i)
      <3>1. i \in 1..m /\ ~(k <= n)
        BY <1>2, <1>8, <2>2
      <3>2. carrier'[k] = n + j /\ log'[k] = s[i]
        BY <1>5, <1>6, <1>7, <1>8, <3>1
      <3>3. j \in 1..m /\ s[j] = s[i] /\ FirstEqual(s, j) = j
        BY <1>4, <3>1
      <3> HIDE DEF i, j
      <3>4. n + j \in 1..(n + m) /\ ~(n + j <= n) /\ (n + j) - n = j
        BY <1>2, <3>3
      <3>5. carrier'[n + j] = shared[j] /\ log'[n + j] = s[j]
        BY <1>6, <1>7, <3>4
      <3>6. shared[j] = n + j
        BY <1>5, <3>3
      <3> QED
        BY <1>6, <3>2, <3>3, <3>4, <3>5, <3>6 DEF Heads
    <2> QED
      BY <1>2, <1>8, <2>1, <2>2
  <1>9. Carried'
    BY <1>6, <1>7, <1>8 DEF Carried
  <1>10. \A k \in DOMAIN log : log'[k] = log[k] /\ carrier'[k] = carrier[k]
    <2>1. ASSUME NEW k \in DOMAIN log
          PROVE  k \in 1..(n + m) /\ k <= n
      BY <1>2
    <2> QED
      BY <1>6, <1>7, <2>1
  <1> QED
    BY <1>2, <1>6, <1>7, <1>9, <1>10 DEF n

\* What a client was sent was committed before.
LEMMA SentCommitted ==
    ASSUME IInv, NEW c \in Clients
    PROVE  \A i \in DOMAIN Stream(c) : Stream(c)[i].type = "change" =>
               Stream(c)[i].number \in Nat /\ Stream(c)[i].number <= Len(log)
  <1>1. ASSUME NEW i \in DOMAIN Stream(c), Stream(c)[i].type = "change"
        PROVE  Stream(c)[i].number \in Nat /\ Stream(c)[i].number <= Len(log)
    <2>1. Stream(c)[i] \in Message
      BY StreamType, ElementOfSeq DEF IInv
    <2>2. Stream(c)[i].number \in Nat
      BY <1>1, <2>1, Kinds DEF Numbers
    <2> QED
      BY <1>1, <2>2 DEF IInv, ClientInv, Ordered
  <1> QED
    BY <1>1

\* A transaction commits: its notifications go to the end of the line, or are lost for
\* everybody.
LEMMA CommitKeeps ==
    ASSUME IInv, Commit
    PROVE  IInv'
  <1> DEFINE new == {k \in (DOMAIN log') \ (DOMAIN log) : carrier'[k] = k}
  <1>1. /\ log' \in Seq(Changes) /\ carrier' \in Seq(Numbers)
        /\ Len(log) \in Nat /\ Len(log') \in Nat /\ Len(log) <= Len(log') /\ Len(log') <= MaxChanges
        /\ DOMAIN log = 1..Len(log) /\ DOMAIN log' = 1..Len(log') /\ MaxChanges \in Nat
        /\ \A k \in DOMAIN log : log'[k] = log[k] /\ carrier'[k] = carrier[k]
        /\ Carried'
    BY Committed, Basics, RealtimeAssumption
  <1>2. /\ new \subseteq Numbers /\ IsFiniteSet(new)
        /\ \A k \in new : Len(log) < k /\ k <= Len(log')
        /\ Heads' = Heads \cup new
    <2>1. new \subseteq 1..Len(log') /\ IsFiniteSet(1..Len(log'))
      BY <1>1, FS_Interval
    <2>2. IsFiniteSet(new)
      BY <2>1, FS_Subset
    <2> QED
      BY <1>1, <2>1, <2>2 DEF Heads, Numbers
  <1>3. UNCHANGED <<listener, dispatcher, registry, channel, used>>
    BY DEF Commit
  <1>4. /\ Rising(notify) /\ Rising(dispatcher.mailbox)
        /\ \A i \in DOMAIN dispatcher.mailbox, j \in DOMAIN notify : dispatcher.mailbox[i] < notify[j]
        /\ \A k \in Undispatched : dispatcher.number < k /\ k <= Len(log) /\ k <= Len(log')
        /\ \A k \in Undispatched, l \in new : k < l
        /\ dispatcher.number <= Len(log) /\ dispatcher.number <= Len(log')
        /\ \A k \in new : dispatcher.number < k
        /\ dispatcher.to # {} => dispatcher.number # 0
    BY <1>1, <1>2, Basics DEF IInv, InLine
  <1>5. \A c \in Clients : RowsOf(c)' = RowsOf(c) /\ Pending(c)' = Pending(c) /\ RowsNumbered(c)'
    <2>1. ASSUME NEW c \in Clients
          PROVE  RowsOf(c)' = RowsOf(c) /\ Pending(c)' = Pending(c) /\ Asked(c)' = Asked(c) /\ RowsNumbered(c)
      BY <1>3 DEF RowsOf, Pending, Asked, IInv, ClientInv
    <2> QED
      BY <1>3, <2>1 DEF RowsNumbered
  <1> HIDE DEF new
  <1>6. CASE listener = "listening"
    <2>1. PICK queue \in InOrder(new) : notify' = notify \o queue
      BY <1>6 DEF Commit, new
    <2>2. client' = client
      BY <1>6 DEF Commit
    <2>3. queue \in Seq(Numbers) /\ Rising(queue) /\ Elements(queue) = new
      BY <1>2, Listed
    <2>4. /\ notify' \in Seq(Numbers) /\ Rising(notify')
          /\ Elements(notify') = Elements(notify) \cup new
      <3>1. \A i \in Elements(notify), j \in Elements(queue) : i < j
        BY <1>4, <2>3, Basics
      <3> QED
        BY <1>4, <2>1, <2>3, <3>1, Basics, LineGrows
    <2>5. Undispatched' = Undispatched \cup new
      BY <1>3, <2>4, Basics DEF Undispatched, Elements
    <2>6. TypeOK'
      BY <1>1, <1>3, <2>2, <2>4 DEF IInv, TypeOK
    <2>7. ASSUME NEW i \in DOMAIN dispatcher.mailbox, NEW j \in DOMAIN notify'
          PROVE  dispatcher.mailbox[i] < notify'[j]
      <3>1. notify'[j] \in Elements(notify) \cup new
        BY <2>4 DEF Elements
      <3>2. dispatcher.mailbox[i] \in Undispatched
        BY DEF Undispatched
      <3>3. CASE notify'[j] \in new
        BY <1>4, <3>2, <3>3
      <3>4. CASE notify'[j] \in Elements(notify)
        BY <1>4, <3>4 DEF Elements
      <3> QED
        BY <3>1, <3>3, <3>4
    <2>8. InLine'
      <3>1. \A k \in Undispatched' : dispatcher.number < k /\ k <= Len(log')
        BY <1>2, <1>4, <2>5
      <3> QED
        BY <1>1, <1>3, <1>4, <2>4, <2>7, <3>1 DEF InLine
    <2>9. ASSUME NEW c \in Clients
          PROVE  ClientInv(c)'
      <3>1. ClientInv(c) /\ Stream(c)' = Stream(c)
        BY <1>3, <2>2, SameClients DEF IInv
      <3>2. \A i \in DOMAIN Stream(c) : Stream(c)[i].type = "change" =>
                 /\ Stream(c)[i].number <= Len(log')
                 /\ \A k \in new : Stream(c)[i].number < k
        <4>1. \A i \in DOMAIN Stream(c) : Stream(c)[i].type = "change" =>
                 Stream(c)[i].number \in Nat /\ Stream(c)[i].number <= Len(log)
          BY SentCommitted
        <4>2. \A k \in new : k \in Nat /\ Len(log) < k
          BY <1>2 DEF Numbers
        <4> QED
          BY <1>1, <4>1, <4>2
      <3>3. Ordered(Stream(c), dispatcher.number, Undispatched', Len(log'))
        BY <2>5, <3>1, <3>2 DEF ClientInv, Ordered
      <3>4. Steady(c)' <=> Steady(c)
        BY <1>3, <2>2, <3>1 DEF Steady
      <3>5. \A k \in Heads' \ Undispatched' : k \in Heads \ Undispatched /\ log'[k] = log[k]
        BY <1>1, <1>2, <2>5, Basics
      <3>6. Steady(c)' => /\ Paired(Stream(c), RowsOf(c))'
                          /\ \A k \in Heads' \ Undispatched' :
                               Counted(Stream(c)', Pending(c)', dispatcher'.number, k, log'[k])
        BY <1>3, <1>5, <3>1, <3>4, <3>5 DEF ClientInv
      <3>7. Stopped(Stream(c), RowsOf(c), Pending(c), dispatcher.number)'
        BY <1>3, <1>5, <3>1 DEF ClientInv
      <3> QED
        BY <1>3, <1>5, <3>1, <3>3, <3>6, <3>7 DEF ClientInv
    <2> QED
      BY <1>3, <2>6, <2>8, <2>9 DEF IInv
  <1>7. CASE listener # "listening"
    <2>1. notify' = notify /\ client' = Disturbed
      BY <1>7 DEF Commit
    <2>2. Undispatched' = Undispatched
      BY <1>3, <2>1 DEF Undispatched
    <2>3. TypeOK'
      BY <1>1, <1>3, <2>1, DisturbedClients DEF IInv, TypeOK
    <2>4. InLine'
      BY <1>1, <1>3, <1>4, <2>1, <2>2 DEF InLine
    <2>5. ASSUME NEW c \in Clients
          PROVE  ClientInv(c)'
      <3>1. ClientInv(c) /\ Stream(c)' = Stream(c) /\ ~Steady(c)'
        BY <1>3, <2>1, DisturbedClients DEF IInv, Steady
      <3>2. \A i \in DOMAIN Stream(c) : Stream(c)[i].type = "change" => Stream(c)[i].number <= Len(log')
        <4>1. \A i \in DOMAIN Stream(c) : Stream(c)[i].type = "change" =>
                 Stream(c)[i].number \in Nat /\ Stream(c)[i].number <= Len(log)
          BY SentCommitted
        <4> QED
          BY <1>1, <4>1
      <3>3. Ordered(Stream(c), dispatcher.number, Undispatched, Len(log'))
        BY <3>1, <3>2 DEF ClientInv, Ordered
      <3>4. Stopped(Stream(c), RowsOf(c), Pending(c), dispatcher.number)'
        BY <1>3, <1>5, <3>1 DEF ClientInv
      <3> QED
        BY <1>3, <1>5, <2>2, <3>1, <3>3, <3>4 DEF ClientInv
    <2> QED
      BY <1>3, <2>3, <2>4, <2>5 DEF IInv
  <1> QED
    BY <1>6, <1>7

\* The listener passes a notification on, or nobody hears it.
LEMMA HandleNotificationKeeps ==
    ASSUME IInv, HandleNotification
    PROVE  IInv'
  <1>1. /\ UNCHANGED <<log, carrier, listener, registry, channel, used>>
        /\ notify # <<>> /\ notify' = Tail(notify)
    BY DEF HandleNotification
  <1> DEFINE a == dispatcher.mailbox
             b == notify
  <1>2. /\ a \in Seq(Numbers) /\ b \in Seq(Numbers) /\ b # <<>>
        /\ Rising(a) /\ Rising(b) /\ \A i \in DOMAIN a, j \in DOMAIN b : a[i] < b[j]
    BY <1>1, Basics DEF IInv, InLine
  <1> HIDE DEF a, b
  <1>3. /\ Append(a, Head(b)) \in Seq(Numbers) /\ Tail(b) \in Seq(Numbers)
        /\ Rising(Append(a, Head(b))) /\ Rising(Tail(b))
        /\ \A i \in DOMAIN Append(a, Head(b)), j \in DOMAIN Tail(b) : Append(a, Head(b))[i] < Tail(b)[j]
        /\ \A i \in DOMAIN a, j \in DOMAIN Tail(b) : a[i] < Tail(b)[j]
        /\ Elements(Append(a, Head(b))) \cup Elements(Tail(b)) = Elements(a) \cup Elements(b)
        /\ Elements(Tail(b)) \subseteq Elements(b)
    BY ONLY <1>2, LineMoves
  <1>4. notify' = Tail(b) /\ Undispatched = Elements(a) \cup Elements(b)
    BY <1>1, Basics DEF a, b
  <1>5. /\ Undispatched' = Elements(notify') \cup Elements(dispatcher'.mailbox)
    BY DEF Undispatched, Elements
  <1>6. /\ \A k \in Undispatched : dispatcher.number < k /\ k <= Len(log)
        /\ dispatcher.number <= Len(log) /\ Len(log) <= MaxChanges
        /\ dispatcher.to # {} => dispatcher.number # 0
        /\ \A c \in Clients : ClientInv(c)
        /\ IsFiniteSet(registry.rows) /\ IsFiniteSet(dispatcher.to)
        /\ \A row \in dispatcher.to : row.join <= channel[row.client].join
        /\ used.commands \in Nat /\ used.commands <= used.commands
    BY Basics DEF IInv, InLine
  <1>7. CASE dispatcher.up
    <2>1. dispatcher' = [dispatcher EXCEPT !.mailbox = Append(a, Head(b))] /\ client' = client
      BY <1>7 DEF HandleNotification, a, b
    <2>2. /\ dispatcher' \in [up : BOOLEAN, mailbox : Seq(Numbers), number : 0..MaxChanges,
                              to : SUBSET Row]
          /\ dispatcher'.mailbox = Append(a, Head(b))
          /\ dispatcher'.number = dispatcher.number /\ dispatcher'.to = dispatcher.to
          /\ dispatcher'.up
      BY <1>3, <1>7, <2>1, Basics
    <2>3. Undispatched' = Undispatched
      BY <1>3, <1>4, <1>5, <2>2
    <2>4. TypeOK'
      BY <1>1, <1>3, <1>4, <2>1, <2>2 DEF IInv, TypeOK
    <2>5. InLine'
      BY <1>1, <1>3, <1>4, <1>6, <2>2, <2>3, Basics DEF InLine, Carried, Heads
    <2>6. ASSUME NEW c \in Clients
          PROVE  ClientInv(c)'
      <3>1. /\ Stream(c)' = Stream(c) /\ channel'[c] = channel[c] /\ log' = log /\ carrier' = carrier
            /\ RowsOf(c)' = RowsOf(c) /\ Pending(c)' = Pending(c)
            /\ client'[c] = client[c]
        BY <1>1, <2>1, <2>2, SameClients DEF RowsOf, Pending
      <3> QED
        BY <1>1, <1>6, <2>2, <2>3, <3>1, ClientStays
    <2> QED
      BY <1>1, <1>6, <2>2, <2>4, <2>5, <2>6 DEF IInv
  <1>8. CASE ~dispatcher.up
    <2>1. dispatcher' = dispatcher /\ client' = Disturbed
      BY <1>8 DEF HandleNotification
    <2>2. Undispatched' \subseteq Undispatched
      BY <1>3, <1>4, <1>5, <2>1 DEF a
    <2>3. TypeOK'
      BY <1>1, <1>3, <1>4, <2>1, DisturbedClients DEF IInv, TypeOK
    <2>4. InLine'
      BY <1>1, <1>2, <1>3, <1>4, <1>6, <2>1, <2>2, Basics DEF InLine, a, Carried, Heads
    <2>5. ASSUME NEW c \in Clients
          PROVE  ClientInv(c)'
      <3>1. /\ Stream(c)' = Stream(c) /\ channel'[c] = channel[c] /\ log' = log /\ carrier' = carrier
            /\ RowsOf(c)' = RowsOf(c) /\ Pending(c)' = Pending(c)
            /\ ~client'[c].undisturbed
        BY <1>1, <2>1, DisturbedClients DEF RowsOf, Pending
      <3> QED
        BY <1>1, <1>6, <2>1, <2>2, <3>1, ClientStays
    <2> QED
      BY <1>1, <1>6, <2>1, <2>3, <2>4, <2>5 DEF IInv
  <1> QED
    BY <1>7, <1>8

\* The listener dies, and what it had not read with it.
LEMMA ListenerDiesKeeps ==
    ASSUME IInv, ListenerDies
    PROVE  IInv'
  <1>1. /\ UNCHANGED <<log, carrier, dispatcher, registry, channel>>
        /\ listener' = "down" /\ notify' = <<>> /\ client' = Disturbed /\ Fault
    BY DEF ListenerDies
  <1>2. /\ notify' \in Seq(Numbers) /\ DOMAIN notify' = {}
    <2>1. <<>> \in Seq(Numbers) /\ Len(<<>>) = 0
      BY EmptySeq
    <2>2. DOMAIN <<>> = 1..0
      BY <2>1, LenProperties
    <2> QED
      BY <1>1, <2>1, <2>2
  <1>3. Undispatched' \subseteq Undispatched
    BY <1>1, <1>2 DEF Undispatched
  <1>4. TypeOK'
    BY <1>1, <1>2, FaultCounted, DisturbedClients DEF IInv, TypeOK
  <1>5. InLine'
    BY <1>1, <1>2, <1>3 DEF IInv, InLine, Rising, Carried, Heads
  <1>6. ASSUME NEW c \in Clients
        PROVE  ClientInv(c)'
    <2>1. /\ Stream(c)' = Stream(c) /\ channel'[c] = channel[c] /\ log' = log /\ carrier' = carrier
          /\ RowsOf(c)' = RowsOf(c) /\ Pending(c)' = Pending(c)
          /\ ~client'[c].undisturbed /\ dispatcher'.number = dispatcher.number
      BY <1>1, DisturbedClients DEF RowsOf, Pending
    <2> QED
      BY <1>1, <1>3, <2>1, FaultCounted, ClientStays
  <1> QED
    BY <1>1, <1>4, <1>5, <1>6 DEF IInv

\* The listener connects, or nothing happens at all.
LEMMA ConnectKeeps ==
    ASSUME IInv, UNCHANGED <<log, carrier, notify, dispatcher, registry, channel, client, used>>,
           listener' \in {"listening", "down"}
    PROVE  IInv'
  <1>1. TypeOK'
    BY DEF IInv, TypeOK
  <1>2. Undispatched' = Undispatched
    BY DEF Undispatched
  <1>3. InLine'
    BY <1>2 DEF IInv, InLine, Carried, Heads
  <1>4. ASSUME NEW c \in Clients
        PROVE  ClientInv(c)'
    <2>1. /\ Stream(c)' = Stream(c) /\ channel'[c] = channel[c] /\ log' = log /\ carrier' = carrier
          /\ RowsOf(c)' = RowsOf(c) /\ Pending(c)' = Pending(c) /\ dispatcher'.number = dispatcher.number
          /\ client'[c] = client[c]
      BY SameClients DEF RowsOf, Pending
    <2>2. used'.commands \in Nat /\ used.commands <= used'.commands
      BY Basics
    <2> QED
      BY <1>2, <2>1, <2>2, ClientStays
  <1> QED
    BY <1>1, <1>3, <1>4 DEF IInv

-----------------------------------------------------------------------------
(* The dispatcher.                                                          *)

\* The dispatcher dies with all it had to do (DispatcherFails).
LEMMA DispatcherFailsKeeps ==
    ASSUME IInv, DispatcherFails, UNCHANGED <<log, carrier, notify, listener, registry, channel>>,
           used' \in [commands : 0..MaxCommands, faults : 0..MaxFaults],
           used'.commands \in Nat, used.commands <= used'.commands
    PROVE  IInv'
  <1>1. dispatcher' = Gone /\ client' = Disturbed
    BY DEF DispatcherFails
  <1>2. /\ dispatcher' \in [up : BOOLEAN, mailbox : Seq(Numbers), number : 0..MaxChanges,
                            to : SUBSET Row]
        /\ dispatcher'.mailbox = <<>> /\ dispatcher'.number = 0 /\ dispatcher'.to = {}
    <2>1. <<>> \in Seq(Numbers) /\ 0 \in 0..MaxChanges
      BY EmptySeq, RealtimeAssumption
    <2> QED
      BY <1>1, <2>1 DEF Gone, Idle
  <1>3. DOMAIN dispatcher'.mailbox = {}
    <2>1. <<>> \in Seq(Numbers) /\ Len(<<>>) = 0
      BY EmptySeq
    <2>2. DOMAIN <<>> = 1..0
      BY <2>1, LenProperties
    <2> QED
      BY <1>2, <2>2
  <1>4. Undispatched' \subseteq Undispatched
    BY <1>3 DEF Undispatched
  <1>5. TypeOK'
    BY <1>1, <1>2, DisturbedClients DEF IInv, TypeOK
  <1>6. InLine'
    <2>1. \A k \in Undispatched' : 0 < k /\ k <= Len(log)
      BY <1>4, Basics DEF IInv, InLine
    <2>2. 0 <= Len(log)
      BY Basics
    <2> QED
      BY <1>2, <1>3, <2>1, <2>2 DEF IInv, InLine, Rising, Carried, Heads
  <1>7. ASSUME NEW c \in Clients
        PROVE  ClientInv(c)'
    <2>1. /\ Stream(c)' = Stream(c) /\ channel'[c] = channel[c] /\ log' = log /\ carrier' = carrier
          /\ RowsOf(c)' = RowsOf(c) /\ Pending(c)' = {}
          /\ ~client'[c].undisturbed
      BY <1>1, <1>2, DisturbedClients DEF RowsOf, Pending
    <2> QED
      BY <1>2, <1>4, <2>1, ClientStays
  <1>8. IsFiniteSet(dispatcher'.to) /\ \A row \in dispatcher'.to : row.join <= channel[row.client].join
    BY <1>2, FS_EmptySet
  <1> QED
    BY <1>1, <1>5, <1>6, <1>7, <1>8 DEF IInv

\* The dispatcher starts with nothing to do.
LEMMA DispatcherStartsKeeps ==
    ASSUME IInv, DispatcherStarts
    PROVE  IInv'
  <1>1. /\ UNCHANGED <<log, carrier, notify, listener, registry, channel, client, used>>
        /\ dispatcher = Gone /\ dispatcher' = Idle
    BY DEF DispatcherStarts, IInv
  <1>2. /\ dispatcher'.mailbox = dispatcher.mailbox /\ dispatcher'.number = dispatcher.number
        /\ dispatcher'.to = dispatcher.to /\ dispatcher'.up
    BY <1>1 DEF Gone, Idle
  <1>3. TypeOK'
    <2>1. dispatcher' \in [up : BOOLEAN, mailbox : Seq(Numbers), number : 0..MaxChanges,
                           to : SUBSET Row]
      <3>1. <<>> \in Seq(Numbers) /\ 0 \in 0..MaxChanges
        BY EmptySeq, RealtimeAssumption
      <3> QED
        BY <1>1, <3>1 DEF Idle
    <2> QED
      BY <1>1, <2>1 DEF IInv, TypeOK
  <1>4. Undispatched' = Undispatched
    BY <1>1, <1>2 DEF Undispatched
  <1>5. InLine'
    BY <1>1, <1>2, <1>4 DEF IInv, InLine, Carried, Heads
  <1>6. ASSUME NEW c \in Clients
        PROVE  ClientInv(c)'
    <2>1. /\ Stream(c)' = Stream(c) /\ channel'[c] = channel[c] /\ log' = log /\ carrier' = carrier
          /\ RowsOf(c)' = RowsOf(c) /\ Pending(c)' = Pending(c)
          /\ client'[c] = client[c]
      BY <1>1, <1>2, SameClients DEF RowsOf, Pending
    <2>2. used'.commands \in Nat /\ used.commands <= used'.commands
      BY <1>1, Basics
    <2> QED
      BY <1>2, <1>4, <2>1, <2>2, ClientStays
  <1> QED
    BY <1>1, <1>2, <1>3, <1>5, <1>6 DEF IInv

\* The dispatcher dies.
LEMMA DispatcherDiesKeeps ==
    ASSUME IInv, DispatcherDies
    PROVE  IInv'
  <1>1. /\ DispatcherFails /\ Fault
        /\ UNCHANGED <<log, carrier, notify, listener, registry, channel>>
    BY DEF DispatcherDies
  <1> QED
    BY <1>1, FaultCounted, DispatcherFailsKeeps

\* What a stream says of a change it does not tell of.
LEMMA NoCopy ==
    ASSUME NEW s, NEW n, \A i \in DOMAIN s : s[i].type = "change" => s[i].number # n
    PROVE  Number(n, s) = 0
  <1>1. {i \in DOMAIN s : s[i].type = "change" /\ s[i].number = n} = {}
    OBVIOUS
  <1> QED
    BY <1>1, FS_EmptySet DEF Number

\* The change that follows is sent to nobody yet, and to all whose rows match it.
LEMMA CountedFirst ==
    ASSUME NEW s \in Seq(Message), NEW rows, Paired(s, rows), NEW n, NEW change,
           \A i \in DOMAIN s : s[i].type = "change" => s[i].number # n
    PROVE  Counted(s, {row \in rows : match(change, row.sub)}, n, n, change)
  <1> DEFINE pending == {row \in rows : match(change, row.sub)}
             W == Wanting(s, change)
             V == Waiting(s, change, n)
  <1>1. Number(n, s) = 0
    BY NoCopy
  <1>2. Cardinality(pending) = Cardinality(W)
    BY MatchingRows
  <1>3. /\ Cardinality(W) \in Nat /\ Cardinality(V) \in Nat
        /\ Cardinality(V) <= Cardinality(W)
    BY ConfirmedFinite
  <1> HIDE DEF pending, W, V
  <1>4. Number(n, s) + (IF n # n THEN 0 ELSE Cardinality(pending)) = Cardinality(W)
    BY <1>1, <1>2, <1>3
  <1> QED
    BY <1>3, <1>4 DEF Counted, pending, W, V

\* The dispatcher takes the next change and reads the table for it, or there is none.
LEMMA HandleChangeKeeps ==
    ASSUME IInv, HandleChange
    PROVE  IInv'
  <1>1. /\ UNCHANGED <<log, carrier, notify, listener, registry, channel, used>>
        /\ dispatcher.up /\ dispatcher.to = {} /\ dispatcher.mailbox # <<>>
    BY DEF HandleChange
  <1>2. CASE ~registry.up
    <2>1. DispatcherFails
      BY <1>2 DEF HandleChange
    <2>2. /\ used' \in [commands : 0..MaxCommands, faults : 0..MaxFaults]
          /\ used'.commands \in Nat /\ used.commands <= used'.commands
      BY <1>1, Basics DEF IInv, TypeOK
    <2> QED
      BY <1>1, <2>1, <2>2, DispatcherFailsKeeps
  <1>3. CASE registry.up
    <2> DEFINE a == dispatcher.mailbox
               number == Head(a)
               to == {row \in registry.rows : match(log[number], row.sub)}
    <2>1. dispatcher' = [dispatcher EXCEPT !.mailbox = Tail(a), !.number = number, !.to = to]
      BY <1>3 DEF HandleChange
    <2>2. client' = client
      BY <1>3 DEF HandleChange
    <2>3. /\ Rising(notify) /\ Rising(a)
          /\ \A i \in DOMAIN a, j \in DOMAIN notify : a[i] < notify[j]
          /\ \A k \in Undispatched : k <= Len(log)
          /\ Len(log) <= MaxChanges
      BY DEF IInv, InLine
    <2>4. /\ Tail(a) \in Seq(Numbers) /\ Rising(Tail(a))
          /\ number \in Elements(a) /\ number \in Numbers
          /\ Elements(a) = Elements(Tail(a)) \cup {number}
          /\ \A n \in Elements(Tail(a)) : number < n
      BY <1>1, <2>3, Basics, LineTaken
    <2>5. /\ a \in Seq(Numbers) /\ notify \in Seq(Numbers)
          /\ Undispatched = Elements(notify) \cup Elements(a)
          /\ DOMAIN log = 1..Len(log) /\ Len(log) \in Nat
          /\ \A n \in Undispatched : n \in Nat
      BY Basics
    <2>6. number \in 0..MaxChanges /\ number \in Nat /\ number # 0 /\ number <= Len(log)
      <3>1. number \in 1..MaxChanges /\ number <= Len(log) /\ MaxChanges \in Nat
        BY <2>3, <2>4, <2>5, RealtimeAssumption DEF Numbers
      <3> QED
        BY <3>1
    <2> HIDE DEF a, number
    <2>7. to \in SUBSET Row /\ IsFiniteSet(to) /\ \A row \in to : row.join <= channel[row.client].join
      <3>1. /\ registry.rows \in SUBSET Row /\ IsFiniteSet(registry.rows)
            /\ \A row \in registry.rows : row.join <= channel[row.client].join
        BY Basics DEF IInv, TypeOK
      <3>2. to \subseteq registry.rows
        OBVIOUS
      <3> HIDE DEF to
      <3> QED
        BY <3>1, <3>2, FS_Subset
    <2> HIDE DEF to
    <2>8. /\ dispatcher' \in [up : BOOLEAN, mailbox : Seq(Numbers), number : 0..MaxChanges,
                              to : SUBSET Row]
          /\ dispatcher'.mailbox = Tail(a) /\ dispatcher'.number = number /\ dispatcher'.to = to
          /\ dispatcher'.up
      BY <1>1, <2>1, <2>4, <2>6, <2>7, Basics
    <2>9. \A n \in Elements(notify) : number < n
      BY <2>3, <2>4 DEF Elements
    <2>10. /\ Undispatched' = Elements(notify) \cup Elements(Tail(a))
           /\ Undispatched = Undispatched' \cup {number}
           /\ \A n \in Undispatched' : number < n
      <3>1. Undispatched' = Elements(notify) \cup Elements(Tail(a))
        BY <1>1, <2>8 DEF Undispatched, Elements
      <3> QED
        BY <2>4, <2>5, <2>9, <3>1
    <2>11. TypeOK'
      BY <1>1, <2>2, <2>8 DEF IInv, TypeOK
    <2>12. InLine'
      <3>1. \A i \in DOMAIN Tail(a), j \in DOMAIN notify : Tail(a)[i] < notify[j]
        <4>1. \A i \in DOMAIN Tail(a) : \E k \in DOMAIN a : Tail(a)[i] = a[k]
          BY <2>4 DEF Elements
        <4> QED
          BY <2>3, <4>1
      <3> QED
        BY <1>1, <2>3, <2>4, <2>6, <2>8, <2>10, <3>1, Basics DEF InLine, Carried, Heads
    <2>13. ASSUME NEW c \in Clients
           PROVE  ClientInv(c)'
      <3> DEFINE s == Stream(c)
      <3>1. ClientInv(c) /\ s' = s /\ s \in Seq(Message)
        BY <1>1, <2>2, SameClients, StreamType DEF IInv
      <3>2. RowsOf(c)' = RowsOf(c) /\ Asked(c)' = Asked(c) /\ Pending(c) = {}
        BY <1>1 DEF RowsOf, Asked, Pending
      <3>3. Pending(c)' = {row \in RowsOf(c) : match(log[number], row.sub)}
        BY <1>1, <2>8 DEF Pending, RowsOf, to
      <3>4. RowsNumbered(c)'
        BY <1>1, <3>1, <3>2 DEF ClientInv, RowsNumbered
      <3>5. \A i \in DOMAIN s : s[i].type = "change" =>
                 s[i].number \in Nat /\ s[i].number < number
        <4>1. ASSUME NEW i \in DOMAIN s, s[i].type = "change"
              PROVE  s[i].number \in Nat /\ s[i].number < number
          <5>1. s[i] \in Message
            BY StreamType, ElementOfSeq DEF IInv
          <5>2. s[i].number \in Nat
            BY <4>1, <5>1, Kinds DEF Numbers
          <5> QED
            BY <2>10, <3>1, <4>1, <5>2 DEF ClientInv, Ordered
        <4> QED
          BY <4>1
      <3>6. Ordered(s, number, Undispatched', Len(log))
        BY <2>6, <2>10, <3>1, <3>5 DEF ClientInv, Ordered
      <3>7. Stopped(s, RowsOf(c), Pending(c)', number)
        BY <3>1, <3>3 DEF ClientInv, Stopped
      <3>8. ASSUME Steady(c)'
            PROVE  /\ Paired(s, RowsOf(c))
                   /\ \A n \in Heads \ Undispatched' :
                        Counted(s, Pending(c)', number, n, log[n])
        <4>1. Steady(c)
          BY <1>1, <2>2, <3>1, <3>8 DEF Steady
        <4>2. /\ Paired(s, RowsOf(c))
              /\ \A n \in Heads \ Undispatched :
                   Counted(s, Pending(c), dispatcher.number, n, log[n])
          BY <3>1, <4>1 DEF ClientInv
        <4>3. ASSUME NEW n \in Heads \ Undispatched'
              PROVE  Counted(s, Pending(c)', number, n, log[n])
          <5>1. CASE n = number
            <6>1. \A i \in DOMAIN s : s[i].type = "change" => s[i].number # n
              BY <2>6, <3>5, <5>1
            <6> HIDE DEF s
            <6>2. Counted(s, {row \in RowsOf(c) : match(log[n], row.sub)}, n, n, log[n])
              BY <3>1, <4>2, <6>1, CountedFirst
            <6> QED
              BY <3>3, <5>1, <6>2
          <5>2. CASE n # number
            <6>1. Counted(s, Pending(c), dispatcher.number, n, log[n])
              BY <2>10, <4>2, <5>2
            <6>2. Cardinality(Pending(c)) = 0
              BY <3>2, FS_EmptySet
            <6> HIDE DEF s
            <6> QED
              BY <5>2, <6>1, <6>2 DEF Counted
          <5> QED
            BY <5>1, <5>2
        <4> QED
          BY <4>2, <4>3
      <3> QED
        BY <1>1, <2>8, <3>1, <3>2, <3>4, <3>6, <3>7, <3>8 DEF ClientInv, Heads
    <2> QED
      BY <1>1, <2>7, <2>8, <2>11, <2>12, <2>13 DEF IInv
  <1> QED
    BY <1>2, <1>3

\* A copy of the change has gone out, and there is one row less to send it to.
LEMMA CountedSent ==
    ASSUME NEW s \in Seq(Message), NEW t, NEW p, NEW m, OneMore(s, t, p, m), p \notin DOMAIN s,
           m.type = "change", NEW number, m.number = number,
           NEW pending, IsFiniteSet(pending), NEW row \in pending,
           NEW next, next = number \/ (next = 0 /\ pending \ {row} = {}),
           NEW n, n # 0, NEW change, Counted(s, pending, number, n, change)
    PROVE  Counted(t, pending \ {row}, next, n, change)
  <1> DEFINE W == Wanting(s, change)
             V == Waiting(s, change, n)
             fewer == pending \ {row}
  <1>1. Wanting(t, change) = W /\ Waiting(t, change, n) = V
    BY ConfirmedSame
  <1>2. /\ Number(n, s) \in Nat /\ Number(n, t) \in Nat
        /\ Number(n, t) = IF m.number = n THEN Number(n, s) + 1 ELSE Number(n, s)
    BY NumberMore
  <1>3. /\ IsFiniteSet(fewer) /\ Cardinality(fewer) = Cardinality(pending) - 1
        /\ Cardinality(pending) \in Nat /\ Cardinality(fewer) \in Nat
    BY FS_RemoveElement, FS_CardinalityType
  <1>4. fewer = {} => Cardinality(fewer) = 0
    BY FS_EmptySet
  <1> HIDE DEF W, V, fewer
  <1>5. Number(n, s) + (IF number # n THEN 0 ELSE Cardinality(pending))
          \in Cardinality(V)..Cardinality(W)
    BY DEF Counted, W, V
  <1>6. Number(n, t) + (IF next # n THEN 0 ELSE Cardinality(fewer))
          = Number(n, s) + (IF number # n THEN 0 ELSE Cardinality(pending))
    <2>1. CASE number # n
      <3>1. next # n
        BY <2>1
      <3> QED
        BY <1>2, <2>1, <3>1
    <2>2. CASE number = n /\ next = n
      BY <1>2, <1>3, <2>2
    <2>3. CASE number = n /\ next # n
      <3>1. Cardinality(fewer) = 0
        BY <1>4, <2>3 DEF fewer
      <3> QED
        BY <1>2, <1>3, <2>3, <3>1
    <2> QED
      BY <2>1, <2>2, <2>3
  <1> QED
    BY <1>1, <1>5, <1>6 DEF Counted, W, V, fewer

\* The dispatcher sends to another, or to a channel that is gone.
LEMMA SentElsewhere ==
    ASSUME IInv, NEW c \in Clients,
           Stream(c)' = Stream(c), channel'[c] = channel[c], client'[c] = client[c],
           log' = log /\ carrier' = carrier, used' = used, RowsOf(c)' = RowsOf(c), Undispatched' = Undispatched,
           Pending(c)' \subseteq Pending(c), Steady(c) => Pending(c)' = Pending(c),
           \/ dispatcher'.number = dispatcher.number
           \/ dispatcher'.number = 0 /\ Pending(c)' = {}
    PROVE  ClientInv(c)'
  <1>1. ClientInv(c)
    BY DEF IInv
  <1>2. RowsNumbered(c)'
    <2>1. Asked(c)' = Asked(c)
      BY DEF Asked
    <2> QED
      BY <1>1, <2>1 DEF ClientInv, RowsNumbered
  <1>3. Ordered(Stream(c), dispatcher.number, Undispatched, Len(log))'
    BY <1>1 DEF ClientInv, Ordered
  <1>4. Stopped(Stream(c), RowsOf(c), Pending(c), dispatcher.number)'
    BY <1>1 DEF ClientInv, Stopped
  <1>5. ASSUME Steady(c)'
        PROVE  /\ Paired(Stream(c), RowsOf(c))'
               /\ \A n \in Heads' \ Undispatched' :
                    Counted(Stream(c)', Pending(c)', dispatcher'.number, n, log'[n])
    <2>1. Steady(c) /\ Pending(c)' = Pending(c)
      BY <1>5 DEF Steady
    <2>2. ASSUME NEW n \in Heads \ Undispatched
          PROVE  Counted(Stream(c), Pending(c), dispatcher'.number, n, log[n])
      <3>1. Counted(Stream(c), Pending(c), dispatcher.number, n, log[n])
        BY <1>1, <2>1 DEF ClientInv
      <3>2. CASE dispatcher'.number = dispatcher.number
        BY <3>1, <3>2
      <3>3. CASE Pending(c) = {}
        <4>1. Cardinality(Pending(c)) = 0
          BY <3>3, FS_EmptySet
        <4> QED
          BY <3>1, <4>1 DEF Counted
      <3> QED
        BY <2>1, <3>2, <3>3
    <2> QED
      BY <1>1, <2>1, <2>2 DEF ClientInv, Heads
  <1> QED
    BY <1>2, <1>3, <1>4, <1>5 DEF ClientInv

\* What a message that is no request does not change.
LEMMA AskedSame ==
    ASSUME TypeOK, NEW c \in Clients, NEW m \in Mail, m.type # "subscribe",
           channel'[c].mailbox = Append(channel[c].mailbox, m)
    PROVE  Asked(c)' = Asked(c)
  <1> DEFINE a == channel[c].mailbox
             b == Append(a, m)
  <1>1. a \in Seq(Mail)
    BY StreamType
  <1>2. /\ Len(a) \in Nat /\ DOMAIN a = 1..Len(a) /\ DOMAIN b = 1..(Len(a) + 1)
        /\ \A i \in 1..Len(a) : b[i] = a[i]
        /\ b[Len(a) + 1] = m
    BY <1>1, Appended
  <1> HIDE DEF a, b
  <1>3. {i \in DOMAIN b : b[i].type = "subscribe"} = {i \in DOMAIN a : a[i].type = "subscribe"}
    BY <1>2
  <1> QED
    BY <1>3 DEF Asked, a, b

\* A message arrives in the mailbox of one channel (Deliver).
LEMMA Delivered ==
    ASSUME TypeOK, NEW c \in Clients, NEW m \in Mail, Deliver(c, m)
    PROVE  /\ channel' \in [Clients -> [join : 0..MaxJoins, alive : BOOLEAN, mailbox : Seq(Mail)]]
           /\ channel'[c].join = channel[c].join /\ channel'[c].alive = channel[c].alive
           /\ channel'[c].mailbox = Append(channel[c].mailbox, m)
           /\ \A d \in Clients : d # c => channel'[d] = channel[d]
           /\ \A d \in Clients : channel'[d].join = channel[d].join
  <1>1. /\ channel \in [Clients -> [join : 0..MaxJoins, alive : BOOLEAN, mailbox : Seq(Mail)]]
        /\ channel[c] \in [join : 0..MaxJoins, alive : BOOLEAN, mailbox : Seq(Mail)]
    BY DEF TypeOK
  <1> DEFINE box == Append(channel[c].mailbox, m)
             k == [channel[c] EXCEPT !.mailbox = box]
  <1>2. box \in Seq(Mail)
    BY <1>1
  <1>3. channel' = [channel EXCEPT ![c] = k]
    BY DEF Deliver
  <1> HIDE DEF box
  <1>4. /\ k \in [join : 0..MaxJoins, alive : BOOLEAN, mailbox : Seq(Mail)]
        /\ k.join = channel[c].join /\ k.alive = channel[c].alive /\ k.mailbox = box
    BY <1>1, <1>2
  <1> HIDE DEF k
  <1>5. channel'[c] = k /\ \A d \in Clients : d # c => channel'[d] = channel[d]
    BY <1>1, <1>3
  <1>6. channel' \in [Clients -> [join : 0..MaxJoins, alive : BOOLEAN, mailbox : Seq(Mail)]]
    BY <1>1, <1>3, <1>4
  <1> QED
    BY <1>4, <1>5, <1>6 DEF box

\* The dispatcher sends the change to a live channel: its stream has one more.
LEMMA SentToClient ==
    ASSUME IInv, NEW c \in Clients, NEW row \in Pending(c),
           Deliver(c, [type |-> "change", number |-> dispatcher.number]),
           client' = client, log' = log /\ carrier' = carrier, used' = used, registry' = registry,
           Undispatched' = Undispatched, Pending(c)' = Pending(c) \ {row},
           \/ dispatcher'.number = dispatcher.number
           \/ dispatcher'.number = 0 /\ Pending(c)' = {}
    PROVE  ClientInv(c)' /\ [type |-> "change", number |-> dispatcher.number] \in Mail
  <1> DEFINE m == [type |-> "change", number |-> dispatcher.number]
             s == Stream(c)
             t == Append(s, m)
             p == Len(s) + 1
             number == dispatcher.number
             next == dispatcher'.number
  <1>1. /\ number # 0 /\ number \in Nat /\ number <= Len(log) /\ number \in Numbers
        /\ \A k \in Undispatched : number < k
    <2>1. /\ number # 0 /\ number <= Len(log) /\ \A k \in Undispatched : number < k
      BY DEF IInv, InLine, Pending
    <2>2. number \in 0..MaxChanges /\ MaxChanges \in Nat
      BY Basics, RealtimeAssumption
    <2>3. number \in 1..MaxChanges /\ number \in Nat
      BY <2>1, <2>2
    <2> QED
      BY <2>1, <2>3 DEF Numbers
  <1>2. m \in Mail /\ m \in Message /\ m.type = "change" /\ m.number = number
    BY <1>1 DEF Mail, Message
  <1>3. ClientInv(c) /\ TypeOK
    BY DEF IInv
  <1> HIDE DEF m
  <1>4. /\ channel'[c].join = channel[c].join /\ channel'[c].alive = channel[c].alive
        /\ channel'[c].mailbox = Append(channel[c].mailbox, m)
    BY <1>2, <1>3, Delivered DEF m
  <1>5. s' = t /\ s \in Seq(Message)
    BY <1>2, <1>3, <1>4, DeliveredStream, StreamType
  <1> HIDE DEF s
  <1>6. OneMore(s, t, p, m) /\ (\A i \in DOMAIN s : i < p) /\ p \notin DOMAIN s
    <2>1. OneMore(s, t, p, m) /\ \A i \in DOMAIN s : i < p
      BY <1>2, <1>5, DeliveredIsMore
    <2> QED
      BY <2>1
  <1> HIDE DEF t, p
  <1>7. RowsNumbered(c)'
    <2>1. Asked(c)' = Asked(c)
      BY <1>2, <1>3, <1>4, AskedSame
    <2>2. RowsOf(c)' = RowsOf(c)
      BY <1>4 DEF RowsOf
    <2> QED
      BY <1>3, <1>4, <2>1, <2>2 DEF ClientInv, RowsNumbered
  <1>8. Ordered(t, number, Undispatched, Len(log))
    BY <1>1, <1>2, <1>3, <1>6, OrderedMore DEF ClientInv, s, number
  <1>9. Ordered(t, next, Undispatched, Len(log))
    BY <1>8 DEF Ordered
  <1>10. Stopped(t, RowsOf(c), Pending(c) \ {row}, next)
    <2>1. Stopped(s, RowsOf(c), Pending(c), number)
      BY <1>3 DEF ClientInv, s
    <2>2. Pending(c) # {} /\ (Pending(c) \ {row} # {} => next = number)
      OBVIOUS
    <2> DEFINE pending == Pending(c)
               fewer == Pending(c) \ {row}
               rows == RowsOf(c)
    <2>3. /\ OneMore(s, t, p, m) /\ m.type = "change" /\ \A i \in DOMAIN s : i < p
          /\ Stopped(s, rows, pending, number) /\ pending # {} /\ m.number = number
          /\ fewer # {} => next = number
      BY <1>2, <1>6, <2>1, <2>2
    <2> HIDE DEF pending, fewer, rows, number, next
    <2>4. Stopped(t, rows, fewer, next)
      BY ONLY <2>3, StoppedChange
    <2> QED
      BY <2>4 DEF fewer, rows
  <1>11. ASSUME Steady(c)'
         PROVE  /\ Paired(t, RowsOf(c))
                /\ \A n \in Heads \ Undispatched :
                     Counted(t, Pending(c) \ {row}, next, n, log[n])
    <2>1. \A i \in DOMAIN s : i \in DOMAIN t /\ t[i] = s[i]
      BY <1>6 DEF OneMore
    <2>2. Steady(c)
      BY <1>4, <1>5, <1>11, <2>1 DEF Steady, s
    <2>3. Paired(s, RowsOf(c)) /\ IsFiniteSet(Pending(c))
      BY <1>3, <2>2, ClientFinite DEF ClientInv, s
    <2>4. Paired(t, RowsOf(c))
      BY <1>2, <1>6, <2>3, PairedSame
    <2>5. ASSUME NEW n \in Heads \ Undispatched
          PROVE  Counted(t, Pending(c) \ {row}, next, n, log[n])
      <3> DEFINE pending == Pending(c)
                 change == log[n]
      <3>1. Counted(s, pending, number, n, change) /\ n # 0
        BY <1>3, <2>2, Basics DEF ClientInv, s
      <3>2. /\ s \in Seq(Message) /\ OneMore(s, t, p, m) /\ p \notin DOMAIN s
            /\ m.type = "change" /\ m.number = number /\ IsFiniteSet(pending) /\ row \in pending
            /\ next = number \/ (next = 0 /\ pending \ {row} = {})
        BY <1>2, <1>5, <1>6, <2>3
      <3> HIDE DEF pending, change, number, next
      <3>3. Counted(t, pending \ {row}, next, n, change)
        BY ONLY <3>1, <3>2, CountedSent
      <3> QED
        BY <3>3 DEF pending, change
    <2> QED
      BY <2>4, <2>5
  <1>12. RowsOf(c)' = RowsOf(c)
    BY <1>4 DEF RowsOf
  <1>13. ClientInv(c)'
    BY <1>5, <1>7, <1>9, <1>10, <1>11, <1>12 DEF ClientInv, s, Heads
  <1> QED
    BY <1>2, <1>13 DEF m

\* The dispatcher sends the change for one row, to its channel or to nobody.
LEMMA SendKeeps ==
    ASSUME IInv, Send
    PROVE  IInv'
  <1> DEFINE number == dispatcher.number
             to == dispatcher.to
             m == [type |-> "change", number |-> dispatcher.number]
             Heard(row) == channel[row.client].alive /\ channel[row.client].join = row.join
  <1>1. UNCHANGED <<log, carrier, notify, listener, registry, client, used>> /\ dispatcher.up
    BY DEF Send
  <1>2. PICK row \in to :
             /\ dispatcher' = [dispatcher EXCEPT !.to = to \ {row},
                                                 !.number = IF to = {row} THEN 0 ELSE number]
             /\ IF Heard(row) THEN Deliver(row.client, m) ELSE UNCHANGED channel
    BY DEF Send
  <1> DEFINE next == IF to = {row} THEN 0 ELSE number
  <1>3. /\ dispatcher' \in [up : BOOLEAN, mailbox : Seq(Numbers), number : 0..MaxChanges,
                            to : SUBSET Row]
        /\ dispatcher'.mailbox = dispatcher.mailbox /\ dispatcher'.up
        /\ dispatcher'.number = next /\ dispatcher'.to = to \ {row}
    <2>1. dispatcher \in [up : BOOLEAN, mailbox : Seq(Numbers), number : 0..MaxChanges,
                          to : SUBSET Row]
      BY Basics
    <2>2. next \in 0..MaxChanges /\ to \ {row} \in SUBSET Row
      <3>1. 0 \in 0..MaxChanges /\ number \in 0..MaxChanges
        BY <2>1, RealtimeAssumption
      <3> QED
        BY <2>1, <3>1
    <2> HIDE DEF next
    <2> QED
      BY <1>1, <1>2, <2>1, <2>2 DEF next
  <1>4. next = number \/ (next = 0 /\ to \ {row} = {})
    OBVIOUS
  <1>5. row \in Row /\ row.client \in Clients
    BY Basics DEF Row
  <1> HIDE DEF next
  <1>6. Undispatched' = Undispatched
    BY <1>1, <1>3 DEF Undispatched
  <1>7. m \in Mail
    <2>1. number # 0 /\ number \in 0..MaxChanges /\ MaxChanges \in Nat
      BY Basics, RealtimeAssumption DEF IInv, InLine
    <2>2. number \in 1..MaxChanges
      BY <2>1
    <2> QED
      BY <2>2 DEF Mail, Numbers
  <1>8. /\ channel' \in [Clients -> [join : 0..MaxJoins, alive : BOOLEAN, mailbox : Seq(Mail)]]
        /\ \A d \in Clients : channel'[d].join = channel[d].join
        /\ \A d \in Clients : d # row.client \/ ~Heard(row) => channel'[d] = channel[d]
    <2>1. CASE Heard(row)
      <3>1. Deliver(row.client, m) /\ TypeOK
        BY <1>2, <2>1 DEF IInv
      <3> HIDE DEF m
      <3> QED
        BY <1>5, <1>7, <2>1, <3>1, Delivered
    <2>2. CASE ~Heard(row)
      BY <1>2, <2>2 DEF IInv, TypeOK
    <2> QED
      BY <2>1, <2>2
  <1>9. \A d \in Clients : Pending(d)' = Pending(d) \ {row}
    BY <1>3, <1>8 DEF Pending
  <1>10. \A r \in Row : r.client \in Clients
    BY DEF Row
  <1>11. TypeOK'
    <2>1. \A r \in registry.rows : r.join <= channel'[r.client].join
      <3>1. \A r \in registry.rows : r.join <= channel[r.client].join /\ r \in Row
        BY Basics DEF IInv, TypeOK
      <3> QED
        BY <1>8, <1>10, <3>1
    <2> QED
      BY <1>1, <1>3, <1>8, <2>1 DEF IInv, TypeOK
  <1>12. InLine'
    <2>1. 0 <= Len(log) /\ \A k \in Undispatched : 0 < k
      <3>1. \A k \in Undispatched : k \in Nat /\ number < k /\ number \in Nat
        BY Basics DEF IInv, InLine
      <3>2. Len(log) \in Nat
        BY Basics
      <3> QED
        BY <3>1, <3>2
    <2>2. next <= Len(log) /\ \A k \in Undispatched : next < k
      BY <1>4, <2>1 DEF IInv, InLine
    <2>3. to \ {row} # {} => next # 0
      BY <1>4 DEF IInv, InLine
    <2> QED
      BY <1>1, <1>3, <1>6, <2>2, <2>3 DEF IInv, InLine, Carried, Heads
  <1>13. /\ IsFiniteSet(dispatcher'.to)
         /\ \A r \in dispatcher'.to : r.join <= channel'[r.client].join
    <2>1. IsFiniteSet(to) /\ \A r \in to : r.join <= channel[r.client].join /\ r.client \in Clients
      BY <1>10, Basics DEF IInv
    <2>2. \A r \in to : r.join <= channel'[r.client].join
      BY <1>8, <2>1
    <2> HIDE DEF to
    <2>3. IsFiniteSet(to \ {row})
      BY <2>1, FS_RemoveElement
    <2> QED
      BY <1>3, <2>2, <2>3
  <1>14. ASSUME NEW c \in Clients
         PROVE  ClientInv(c)'
    <2>1. RowsOf(c)' = RowsOf(c)
      BY <1>1, <1>8 DEF RowsOf
    <2>2. \/ dispatcher'.number = dispatcher.number
          \/ dispatcher'.number = 0 /\ Pending(c)' = {}
      <3>1. to \ {row} = {} => Pending(c)' = {}
        BY <1>9 DEF Pending
      <3> QED
        BY <1>3, <1>4, <3>1
    <2>3. CASE c = row.client /\ Heard(row)
      <3>1. row \in Pending(c)
        BY <2>3 DEF Pending
      <3>2. Deliver(c, m)
        BY <1>2, <2>3
      <3> QED
        BY <1>1, <1>6, <1>9, <2>2, <3>1, <3>2, SentToClient
    <2>4. CASE ~(c = row.client /\ Heard(row))
      <3>1. channel'[c] = channel[c]
        BY <1>8, <2>4
      <3>2. Stream(c)' = Stream(c)
        BY <1>1, <3>1 DEF Stream, Sent
      <3>3. Pending(c)' \subseteq Pending(c)
        BY <1>9
      <3>4. Steady(c) => Pending(c)' = Pending(c)
        <4>1. ASSUME Steady(c)
              PROVE  row \notin Pending(c)
          BY <2>4, <4>1 DEF Steady, Pending
        <4> QED
          BY <1>9, <4>1
      <3> HIDE DEF Heard
      <3> QED
        BY <1>1, <1>6, <2>1, <2>2, <3>1, <3>2, <3>3, <3>4, SentElsewhere
    <2> QED
      BY <2>3, <2>4
  <1> QED
    BY <1>1, <1>3, <1>11, <1>12, <1>13, <1>14 DEF IInv


-----------------------------------------------------------------------------
(* The registry.                                                            *)

\* The registry dies and the table with it: no row is left, for anybody.
LEMMA RegistryDiesKeeps ==
    ASSUME IInv, RegistryDies
    PROVE  IInv'
  <1>1. /\ UNCHANGED <<log, carrier, notify, listener, dispatcher, channel>>
        /\ registry' = [up |-> FALSE, rows |-> {}] /\ client' = Disturbed /\ Fault
    BY DEF RegistryDies
  <1>2. registry' \in [up : BOOLEAN, rows : SUBSET Row] /\ registry'.rows = {} /\ IsFiniteSet({})
    <2>1. FALSE \in BOOLEAN /\ {} \in SUBSET Row
      OBVIOUS
    <2> QED
      BY <1>1, <2>1, FS_EmptySet
  <1>3. TypeOK'
    BY <1>1, <1>2, FaultCounted, DisturbedClients DEF IInv, TypeOK
  <1>4. Undispatched' = Undispatched
    BY <1>1 DEF Undispatched
  <1>5. InLine'
    BY <1>1, <1>4 DEF IInv, InLine, Carried, Heads
  <1>6. ASSUME NEW c \in Clients
        PROVE  ClientInv(c)'
    <2>1. /\ Stream(c)' = Stream(c) /\ channel'[c] = channel[c] /\ log' = log /\ carrier' = carrier
          /\ RowsOf(c)' = {} /\ Pending(c)' = Pending(c) /\ dispatcher'.number = dispatcher.number
          /\ ~client'[c].undisturbed
      BY <1>1, <1>2, DisturbedClients DEF RowsOf, Pending
    <2> QED
      BY <1>1, <1>4, <2>1, FaultCounted, ClientStays
  <1> QED
    BY <1>1, <1>2, <1>3, <1>5, <1>6 DEF IInv

\* The registry starts with an empty table, as it was.
LEMMA RegistryStartsKeeps ==
    ASSUME IInv, RegistryStarts
    PROVE  IInv'
  <1>1. /\ UNCHANGED <<log, carrier, notify, listener, dispatcher, channel, client, used>>
        /\ registry' = [up |-> TRUE, rows |-> {}] /\ registry.rows = {}
    BY DEF RegistryStarts, NewTable, IInv, TypeOK
  <1>2. registry' \in [up : BOOLEAN, rows : SUBSET Row] /\ registry'.rows = {} /\ registry'.up
    <2>1. TRUE \in BOOLEAN /\ {} \in SUBSET Row
      OBVIOUS
    <2> QED
      BY <1>1, <2>1
  <1>3. TypeOK'
    BY <1>1, <1>2 DEF IInv, TypeOK
  <1>4. Undispatched' = Undispatched
    BY <1>1 DEF Undispatched
  <1>5. InLine'
    BY <1>1, <1>4 DEF IInv, InLine, Carried, Heads
  <1>6. ASSUME NEW c \in Clients
        PROVE  ClientInv(c)'
    <2>1. /\ Stream(c)' = Stream(c) /\ channel'[c] = channel[c] /\ log' = log /\ carrier' = carrier
          /\ RowsOf(c)' = RowsOf(c) /\ Pending(c)' = Pending(c)
          /\ dispatcher'.number = dispatcher.number /\ client'[c] = client[c]
      BY <1>1, <1>2, SameClients DEF RowsOf, Pending
    <2>2. used'.commands \in Nat /\ used.commands <= used'.commands
      BY <1>1, Basics
    <2> QED
      BY <1>1, <1>4, <2>1, <2>2, ClientStays
  <1> QED
    BY <1>1, <1>2, <1>3, <1>5, <1>6 DEF IInv

-----------------------------------------------------------------------------
(* A channel and its client.                                                *)

\* A step of client c leaves the others alone.
LEMMA OthersStay ==
    ASSUME IInv, NEW c \in Clients, NEW d \in Clients, d # c,
           channel'[d] = channel[d], client'[d] = client[d], log' = log /\ carrier' = carrier, notify' = notify,
           dispatcher' = dispatcher,
           \A row \in Row : row.client # c => (row \in registry'.rows <=> row \in registry.rows),
           registry'.rows \subseteq Row,
           used'.commands \in Nat, used.commands <= used'.commands
    PROVE  ClientInv(d)'
  <1>1. Stream(d)' = Stream(d)
    BY DEF Stream, Sent
  <1>2. RowsOf(d)' = RowsOf(d) /\ Pending(d)' = Pending(d)
    <2>1. registry.rows \subseteq Row
      BY Basics
    <2>2. \A row : row.client = d => (row \in registry'.rows <=> row \in registry.rows)
      BY <2>1
    <2>3. RowsOf(d)' = RowsOf(d)
      BY <2>2 DEF RowsOf
    <2>4. Pending(d)' = Pending(d)
      BY DEF Pending
    <2> QED
      BY <2>3, <2>4
  <1>3. Undispatched' = Undispatched
    BY DEF Undispatched
  <1> QED
    BY <1>1, <1>2, <1>3, ClientStays

\* The dispatcher's line is as it was.
LEMMA LineStays ==
    ASSUME IInv, UNCHANGED <<log, carrier, notify, dispatcher>>
    PROVE  InLine' /\ Undispatched' = Undispatched
  <1>1. Undispatched' = Undispatched
    BY DEF Undispatched
  <1> QED
    BY <1>1 DEF IInv, InLine, Carried, Heads

\* With nothing sent there is nothing to say of a client, but that rows may be left over.
LEMMA FreshClient ==
    ASSUME IInv, NEW c \in Clients, Stream(c)' = <<>>, Asked(c)' = {},
           RowsOf(c)' = {} \/ (RowsOf(c)' = RowsOf(c) /\ ~channel'[c].alive),
           channel'[c].alive => channel'[c].join > 0 /\ Pending(c)' = {},
           used'.commands \in Nat, used.commands <= used'.commands
    PROVE  ClientInv(c)'
  <1>1. DOMAIN Stream(c)' = {} /\ Stream(c)' \in Seq(Message)
    <2>1. <<>> \in Seq(Message) /\ Len(<<>>) = 0
      BY EmptySeq
    <2>2. DOMAIN <<>> = 1..0
      BY <2>1, LenProperties
    <2> QED
      BY <2>1, <2>2
  <1>2. Cardinality({}) = 0
    BY FS_EmptySet
  <1>3. RowsNumbered(c)'
    <2>1. /\ ClientInv(c) /\ used.commands \in Nat
          /\ Cardinality(RowsOf(c)) \in Nat /\ Cardinality(Asked(c)) \in Nat
      BY ClientFinite, Basics DEF IInv
    <2>2. Cardinality(RowsOf(c)) <= used.commands
      BY <2>1 DEF ClientInv, RowsNumbered
    <2>3. CASE RowsOf(c)' = {}
      BY <1>2, <2>3 DEF RowsNumbered
    <2>4. CASE RowsOf(c)' = RowsOf(c) /\ ~channel'[c].alive
      <3>1. Cardinality(RowsOf(c)') + Cardinality(Asked(c)') <= used'.commands
        BY <1>2, <2>1, <2>2, <2>4
      <3> QED
        BY <2>1, <2>4, <3>1 DEF ClientInv, RowsNumbered
    <2> QED
      BY <2>3, <2>4
  <1>4. Ordered(Stream(c), dispatcher.number, Undispatched, Len(log))'
    BY <1>1 DEF Ordered
  <1>5. Stopped(Stream(c), RowsOf(c), Pending(c), dispatcher.number)'
    BY <1>1 DEF Stopped, Quiet
  <1>6. ASSUME Steady(c)'
        PROVE  /\ Paired(Stream(c), RowsOf(c))'
               /\ \A n \in Heads' \ Undispatched' :
                    Counted(Stream(c)', Pending(c)', dispatcher'.number, n, log'[n])
    <2> DEFINE s == Stream(c)'
    <2>1. RowsOf(c)' = {} /\ Pending(c)' = {}
      BY <1>6 DEF Steady
    <2>2. DOMAIN s = {} /\ Confirmed(s) = {}
      BY <1>1 DEF Confirmed
    <2> HIDE DEF s
    <2>3. Paired(s, {})
      <3> DEFINE g == [x \in {} |-> x]
      <3>1. g \in [{} -> DOMAIN s]
        OBVIOUS
      <3> QED
        BY <2>2, <3>1 DEF Paired
    <2>4. ASSUME NEW number, NEW n, NEW change
          PROVE  Counted(s, {}, number, n, change)
      <3>1. Number(n, s) = 0
        BY <2>2, NoCopy
      <3>2. Wanting(s, change) = {} /\ Waiting(s, change, n) = {}
        BY <2>2 DEF Wanting, Waiting
      <3> QED
        BY <1>2, <3>1, <3>2 DEF Counted
    <2> QED
      BY <2>1, <2>3, <2>4 DEF s
  <1> QED
    BY <1>3, <1>4, <1>5, <1>6 DEF ClientInv

\* Client c is connected or its connection ends: it starts with nothing sent.
LEMMA RestartKeeps ==
    ASSUME IInv, NEW c \in Clients, NEW k,
           k \in [join : 0..MaxJoins, alive : BOOLEAN, mailbox : Seq(Mail)],
           k.mailbox = <<>>, channel[c].join <= k.join,
           k.alive => channel[c].join < k.join,
           channel' = [channel EXCEPT ![c] = k], client' = [client EXCEPT ![c] = Unheard],
           UNCHANGED <<log, carrier, notify, listener, dispatcher>>,
           \/ registry' = registry
           \/ k.join = channel[c].join /\ registry' = [registry EXCEPT !.rows = registry.rows \ RowsOf(c)],
           used' \in [commands : 0..MaxCommands, faults : 0..MaxFaults],
           used'.commands \in Nat, used.commands <= used'.commands
    PROVE  IInv'
  <1>1. /\ channel \in [Clients -> [join : 0..MaxJoins, alive : BOOLEAN, mailbox : Seq(Mail)]]
        /\ client \in [Clients -> [wire : Seq(Pushes), got : Seq(Pushes), undisturbed : BOOLEAN]]
        /\ registry \in [up : BOOLEAN, rows : SUBSET Row]
        /\ IsFiniteSet(registry.rows)
    BY DEF IInv, TypeOK
  <1>2. Unheard \in [wire : Seq(Pushes), got : Seq(Pushes), undisturbed : BOOLEAN]
    <2>1. <<>> \in Seq(Pushes) /\ TRUE \in BOOLEAN
      BY EmptySeq
    <2> QED
      BY <2>1 DEF Unheard
  <1>3. /\ channel' \in [Clients -> [join : 0..MaxJoins, alive : BOOLEAN, mailbox : Seq(Mail)]]
        /\ client' \in [Clients -> [wire : Seq(Pushes), got : Seq(Pushes), undisturbed : BOOLEAN]]
        /\ channel'[c] = k /\ client'[c] = Unheard
        /\ \A d \in Clients : d # c => channel'[d] = channel[d] /\ client'[d] = client[d]
    BY <1>1, <1>2
  <1>4. /\ registry' \in [up : BOOLEAN, rows : SUBSET Row]
        /\ registry'.up = registry.up /\ registry'.rows \subseteq registry.rows
        /\ \A row \in Row : row.client # c => (row \in registry'.rows <=> row \in registry.rows)
    <2>1. CASE registry' = registry
      BY <1>1, <2>1
    <2>2. CASE registry' = [registry EXCEPT !.rows = registry.rows \ RowsOf(c)]
      BY <1>1, <2>2 DEF RowsOf
    <2> QED
      BY <2>1, <2>2
  <1>5. IsFiniteSet(registry'.rows)
    BY <1>1, <1>4, FS_Subset
  <1>6. \A d \in Clients : channel[d].join \in Nat /\ channel'[d].join \in Nat /\ channel[d].join <= channel'[d].join
    <2>1. ASSUME NEW d \in Clients
          PROVE  channel[d].join \in Nat /\ channel'[d].join \in Nat
      <3>1. /\ channel[d] \in [join : 0..MaxJoins, alive : BOOLEAN, mailbox : Seq(Mail)]
            /\ channel'[d] \in [join : 0..MaxJoins, alive : BOOLEAN, mailbox : Seq(Mail)]
        BY <1>1, <1>3
      <3> QED
        BY <3>1
    <2> QED
      BY <1>3, <2>1
  <1>7. \A row \in Row : row.client \in Clients /\ row.join \in Nat
    BY DEF Row
  <1>8. \A row \in registry.rows \cup dispatcher.to :
             row \in Row /\ row.join <= channel[row.client].join /\ row.join <= channel'[row.client].join
    <2>1. \A row \in registry.rows \cup dispatcher.to : row \in Row /\ row.join <= channel[row.client].join
      BY Basics DEF IInv, TypeOK
    <2> QED
      BY <1>6, <1>7, <2>1
  <1>9. TypeOK'
    <2>1. ~registry'.up => registry'.rows = {}
      BY <1>4 DEF IInv, TypeOK
    <2> QED
      BY <1>3, <1>4, <1>8, <2>1 DEF IInv, TypeOK
  <1>10. InLine'
    BY LineStays
  <1>11. ASSUME NEW d \in Clients
         PROVE  ClientInv(d)'
    <2>1. CASE d # c
      BY <1>1, <1>3, <1>4, <2>1, OthersStay
    <2>2. CASE d = c
      <3>1. Stream(c)' = <<>>
        BY <1>3, EmptyStream
      <3>2. Asked(c)' = {}
        <4>1. DOMAIN <<>> = {}
          OBVIOUS
        <4> QED
          BY <1>3, <4>1 DEF Asked
      <3>3. CASE k.join = channel[c].join
        <4>1. ~channel'[c].alive
          BY <1>3, <1>6, <3>3
        <4>2. RowsOf(c)' = {} \/ RowsOf(c)' = RowsOf(c)
          <5>1. CASE registry' = registry
            BY <1>3, <3>3, <5>1 DEF RowsOf
          <5>2. CASE registry' = [registry EXCEPT !.rows = registry.rows \ RowsOf(c)]
            <6>1. registry'.rows = registry.rows \ RowsOf(c)
              BY <1>1, <5>2
            <6> QED
              BY <1>3, <3>3, <6>1 DEF RowsOf
          <5> QED
            BY <5>1, <5>2
        <4> QED
          BY <2>2, <3>1, <3>2, <4>1, <4>2, FreshClient
      <3>4. CASE channel[c].join < k.join
        <4>1. \A row \in registry.rows \cup dispatcher.to : row.client = c => row.join # k.join
          <5>1. channel[c].join \in Nat /\ k.join \in Nat
            BY <1>3, <1>6
          <5> QED
            BY <1>7, <1>8, <3>4, <5>1
        <4>2. RowsOf(c)' = {} /\ Pending(c)' = {}
          BY <1>3, <1>4, <4>1 DEF RowsOf, Pending
        <4>3. channel'[c].join > 0
          BY <1>3, <1>6, <3>4
        <4> QED
          BY <2>2, <3>1, <3>2, <4>2, <4>3, FreshClient
      <3> QED
        BY <1>3, <1>6, <3>3, <3>4
    <2> QED
      BY <2>1, <2>2
  <1> QED
    BY <1>5, <1>8, <1>9, <1>10, <1>11 DEF IInv

\* The client joins: its channel is another one, with another number.
LEMMA JoinKeeps ==
    ASSUME IInv, NEW c \in Clients, Join(c)
    PROVE  IInv'
  <1> DEFINE k == [join |-> channel[c].join + 1, alive |-> TRUE, mailbox |-> <<>>]
  <1>1. channel' = [channel EXCEPT ![c] = k] /\ client' = [client EXCEPT ![c] = Unheard]
    BY DEF Join
  <1>2. UNCHANGED <<log, carrier, notify, listener, dispatcher, registry, used>>
    BY DEF Join
  <1>3. channel[c].join \in 0..MaxJoins /\ MaxJoins \in Nat /\ channel[c].join < MaxJoins
    BY RealtimeAssumption DEF IInv, TypeOK, Join
  <1>4. channel[c].join + 1 \in 0..MaxJoins /\ channel[c].join < channel[c].join + 1
        /\ channel[c].join <= channel[c].join + 1
    BY <1>3
  <1>5. <<>> \in Seq(Mail)
    BY EmptySeq
  <1>6. k \in [join : 0..MaxJoins, alive : BOOLEAN, mailbox : Seq(Mail)]
    BY <1>4, <1>5
  <1>7. k.join = channel[c].join + 1 /\ k.mailbox = <<>>
    OBVIOUS
  <1>8. /\ used' \in [commands : 0..MaxCommands, faults : 0..MaxFaults]
        /\ used'.commands \in Nat /\ used.commands <= used'.commands
    BY <1>2, Basics DEF IInv, TypeOK
  <1> HIDE DEF k
  <1> QED
    BY <1>1, <1>2, <1>4, <1>6, <1>7, <1>8, RestartKeeps

\* The connection ends (Closed), with the rows of the channel or without them.
LEMMA ClosedKeeps ==
    ASSUME IInv, NEW c \in Clients, Closed(c),
           UNCHANGED <<log, carrier, notify, listener, dispatcher>>,
           registry' = registry \/ unsubscribe(c),
           used' \in [commands : 0..MaxCommands, faults : 0..MaxFaults],
           used'.commands \in Nat, used.commands <= used'.commands
    PROVE  IInv'
  <1> DEFINE k == [channel[c] EXCEPT !.alive = FALSE, !.mailbox = <<>>]
  <1>1. channel' = [channel EXCEPT ![c] = k] /\ client' = [client EXCEPT ![c] = Unheard]
    BY DEF Closed
  <1>2. channel[c] \in [join : 0..MaxJoins, alive : BOOLEAN, mailbox : Seq(Mail)]
    BY DEF IInv, TypeOK
  <1>3. <<>> \in Seq(Mail) /\ FALSE \in BOOLEAN
    BY EmptySeq
  <1>4. /\ k \in [join : 0..MaxJoins, alive : BOOLEAN, mailbox : Seq(Mail)]
        /\ k.join = channel[c].join /\ k.mailbox = <<>> /\ ~k.alive
    BY <1>2, <1>3
  <1> HIDE DEF k
  <1>5. channel[c].join <= k.join
    BY <1>2, <1>4
  <1>6. \/ registry' = registry
        \/ k.join = channel[c].join /\ registry' = [registry EXCEPT !.rows = registry.rows \ RowsOf(c)]
    BY <1>4 DEF unsubscribe
  <1> QED
    BY <1>1, <1>4, <1>5, <1>6, RestartKeeps

\* A channel crashes on a command, its connection ends, or it is killed.
LEMMA EndKeeps ==
    ASSUME IInv, NEW c \in Clients, Crash(c) \/ ProxyWebSocket(c) \/ ChannelKilled(c)
    PROVE  IInv'
  <1>1. /\ Closed(c) /\ UNCHANGED <<log, carrier, notify, listener, dispatcher>>
        /\ registry' = registry \/ unsubscribe(c)
        /\ Fault \/ used' = used
    BY DEF Crash, ProxyWebSocket, ChannelKilled
  <1>2. /\ used' \in [commands : 0..MaxCommands, faults : 0..MaxFaults]
        /\ used'.commands \in Nat /\ used.commands <= used'.commands
    <2>1. CASE Fault
      BY <2>1, FaultCounted
    <2>2. CASE used' = used
      BY <2>2, Basics DEF IInv, TypeOK
    <2> QED
      BY <1>1, <2>1, <2>2
  <1> QED
    BY <1>1, <1>2, ClosedKeeps

\* A command has been asked: its mailbox has one more request, or as many.
LEMMA AskedMore ==
    ASSUME TypeOK, NEW c \in Clients, NEW m \in Mail,
           channel'[c].mailbox = Append(channel[c].mailbox, m)
    PROVE  /\ Cardinality(Asked(c)') <= Cardinality(Asked(c)) + 1
           /\ Cardinality(Asked(c)') \in Nat /\ Cardinality(Asked(c)) \in Nat
  <1> DEFINE a == channel[c].mailbox
             b == Append(a, m)
             A == {i \in DOMAIN a : a[i].type = "subscribe"}
             B == {i \in DOMAIN b : b[i].type = "subscribe"}
  <1>1. a \in Seq(Mail)
    BY StreamType
  <1>2. /\ Len(a) \in Nat /\ DOMAIN a = 1..Len(a) /\ DOMAIN b = 1..(Len(a) + 1)
        /\ \A i \in 1..Len(a) : b[i] = a[i]
    BY <1>1, Appended
  <1>3. Asked(c) = A /\ Asked(c)' = B
    BY DEF Asked
  <1> HIDE DEF b
  <1>4. A \subseteq DOMAIN a /\ Len(a) + 1 \notin A /\ B \subseteq A \cup {Len(a) + 1}
    BY <1>2
  <1>5. IsFiniteSet(A) /\ Cardinality(A) \in Nat
    BY <1>2, <1>4, PlacesFinite
  <1> HIDE DEF A, B, a
  <1>6. /\ IsFiniteSet(A \cup {Len(a) + 1})
        /\ Cardinality(A \cup {Len(a) + 1}) = Cardinality(A) + 1
    BY <1>4, <1>5, FS_AddElement
  <1>7. IsFiniteSet(B) /\ Cardinality(B) <= Cardinality(A) + 1
    BY <1>4, <1>6, FS_Subset
  <1> QED
    BY <1>3, <1>5, <1>7, FS_CardinalityType

\* A message that neither tells of a change nor confirms anything leaves the counts alone.
LEMMA CountedSame ==
    ASSUME NEW s, NEW t, NEW p, NEW m, OneMore(s, t, p, m),
           m.type # "subscribed", m.type # "change",
           NEW pending, NEW number, NEW n, NEW change, Counted(s, pending, number, n, change)
    PROVE  Counted(t, pending, number, n, change)
  <1>1. Wanting(t, change) = Wanting(s, change) /\ Waiting(t, change, n) = Waiting(s, change, n)
    BY ConfirmedSame
  <1>2. Number(n, t) = Number(n, s)
    BY NumberMore
  <1> QED
    BY <1>1, <1>2 DEF Counted

\* A command is sent to the channel.
LEMMA CommandKeeps ==
    ASSUME IInv, NEW c \in Clients, NEW m \in Mail, m.type \in {"subscribe", "unsubscribe"},
           Command(c, m)
    PROVE  IInv'
  <1>1. /\ UNCHANGED <<log, carrier, notify, listener, dispatcher, registry, client>>
        /\ Deliver(c, m) /\ channel[c].alive
    BY DEF Command
  <1>2. TypeOK /\ \A d \in Clients : ClientInv(d)
    BY DEF IInv
  <1>3. /\ used' \in [commands : 0..MaxCommands, faults : 0..MaxFaults]
        /\ used'.commands = used.commands + 1
        /\ used.commands \in Nat /\ used'.commands \in Nat /\ used.commands <= used'.commands
    <2>1. used \in [commands : 0..MaxCommands, faults : 0..MaxFaults] /\ MaxCommands \in Nat
      BY <1>2, RealtimeAssumption DEF TypeOK
    <2>2. used.commands + 1 \in 0..MaxCommands /\ used.commands \in Nat
      BY <2>1 DEF Command
    <2>3. used' = [used EXCEPT !.commands = used.commands + 1]
      BY DEF Command
    <2>4. used' \in [commands : 0..MaxCommands, faults : 0..MaxFaults] /\ used'.commands = used.commands + 1
      BY <2>1, <2>2, <2>3
    <2> QED
      BY <2>2, <2>4
  <1>4. /\ channel' \in [Clients -> [join : 0..MaxJoins, alive : BOOLEAN, mailbox : Seq(Mail)]]
        /\ channel'[c].join = channel[c].join /\ channel'[c].alive = channel[c].alive
        /\ channel'[c].mailbox = Append(channel[c].mailbox, m)
        /\ \A d \in Clients : d # c => channel'[d] = channel[d]
        /\ \A d \in Clients : channel'[d].join = channel[d].join
    BY <1>1, <1>2, Delivered
  <1>5. \A row \in registry.rows \cup dispatcher.to : row.join <= channel'[row.client].join
    <2>1. \A row \in registry.rows \cup dispatcher.to :
               row.client \in Clients /\ row.join <= channel[row.client].join
      BY Basics DEF IInv, TypeOK, Row
    <2> QED
      BY <1>4, <2>1
  <1>6. TypeOK'
    BY <1>1, <1>2, <1>3, <1>4, <1>5 DEF TypeOK
  <1>7. InLine' /\ Undispatched' = Undispatched
    BY <1>1, LineStays
  <1>8. ASSUME NEW d \in Clients
        PROVE  ClientInv(d)'
    <2>1. CASE d # c
      <3>1. registry'.rows \subseteq Row
        BY <1>1, Basics
      <3> QED
        BY <1>1, <1>3, <1>4, <2>1, <3>1, OthersStay
    <2>2. CASE d = c
      <3> DEFINE s == Stream(c)
                 t == Append(s, m)
                 p == Len(s) + 1
      <3>1. s' = t /\ s \in Seq(Message) /\ m \in Message
        BY <1>1, <1>2, <1>4, DeliveredStream, StreamType DEF Message
      <3> HIDE DEF s
      <3>2. OneMore(s, t, p, m)
        BY <3>1, DeliveredIsMore
      <3> HIDE DEF t, p
      <3>3. RowsOf(c)' = RowsOf(c) /\ Pending(c)' = Pending(c)
        BY <1>1, <1>4 DEF RowsOf, Pending
      <3>4. RowsNumbered(c)'
        <4>1. /\ Cardinality(Asked(c)') <= Cardinality(Asked(c)) + 1
              /\ Cardinality(Asked(c)') \in Nat /\ Cardinality(Asked(c)) \in Nat
          BY <1>2, <1>4, AskedMore
        <4>2. RowsNumbered(c) /\ Cardinality(RowsOf(c)) \in Nat
          BY <1>2, ClientFinite DEF ClientInv
        <4>3. Cardinality(RowsOf(c)) + Cardinality(Asked(c)') <= used'.commands
          BY <1>3, <4>1, <4>2 DEF RowsNumbered
        <4> QED
          BY <1>4, <3>3, <4>2, <4>3 DEF RowsNumbered
      <3>5. /\ Ordered(s, dispatcher.number, Undispatched, Len(log))
            /\ Stopped(s, RowsOf(c), Pending(c), dispatcher.number)
        BY <1>2 DEF ClientInv, s
      <3>6. Ordered(t, dispatcher.number, Undispatched, Len(log))
        <4>1. dispatcher.number \in Nat
          BY Basics
        <4> QED
          BY <3>2, <3>5, <4>1, OrderedMore
      <3>7. Stopped(t, RowsOf(c), Pending(c), dispatcher.number)
        BY <3>2, <3>5, StoppedCommand
      <3>8. ASSUME Steady(c)'
            PROVE  /\ Paired(t, RowsOf(c))
                   /\ \A n \in Heads \ Undispatched :
                        Counted(t, Pending(c), dispatcher.number, n, log[n])
        <4>1. \A i \in DOMAIN s : s[i].type = "unsubscribed" => i \in DOMAIN t /\ t[i] = s[i]
          BY <3>2 DEF OneMore
        <4>2. Steady(c)
          BY <1>1, <1>4, <3>1, <3>8, <4>1 DEF Steady, s
        <4>3. /\ Paired(s, RowsOf(c))
              /\ \A n \in Heads \ Undispatched :
                   Counted(s, Pending(c), dispatcher.number, n, log[n])
          BY <1>2, <4>2 DEF ClientInv, s
        <4>4. Paired(t, RowsOf(c))
          BY <3>2, <4>3, PairedSame
        <4>5. ASSUME NEW n \in Heads \ Undispatched
              PROVE  Counted(t, Pending(c), dispatcher.number, n, log[n])
          BY <3>2, <4>3, CountedSame
        <4> QED
          BY <4>4, <4>5
      <3> QED
        BY <1>1, <1>7, <2>2, <3>1, <3>3, <3>4, <3>6, <3>7, <3>8 DEF ClientInv, s, Heads
    <2> QED
      BY <2>1, <2>2
  <1> QED
    BY <1>1, <1>2, <1>5, <1>6, <1>7, <1>8 DEF IInv

\* The first request read is one request less.
LEMMA AskedTaken ==
    ASSUME TypeOK, NEW c \in Clients, channel[c].mailbox # <<>>,
           channel'[c].mailbox = Tail(channel[c].mailbox)
    PROVE  /\ Cardinality(Asked(c)') \in Nat /\ Cardinality(Asked(c)) \in Nat
           /\ Cardinality(Asked(c)') <= Cardinality(Asked(c))
           /\ Head(channel[c].mailbox).type = "subscribe" =>
                Cardinality(Asked(c)') + 1 = Cardinality(Asked(c))
  <1> DEFINE a == channel[c].mailbox
             b == Tail(a)
             A == {i \in DOMAIN a : a[i].type = "subscribe"}
             B == {i \in DOMAIN b : b[i].type = "subscribe"}
             C == A \ {1}
             h == [i \in B |-> i + 1]
  <1>1. a \in Seq(Mail)
    BY StreamType
  <1>2. /\ Len(a) \in Nat /\ Len(a) >= 1 /\ DOMAIN a = 1..Len(a) /\ DOMAIN b = 1..(Len(a) - 1)
        /\ \A i \in 1..(Len(a) - 1) : b[i] = a[i + 1]
        /\ Head(a) = a[1]
    BY <1>1, Beginning
  <1>3. Asked(c) = A /\ Asked(c)' = B
    BY DEF Asked
  <1> HIDE DEF a, b
  <1>4. h \in Bijection(B, C)
    <2>1. \A i \in B : i \in Nat /\ i >= 1 /\ i + 1 \in C /\ h[i] = i + 1
      BY <1>2
    <2>2. \A j \in C : j - 1 \in B /\ h[j - 1] = j
      <3>1. ASSUME NEW j \in C
            PROVE  j - 1 \in B /\ h[j - 1] = j
        <4>1. j \in 1..Len(a) /\ j # 1 /\ j - 1 \in 1..(Len(a) - 1) /\ (j - 1) + 1 = j
          BY <1>2
        <4>2. b[j - 1] = a[j]
          BY <1>2, <4>1
        <4>3. j - 1 \in B
          BY <1>2, <4>1, <4>2
        <4> QED
          BY <2>1, <4>1, <4>3
      <3> QED
        BY <3>1
    <2>3. h \in [B -> C]
      BY <2>1
    <2> HIDE DEF h, B, C
    <2>4. \A x, y \in B : h[x] = h[y] => x = y
      BY <2>1
    <2>5. \A j \in C : \E i \in B : h[i] = j
      BY <2>2
    <2> QED
      BY <2>3, <2>4, <2>5 DEF Bijection, Injection, Surjection, IsInjective
  <1>5. IsFiniteSet(A) /\ Cardinality(A) \in Nat /\ IsFiniteSet(B) /\ Cardinality(B) \in Nat
    <2>1. A \subseteq DOMAIN a
      OBVIOUS
    <2>2. Len(b) \in Nat /\ DOMAIN b = 1..Len(b) /\ B \subseteq DOMAIN b
      BY <1>1, <1>2, Beginning DEF a, b
    <2> HIDE DEF A, B
    <2> QED
      BY <1>2, <2>1, <2>2, PlacesFinite
  <1>6. Head(a).type = "subscribe" <=> 1 \in A
    BY <1>2
  <1> HIDE DEF A, B, C, h
  <1>7. IsFiniteSet(C) /\ Cardinality(C) = IF 1 \in A THEN Cardinality(A) - 1 ELSE Cardinality(A)
    BY <1>5, FS_RemoveElement DEF C
  <1>8. Cardinality(B) = Cardinality(C)
    BY <1>4, <1>5, FS_Bijection DEF ExistsBijection
  <1> QED
    BY <1>3, <1>5, <1>6, <1>7, <1>8 DEF a

\* The channel reads its next mail (Handled) and pushes m.
LEMMA HandledPushed ==
    ASSUME TypeOK, NEW c \in Clients, NEW m \in Pushes, channel[c].mailbox # <<>>,
           push(c, m), Handled(c)
    PROVE  /\ channel' \in [Clients -> [join : 0..MaxJoins, alive : BOOLEAN, mailbox : Seq(Mail)]]
           /\ client' \in [Clients -> [wire : Seq(Pushes), got : Seq(Pushes), undisturbed : BOOLEAN]]
           /\ channel'[c].join = channel[c].join /\ channel'[c].alive = channel[c].alive
           /\ channel'[c].mailbox = Tail(channel[c].mailbox)
           /\ client'[c].got = client[c].got /\ client'[c].wire = Append(client[c].wire, m)
           /\ client'[c].undisturbed = client[c].undisturbed
           /\ \A d \in Clients : d # c => channel'[d] = channel[d] /\ client'[d] = client[d]
           /\ \A d \in Clients : channel'[d].join = channel[d].join
  <1> DEFINE box == Tail(channel[c].mailbox)
             wire == Append(client[c].wire, m)
             k == [channel[c] EXCEPT !.mailbox = box]
             l == [client[c] EXCEPT !.wire = wire]
  <1>1. /\ channel \in [Clients -> [join : 0..MaxJoins, alive : BOOLEAN, mailbox : Seq(Mail)]]
        /\ client \in [Clients -> [wire : Seq(Pushes), got : Seq(Pushes), undisturbed : BOOLEAN]]
        /\ channel[c] \in [join : 0..MaxJoins, alive : BOOLEAN, mailbox : Seq(Mail)]
        /\ client[c] \in [wire : Seq(Pushes), got : Seq(Pushes), undisturbed : BOOLEAN]
    BY DEF TypeOK
  <1>2. box \in Seq(Mail) /\ wire \in Seq(Pushes)
    <2>1. channel[c].mailbox \in Seq(Mail) /\ client[c].wire \in Seq(Pushes)
      BY <1>1
    <2> QED
      BY <2>1, Beginning, Appended
  <1>3. channel' = [channel EXCEPT ![c] = k] /\ client' = [client EXCEPT ![c] = l]
    BY DEF Handled, push
  <1> HIDE DEF box, wire
  <1>4. /\ k \in [join : 0..MaxJoins, alive : BOOLEAN, mailbox : Seq(Mail)]
        /\ k.join = channel[c].join /\ k.alive = channel[c].alive /\ k.mailbox = box
    BY <1>1, <1>2
  <1>5. /\ l \in [wire : Seq(Pushes), got : Seq(Pushes), undisturbed : BOOLEAN]
        /\ l.wire = wire /\ l.got = client[c].got /\ l.undisturbed = client[c].undisturbed
    BY <1>1, <1>2
  <1> HIDE DEF k, l
  <1>6. channel'[c] = k /\ client'[c] = l
    BY <1>1, <1>3
  <1>7. \A d \in Clients : d # c => channel'[d] = channel[d] /\ client'[d] = client[d]
    BY <1>1, <1>3
  <1>8. /\ channel' \in [Clients -> [join : 0..MaxJoins, alive : BOOLEAN, mailbox : Seq(Mail)]]
        /\ client' \in [Clients -> [wire : Seq(Pushes), got : Seq(Pushes), undisturbed : BOOLEAN]]
    BY <1>1, <1>3, <1>4, <1>5
  <1> QED
    BY <1>4, <1>5, <1>6, <1>7, <1>8 DEF box, wire

\* What is read by the channel stands in the stream after all it has pushed.
LEMMA PushedFirst ==
    ASSUME TypeOK, NEW c \in Clients, NEW i \in DOMAIN Stream(c),
           Stream(c)[i].type \in {"subscribed", "unsubscribed"}
    PROVE  i < Len(Sent(c)) + 1
  <1> DEFINE a == Sent(c)
             b == channel[c].mailbox
  <1>1. a \in Seq(Message) /\ b \in Seq(Message) /\ b \in Seq(Mail)
    BY StreamType
  <1>2. /\ Len(a) \in Nat /\ Len(b) \in Nat
        /\ DOMAIN (a \o b) = 1..(Len(a) + Len(b))
        /\ \A j \in 1..(Len(a) + Len(b)) : (a \o b)[j] = IF j <= Len(a) THEN a[j] ELSE b[j - Len(a)]
    BY <1>1, Joined
  <1> HIDE DEF a, b
  <1>3. i \in 1..(Len(a) + Len(b)) /\ (a \o b)[i].type \in {"subscribed", "unsubscribed"}
    BY <1>2 DEF Stream, a, b
  <1>4. ASSUME i > Len(a)
        PROVE  FALSE
    <2>1. (a \o b)[i] = b[i - Len(a)] /\ i - Len(a) \in 1..Len(b)
      BY <1>2, <1>3, <1>4
    <2>2. b[i - Len(a)] \in Mail
      BY <1>1, <2>1, ElementOfSeq
    <2>3. b[i - Len(a)].type \in {"subscribe", "unsubscribe", "change"}
      BY <2>2, Kinds DEF Message
    <2> QED
      BY <1>3, <2>1, <2>3
  <1> QED
    BY <1>2, <1>3, <1>4 DEF a

\* A subscription is one more that may count, and is due no change so far.
LEMMA CountedSubscribed ==
    ASSUME NEW s \in Seq(Message), NEW t \in Seq(Message), NEW p, NEW m, OneMore(s, t, p, m),
           m.type = "subscribed", NEW pending, IsFiniteSet(pending), NEW number, NEW n, ~(m.at < n),
           NEW change, Counted(s, pending, number, n, change)
    PROVE  Counted(t, pending, number, n, change)
  <1>1. /\ Wanting(s, change) \subseteq Wanting(t, change)
        /\ Waiting(t, change, n) = Waiting(s, change, n)
    BY ConfirmedMore
  <1>2. Number(n, t) = Number(n, s) /\ Number(n, s) \in Nat
    BY NumberMore
  <1>3. /\ IsFiniteSet(Wanting(t, change)) /\ Cardinality(Wanting(t, change)) \in Nat
        /\ Cardinality(Wanting(s, change)) \in Nat /\ Cardinality(Waiting(s, change, n)) \in Nat
    BY ConfirmedFinite
  <1>4. Cardinality(Wanting(s, change)) <= Cardinality(Wanting(t, change))
    BY <1>1, <1>3, FS_Subset
  <1>5. Cardinality(pending) \in Nat
    BY FS_CardinalityType
  <1> DEFINE total == Number(n, s) + (IF number # n THEN 0 ELSE Cardinality(pending))
  <1>6. total \in Cardinality(Waiting(s, change, n))..Cardinality(Wanting(s, change)) /\ total \in Nat
    BY <1>2, <1>5 DEF Counted
  <1> HIDE DEF total
  <1>7. total \in Cardinality(Waiting(s, change, n))..Cardinality(Wanting(t, change))
    BY <1>3, <1>4, <1>6
  <1> QED
    BY <1>1, <1>2, <1>7 DEF Counted, total

\* A mail handled by c is seen by c alone.
LEMMA HandlerKeeps ==
    ASSUME IInv, NEW c \in Clients, NEW m \in Pushes, channel[c].mailbox # <<>>,
           push(c, m), Handled(c), UNCHANGED <<log, carrier, notify, listener, dispatcher, used>>,
           NEW rows, rows \subseteq Row, IsFiniteSet(rows),
           registry' = [registry EXCEPT !.rows = rows],
           \A row \in Row : row.client # c => (row \in rows <=> row \in registry.rows),
           \A row \in rows : row.join <= channel[row.client].join,
           registry.up \/ rows = registry.rows,
           ClientInv(c)'
    PROVE  IInv'
  <1>1. TypeOK
    BY DEF IInv
  <1>2. /\ channel' \in [Clients -> [join : 0..MaxJoins, alive : BOOLEAN, mailbox : Seq(Mail)]]
        /\ client' \in [Clients -> [wire : Seq(Pushes), got : Seq(Pushes), undisturbed : BOOLEAN]]
        /\ \A d \in Clients : d # c => channel'[d] = channel[d] /\ client'[d] = client[d]
        /\ \A d \in Clients : channel'[d].join = channel[d].join
    BY <1>1, HandledPushed
  <1>3. registry' \in [up : BOOLEAN, rows : SUBSET Row] /\ registry'.rows = rows /\ registry'.up = registry.up
    BY Basics
  <1>4. \A row \in rows \cup dispatcher.to : row.join <= channel'[row.client].join
    <2>1. \A row \in rows \cup dispatcher.to : row.client \in Clients /\ row.join <= channel[row.client].join
      BY Basics DEF IInv, Row
    <2> QED
      BY <1>2, <2>1
  <1>5. TypeOK'
    BY <1>1, <1>2, <1>3, <1>4 DEF TypeOK
  <1>6. InLine'
    BY LineStays
  <1>7. ASSUME NEW d \in Clients
        PROVE  ClientInv(d)'
    <2>1. CASE d = c
      BY <2>1
    <2>2. CASE d # c
      <3>1. used'.commands \in Nat /\ used.commands <= used'.commands
        BY Basics
      <3> QED
        BY <1>2, <1>3, <2>2, <3>1, OthersStay
    <2> QED
      BY <2>1, <2>2
  <1> QED
    BY <1>3, <1>4, <1>5, <1>6, <1>7 DEF IInv

\* A command of the stream is turned into push m.
LEMMA HandledStream ==
    ASSUME IInv, NEW c \in Clients, NEW m \in Pushes, push(c, m), Handled(c),
           Reads(c, "subscribe") \/ Reads(c, "unsubscribe")
    PROVE  LET p == Len(Sent(c)) + 1
           IN  /\ OneMore(Stream(c), Stream(c)', p, m)
               /\ p \in DOMAIN Stream(c)
               /\ Stream(c) \in Seq(Message) /\ Stream(c)' \in Seq(Message)
               /\ Stream(c)[p] = Head(channel[c].mailbox)
               /\ Head(channel[c].mailbox) \in Mail
               /\ m \in Message
  <1> DEFINE p == Len(Sent(c)) + 1
             s == Stream(c)
             t == [s EXCEPT ![p] = m]
  <1>1. TypeOK /\ channel[c].mailbox # <<>> /\ channel[c].mailbox \in Seq(Mail)
    BY StreamType DEF IInv, Reads
  <1>2. /\ channel'[c].mailbox = Tail(channel[c].mailbox)
        /\ client'[c].got = client[c].got /\ client'[c].wire = Append(client[c].wire, m)
    BY <1>1, HandledPushed
  <1>3. p \in DOMAIN s /\ s[p] = Head(channel[c].mailbox) /\ s' = t
    BY <1>1, <1>2, TurnedStream
  <1>4. s \in Seq(Message) /\ m \in Message
    BY <1>1, StreamType DEF Message
  <1>5. s[p].type \in {"subscribe", "unsubscribe"}
    BY <1>3 DEF Reads
  <1>6. Head(channel[c].mailbox) \in Mail
    BY <1>1, Beginning
  <1> HIDE DEF s, p
  <1>7. OneMore(s, t, p, m)
    BY <1>3, <1>4, <1>5, TurnedIsMore
  <1>8. t \in Seq(Message)
    <2>1. p \in 1..Len(s)
      BY <1>3, <1>4, LenProperties
    <2> QED
      BY <1>4, <2>1, ExceptSeq
  <1> QED
    BY <1>3, <1>4, <1>6, <1>7, <1>8 DEF s, p

\* A subscription is taken: one row and one confirmation more.
LEMMA HandleSubscribeKeeps ==
    ASSUME IInv, NEW c \in Clients, HandleSubscribe(c)
    PROVE  IInv'
  <1> DEFINE sub == Head(channel[c].mailbox).sub
             m == [type |-> "subscribed", at |-> Len(log), sub |-> sub]
             ref == 1 + Cardinality(RowsOf(c))
             row == [client |-> c, join |-> channel[c].join, ref |-> ref, sub |-> sub]
             rows == registry.rows \cup {row}
             s == Stream(c)
             t == Stream(c)'
             p == Len(Sent(c)) + 1
  <1>1. /\ Reads(c, "subscribe") /\ registry.up /\ push(c, m) /\ Handled(c)
        /\ channel[c].alive /\ channel[c].mailbox # <<>>
        /\ Head(channel[c].mailbox).type = "subscribe"
        /\ UNCHANGED <<log, carrier, notify, listener, dispatcher, used>>
    BY DEF HandleSubscribe, Reads
  <1>2. registry' = [registry EXCEPT !.rows = rows]
    <2>1. {[client |-> c, join |-> channel[c].join, ref |-> r, sub |-> sub] : r \in {ref}} = {row}
      OBVIOUS
    <2> QED
      BY <2>1 DEF HandleSubscribe, subscribe
  <1>3. TypeOK /\ ClientInv(c)
    BY DEF IInv
  <1>4. channel[c].mailbox \in Seq(Mail) /\ Head(channel[c].mailbox) \in Mail /\ sub \in Subscriptions
    <2>1. channel[c].mailbox \in Seq(Mail)
      BY <1>3, StreamType
    <2>2. Head(channel[c].mailbox) \in Mail
      BY <1>1, <2>1, Beginning
    <2> QED
      BY <1>1, <2>1, <2>2, Kinds DEF Message
  <1>5. m \in Pushes /\ m.type = "subscribed" /\ m.at = Len(log) /\ m.sub = sub
    BY <1>4, Basics DEF Pushes
  <1>6. /\ channel'[c].join = channel[c].join /\ channel'[c].alive = channel[c].alive
        /\ channel'[c].mailbox = Tail(channel[c].mailbox)
        /\ client'[c].undisturbed = client[c].undisturbed
    BY <1>1, <1>3, <1>5, HandledPushed
  <1>7. /\ Cardinality(Asked(c)') \in Nat /\ Cardinality(Asked(c)) \in Nat
        /\ Cardinality(Asked(c)') + 1 = Cardinality(Asked(c))
    BY <1>1, <1>3, <1>6, AskedTaken
  <1>8. /\ IsFiniteSet(RowsOf(c)) /\ Cardinality(RowsOf(c)) \in Nat /\ IsFiniteSet(Pending(c))
        /\ \A x \in RowsOf(c) : x \in Row /\ x.ref <= Cardinality(RowsOf(c))
        /\ Cardinality(RowsOf(c)) + Cardinality(Asked(c)) <= used.commands
    BY <1>3, ClientFinite, Basics DEF ClientInv, RowsNumbered, RowsOf
  <1> HIDE DEF sub
  <1>9. row \in Row
    <2>1. channel[c].join \in 1..MaxJoins
      <3>1. channel[c].join \in 0..MaxJoins /\ MaxJoins \in Nat /\ channel[c].join > 0
        BY <1>1, <1>3, RealtimeAssumption DEF TypeOK, ClientInv, RowsNumbered
      <3> QED
        BY <3>1
    <2>2. ref \in 1..MaxCommands
      <3>1. used.commands \in 0..MaxCommands /\ MaxCommands \in Nat
        BY <1>3, RealtimeAssumption DEF TypeOK
      <3> QED
        BY <1>7, <1>8, <3>1
    <2> HIDE DEF ref
    <2> QED
      BY <1>4, <2>1, <2>2 DEF Row
  <1>10. /\ row.client = c /\ row.join = channel[c].join /\ row.ref = ref /\ row.sub = sub
    OBVIOUS
  <1>11. row \notin RowsOf(c)
    <2>1. \A x \in RowsOf(c) : x.ref \in Nat /\ x.ref # ref
      BY <1>8 DEF Row
    <2> QED
      BY <1>10, <2>1
  <1> HIDE DEF row
  <1>12. rows \subseteq Row /\ IsFiniteSet(rows)
    BY <1>9, Basics, FS_AddElement DEF IInv
  <1>13. registry'.rows = rows
    BY <1>2, Basics
  <1>14. RowsOf(c)' = RowsOf(c) \cup {row}
    BY <1>6, <1>10, <1>13 DEF RowsOf
  <1>15. \A x \in rows : x.join <= channel[x.client].join
    <2>1. \A x \in registry.rows : x.join <= channel[x.client].join
      BY <1>3 DEF TypeOK
    <2>2. channel[c].join <= channel[c].join
      <3>1. channel[c].join \in 0..MaxJoins
        BY <1>3 DEF TypeOK
      <3> QED
        BY <3>1
    <2> QED
      BY <1>10, <2>1, <2>2
  <1>16. \A x \in Row : x.client # c => (x \in rows <=> x \in registry.rows)
    BY <1>10
  <1>17. RowsNumbered(c)'
    <2>1. Cardinality(RowsOf(c)') = Cardinality(RowsOf(c)) + 1
      BY <1>8, <1>11, <1>14, FS_AddElement
    <2>2. ASSUME NEW x \in RowsOf(c)'
          PROVE  x.ref <= Cardinality(RowsOf(c)')
      <3>1. CASE x = row
        BY <1>8, <1>10, <2>1, <3>1
      <3>2. CASE x \in RowsOf(c)
        <4>1. x.ref \in Nat /\ x.ref <= Cardinality(RowsOf(c))
          BY <1>8, <3>2 DEF Row
        <4> QED
          BY <1>8, <2>1, <4>1
      <3> QED
        BY <1>14, <2>2, <3>1, <3>2
    <2>3. Cardinality(RowsOf(c)') + Cardinality(Asked(c)') <= used'.commands
      BY <1>1, <1>7, <1>8, <2>1
    <2>4. channel'[c].alive => channel'[c].join > 0
      BY <1>3, <1>6 DEF ClientInv, RowsNumbered
    <2> QED
      BY <2>2, <2>3, <2>4 DEF RowsNumbered
  <1>18. Pending(c)' = Pending(c) /\ Undispatched' = Undispatched
    BY <1>1, <1>6 DEF Pending, Undispatched
  <1>19. OneMore(s, t, p, m) /\ s \in Seq(Message) /\ t \in Seq(Message)
    BY <1>1, <1>5, HandledStream
  <1>20. \A i \in DOMAIN s : s[i].type = "unsubscribed" => i < p
    BY <1>3, PushedFirst
  <1> HIDE DEF s, t, p, m
  <1>21. Ordered(t, dispatcher.number, Undispatched, Len(log))
    <2>1. Ordered(s, dispatcher.number, Undispatched, Len(log)) /\ dispatcher.number \in Nat
      BY <1>3, Basics DEF ClientInv, s
    <2> QED
      BY <1>5, <1>19, <2>1, OrderedMore
  <1>22. Stopped(t, RowsOf(c)', Pending(c), dispatcher.number)
    <2>1. Stopped(s, RowsOf(c), Pending(c), dispatcher.number)
      BY <1>3 DEF ClientInv, s
    <2> QED
      BY <1>5, <1>19, <1>20, <2>1, StoppedSubscribed
  <1>23. ASSUME Steady(c)'
         PROVE  /\ Paired(t, RowsOf(c)')
                /\ \A n \in Heads \ Undispatched :
                     Counted(t, Pending(c), dispatcher.number, n, log[n])
    <2>1. \A i \in DOMAIN s : s[i].type = "unsubscribed" => i \in DOMAIN t /\ t[i] = s[i]
      BY <1>19 DEF OneMore
    <2>2. Steady(c)
      BY <1>6, <1>23, <2>1 DEF Steady, s, t
    <2>3. /\ Paired(s, RowsOf(c))
          /\ \A n \in Heads \ Undispatched :
               Counted(s, Pending(c), dispatcher.number, n, log[n])
      BY <1>3, <2>2 DEF ClientInv, s
    <2>4. Paired(t, RowsOf(c)')
      <3>1. row.sub = m.sub
        BY <1>5, <1>10
      <3> QED
        BY <1>5, <1>11, <1>14, <1>19, <2>3, <3>1, PairedMore
    <2>5. ASSUME NEW n \in Heads \ Undispatched
          PROVE  Counted(t, Pending(c), dispatcher.number, n, log[n])
      <3>1. ~(m.at < n)
        BY <1>5, Basics
      <3> QED
        BY <1>5, <1>8, <1>19, <2>3, <3>1, CountedSubscribed
    <2> QED
      BY <2>4, <2>5
  <1>24. ClientInv(c)'
    BY <1>1, <1>17, <1>18, <1>21, <1>22, <1>23 DEF ClientInv, t, Heads
  <1> HIDE DEF rows
  <1> QED
    BY <1>1, <1>2, <1>5, <1>12, <1>15, <1>16, <1>24, HandlerKeeps

\* An unsubscription is taken: no row of the channel is left.
LEMMA HandleUnsubscribeKeeps ==
    ASSUME IInv, NEW c \in Clients, HandleUnsubscribe(c)
    PROVE  IInv'
  <1> DEFINE m == [type |-> "unsubscribed", at |-> Len(log)]
             rows == registry.rows \ RowsOf(c)
             s == Stream(c)
             t == Stream(c)'
             p == Len(Sent(c)) + 1
  <1>1. /\ Reads(c, "unsubscribe") /\ registry.up /\ push(c, m) /\ Handled(c)
        /\ channel[c].alive /\ channel[c].mailbox # <<>>
        /\ UNCHANGED <<log, carrier, notify, listener, dispatcher, used>>
        /\ registry' = [registry EXCEPT !.rows = rows]
    BY DEF HandleUnsubscribe, Reads, unsubscribe
  <1>2. TypeOK /\ ClientInv(c)
    BY DEF IInv
  <1>3. m \in Pushes /\ m.type = "unsubscribed" /\ m.at = Len(log)
    BY Basics DEF Pushes
  <1>4. /\ channel'[c].join = channel[c].join /\ channel'[c].alive = channel[c].alive
        /\ channel'[c].mailbox = Tail(channel[c].mailbox)
    BY <1>1, <1>2, <1>3, HandledPushed
  <1>5. /\ rows \subseteq Row /\ IsFiniteSet(rows) /\ registry'.rows = rows
        /\ \A x \in rows : x.join <= channel[x.client].join
        /\ \A x \in Row : x.client # c => (x \in rows <=> x \in registry.rows)
    <2>1. /\ registry.rows \subseteq Row /\ IsFiniteSet(registry.rows)
          /\ \A x \in registry.rows : x.join <= channel[x.client].join
      BY <1>2, Basics DEF IInv, TypeOK
    <2>2. rows \subseteq registry.rows
      OBVIOUS
    <2>3. registry'.rows = rows
      BY <1>1, Basics
    <2>4. \A x \in Row : x.client # c => (x \in rows <=> x \in registry.rows)
      BY DEF RowsOf
    <2> HIDE DEF rows
    <2> QED
      BY <2>1, <2>2, <2>3, <2>4, FS_Subset
  <1>6. RowsOf(c)' = {}
    BY <1>4, <1>5 DEF RowsOf
  <1>7. RowsNumbered(c)'
    <2>1. /\ Cardinality(Asked(c)') \in Nat /\ Cardinality(Asked(c)) \in Nat
          /\ Cardinality(Asked(c)') <= Cardinality(Asked(c))
      BY <1>1, <1>2, <1>4, AskedTaken
    <2>2. /\ Cardinality(RowsOf(c)) \in Nat /\ used.commands \in Nat
          /\ Cardinality(RowsOf(c)) + Cardinality(Asked(c)) <= used.commands
          /\ Cardinality({}) = 0
      BY <1>2, ClientFinite, Basics, FS_EmptySet DEF ClientInv, RowsNumbered
    <2>3. Cardinality(RowsOf(c)') + Cardinality(Asked(c)') <= used'.commands
      BY <1>1, <1>6, <2>1, <2>2
    <2> QED
      BY <1>2, <1>4, <1>6, <2>3 DEF ClientInv, RowsNumbered
  <1>8. Pending(c)' = Pending(c) /\ Undispatched' = Undispatched
    BY <1>1, <1>4 DEF Pending, Undispatched
  <1>9. OneMore(s, t, p, m) /\ s \in Seq(Message)
    BY <1>1, <1>3, HandledStream
  <1> HIDE DEF s, t, p, m, rows
  <1>10. Ordered(s, dispatcher.number, Undispatched, Len(log)) /\ dispatcher.number \in Nat
    BY <1>2, Basics DEF ClientInv, s
  <1>11. Ordered(t, dispatcher.number, Undispatched, Len(log))
    BY <1>3, <1>9, <1>10, OrderedMore
  <1>12. Stopped(t, {}, Pending(c), dispatcher.number)
    <2>1. Stopped(s, RowsOf(c), Pending(c), dispatcher.number)
      BY <1>2 DEF ClientInv, s
    <2>2. /\ \A i \in DOMAIN s : s[i].type = "change" => s[i].number <= m.at
          /\ dispatcher.number <= m.at
      BY <1>3, <1>10 DEF Ordered, IInv, InLine
    <2> QED
      BY <1>3, <1>9, <2>1, <2>2, StoppedUnsubscribed
  <1>13. ~Steady(c)'
    <2>1. p \in DOMAIN t /\ t[p].type = "unsubscribed"
      BY <1>3, <1>9 DEF OneMore
    <2> QED
      BY <2>1 DEF Steady, t
  <1>14. ClientInv(c)'
    BY <1>1, <1>6, <1>7, <1>8, <1>11, <1>12, <1>13 DEF ClientInv, t
  <1> QED
    BY <1>1, <1>3, <1>5, <1>14, HandlerKeeps

\* A change is pushed: the stream is as it was.
LEMMA HandleRealtimeChangeKeeps ==
    ASSUME IInv, NEW c \in Clients, HandleRealtimeChange(c)
    PROVE  IInv'
  <1> DEFINE m == Head(channel[c].mailbox)
  <1>1. /\ push(c, m) /\ Handled(c) /\ channel[c].mailbox # <<>> /\ m.type = "change"
        /\ UNCHANGED <<log, carrier, notify, listener, dispatcher, registry, used>>
    BY DEF HandleRealtimeChange, Reads
  <1>2. TypeOK /\ ClientInv(c)
    BY DEF IInv
  <1>3. m \in Pushes
    <2>1. channel[c].mailbox \in Seq(Mail)
      BY <1>2, StreamType
    <2>2. m \in Mail
      BY <1>1, <2>1, Beginning
    <2> QED
      BY <1>1, <2>2, Kinds DEF Message
  <1>4. /\ channel'[c].join = channel[c].join /\ channel'[c].alive = channel[c].alive
        /\ channel'[c].mailbox = Tail(channel[c].mailbox)
        /\ client'[c].undisturbed = client[c].undisturbed
        /\ client'[c].got = client[c].got /\ client'[c].wire = Append(client[c].wire, m)
    BY <1>1, <1>2, <1>3, HandledPushed
  <1>5. Stream(c)' = Stream(c)
    <2> DEFINE p == Len(Sent(c)) + 1
               s == Stream(c)
    <2>1. p \in DOMAIN s /\ s[p] = m /\ s' = [s EXCEPT ![p] = m]
      BY <1>1, <1>2, <1>3, <1>4, TurnedStream
    <2>2. s \in Seq(Message)
      BY <1>2, StreamType
    <2> HIDE DEF s, p, m
    <2>3. [s EXCEPT ![p] = m] = s
      BY <2>1, <2>2
    <2> QED
      BY <2>1, <2>3 DEF s
  <1>6. RowsOf(c)' = RowsOf(c) /\ Pending(c)' = Pending(c) /\ Undispatched' = Undispatched
    BY <1>1, <1>4 DEF RowsOf, Pending, Undispatched
  <1>7. RowsNumbered(c)'
    <2>1. /\ Cardinality(Asked(c)') \in Nat /\ Cardinality(Asked(c)) \in Nat
          /\ Cardinality(Asked(c)') <= Cardinality(Asked(c))
      BY <1>1, <1>2, <1>4, AskedTaken
    <2>2. /\ Cardinality(RowsOf(c)) \in Nat /\ used.commands \in Nat
          /\ Cardinality(RowsOf(c)) + Cardinality(Asked(c)) <= used.commands
      BY <1>2, ClientFinite, Basics DEF ClientInv, RowsNumbered
    <2>3. Cardinality(RowsOf(c)') + Cardinality(Asked(c)') <= used'.commands
      BY <1>1, <1>6, <2>1, <2>2
    <2> QED
      BY <1>2, <1>4, <1>6, <2>3 DEF ClientInv, RowsNumbered
  <1>8. Steady(c)' <=> Steady(c)
    BY <1>4, <1>5 DEF Steady
  <1>9. ClientInv(c)'
    BY <1>1, <1>2, <1>5, <1>6, <1>7, <1>8 DEF ClientInv, Heads
  <1>10. registry' = [registry EXCEPT !.rows = registry.rows]
    BY <1>1, Basics
  <1>11. /\ registry.rows \subseteq Row /\ IsFiniteSet(registry.rows)
         /\ \A x \in registry.rows : x.join <= channel[x.client].join
    BY <1>2, Basics DEF IInv, TypeOK
  <1> HIDE DEF m
  <1> QED
    BY <1>1, <1>3, <1>9, <1>10, <1>11, HandlerKeeps

\* The relay passes a push on: the stream is as it was.
LEMMA ProxyWSKeeps ==
    ASSUME IInv, NEW c \in Clients, proxyWS(c)
    PROVE  IInv'
  <1> DEFINE wire == Tail(client[c].wire)
             got == Append(client[c].got, Head(client[c].wire))
             k == [client[c] EXCEPT !.wire = wire, !.got = got]
  <1>1. UNCHANGED <<log, carrier, notify, listener, dispatcher, registry, channel, used>> /\ client[c].wire # <<>>
    BY DEF proxyWS
  <1>2. client' = [client EXCEPT ![c] = k]
    BY DEF proxyWS
  <1>3. /\ client \in [Clients -> [wire : Seq(Pushes), got : Seq(Pushes), undisturbed : BOOLEAN]]
        /\ client[c] \in [wire : Seq(Pushes), got : Seq(Pushes), undisturbed : BOOLEAN]
        /\ TypeOK
    BY DEF IInv, TypeOK
  <1>4. wire \in Seq(Pushes) /\ got \in Seq(Pushes)
    <2>1. client[c].wire \in Seq(Pushes) /\ client[c].got \in Seq(Pushes)
      BY <1>3
    <2>2. Head(client[c].wire) \in Pushes /\ wire \in Seq(Pushes)
      BY <1>1, <2>1, Beginning
    <2> QED
      BY <2>1, <2>2, Appended
  <1> HIDE DEF wire, got
  <1>5. /\ k \in [wire : Seq(Pushes), got : Seq(Pushes), undisturbed : BOOLEAN]
        /\ k.wire = wire /\ k.got = got /\ k.undisturbed = client[c].undisturbed
    BY <1>3, <1>4
  <1> HIDE DEF k
  <1>6. /\ client' \in [Clients -> [wire : Seq(Pushes), got : Seq(Pushes), undisturbed : BOOLEAN]]
        /\ client'[c] = k /\ \A d \in Clients : d # c => client'[d] = client[d]
    BY <1>2, <1>3, <1>5
  <1>7. Stream(c)' = Stream(c)
    <2>1. Sent(c)' = Sent(c)
      BY <1>1, <1>3, <1>5, <1>6, RelayedStream DEF wire, got
    <2> QED
      BY <1>1, <2>1 DEF Stream
  <1>8. TypeOK'
    BY <1>1, <1>3, <1>6 DEF TypeOK
  <1>9. InLine' /\ Undispatched' = Undispatched
    BY <1>1, LineStays
  <1>10. ASSUME NEW d \in Clients
         PROVE  ClientInv(d)'
    <2>1. Stream(d)' = Stream(d)
      <3>1. CASE d = c
        BY <1>7, <3>1
      <3>2. CASE d # c
        BY <1>1, <1>6, <3>2 DEF Stream, Sent
      <3> QED
        BY <3>1, <3>2
    <2>2. client'[d].undisturbed = client[d].undisturbed
      BY <1>5, <1>6
    <2>3. RowsOf(d)' = RowsOf(d) /\ Pending(d)' = Pending(d) /\ dispatcher'.number = dispatcher.number
      BY <1>1 DEF RowsOf, Pending
    <2>4. used'.commands \in Nat /\ used.commands <= used'.commands
      BY <1>1, Basics
    <2> QED
      BY <1>1, <1>9, <2>1, <2>2, <2>3, <2>4, ClientStays
  <1> QED
    BY <1>1, <1>8, <1>9, <1>10 DEF IInv

-----------------------------------------------------------------------------
(* The invariant, and the properties that follow from it.                   *)

\* At the start nobody has joined.
LEMMA InitKeeps ==
    ASSUME Init
    PROVE  IInv
  <1>1. /\ log = <<>> /\ carrier = <<>> /\ notify = <<>> /\ listener = "down" /\ dispatcher = Idle
        /\ registry = NewTable /\ client = [c \in Clients |-> Unheard]
        /\ channel = [c \in Clients |-> [join |-> 0, alive |-> FALSE, mailbox |-> <<>>]]
        /\ used = [commands |-> 0, faults |-> 0]
    BY DEF Init
  <1>2. /\ <<>> \in Seq(Changes) /\ <<>> \in Seq(Numbers) /\ <<>> \in Seq(Mail) /\ <<>> \in Seq(Pushes)
        /\ Len(<<>>) = 0 /\ DOMAIN <<>> = {}
    <2>1. /\ <<>> \in Seq(Changes) /\ <<>> \in Seq(Numbers) /\ <<>> \in Seq(Mail) /\ <<>> \in Seq(Pushes)
          /\ Len(<<>>) = 0
      BY EmptySeq
    <2>2. DOMAIN <<>> = 1..0
      BY <2>1, LenProperties
    <2> QED
      BY <2>1, <2>2
  <1>3. /\ 0 \in 0..MaxChanges /\ 0 \in 0..MaxCommands /\ 0 \in 0..MaxJoins /\ 0 \in 0..MaxFaults
        /\ MaxChanges \in Nat
    BY RealtimeAssumption
  <1>4. TRUE \in BOOLEAN /\ FALSE \in BOOLEAN
    OBVIOUS
  <1>5. dispatcher \in [up : BOOLEAN, mailbox : Seq(Numbers), number : 0..MaxChanges, to : SUBSET Row]
    BY <1>1, <1>2, <1>3, <1>4 DEF Idle
  <1>6. /\ dispatcher.up /\ dispatcher.mailbox = <<>> /\ dispatcher.number = 0 /\ dispatcher.to = {}
        /\ registry.rows = {} /\ registry.up /\ registry \in [up : BOOLEAN, rows : SUBSET Row]
    BY <1>1, <1>4 DEF Idle, NewTable
  <1>7. [join |-> 0, alive |-> FALSE, mailbox |-> <<>>] \in [join : 0..MaxJoins, alive : BOOLEAN, mailbox : Seq(Mail)]
    BY <1>2, <1>3, <1>4
  <1>8. Unheard \in [wire : Seq(Pushes), got : Seq(Pushes), undisturbed : BOOLEAN]
    BY <1>2, <1>4 DEF Unheard
  <1>9. used \in [commands : 0..MaxCommands, faults : 0..MaxFaults] /\ used.commands = 0
    BY <1>1, <1>3
  <1>10. TypeOK
    BY <1>1, <1>2, <1>5, <1>6, <1>7, <1>8, <1>9 DEF TypeOK
  <1>11. InLine
    <2>1. Undispatched = {} /\ Rising(notify) /\ Rising(dispatcher.mailbox)
      BY <1>1, <1>2, <1>6 DEF Undispatched, Rising
    <2> QED
      BY <1>1, <1>2, <1>3, <1>6, <2>1 DEF InLine, Carried
  <1>12. ASSUME NEW c \in Clients
         PROVE  ClientInv(c)
    <2>1. ~channel[c].alive /\ channel[c].mailbox = <<>> /\ client[c].got = <<>> /\ client[c].wire = <<>>
      BY <1>1 DEF Unheard
    <2>2. Stream(c) = <<>>
      <3>1. <<>> \in Seq({}) /\ (<<>> \o <<>>) = <<>>
        BY EmptySeq, ConcatEmptySeq
      <3> QED
        BY <2>1, <3>1 DEF Stream, Sent
    <2>3. DOMAIN Stream(c) = {} /\ RowsOf(c) = {} /\ Asked(c) = {} /\ Cardinality({}) = 0
      BY <1>2, <1>6, <2>1, <2>2, FS_EmptySet DEF RowsOf, Asked
    <2>4. RowsNumbered(c)
      BY <1>9, <2>1, <2>3 DEF RowsNumbered
    <2> QED
      BY <2>1, <2>3, <2>4 DEF ClientInv, Ordered, Stopped, Quiet, Steady
  <1>13. IsFiniteSet({})
    BY FS_EmptySet
  <1> QED
    BY <1>6, <1>10, <1>11, <1>12, <1>13 DEF IInv

\* The invariant holds in every behaviour.
THEOREM Invariance == Spec => []IInv
  <1>1. ASSUME IInv, [Next]_vars
        PROVE  IInv'
    <2>1. CASE Commit
      BY <1>1, <2>1, CommitKeeps
    <2>2. CASE Relay
      BY <1>1, <2>2, HandleNotificationKeeps, HandleChangeKeeps, SendKeeps DEF Relay
    <2>3. CASE Supervise
      <3>1. CASE Connect
        BY <1>1, <3>1, ConnectKeeps DEF Connect
      <3> QED
        BY <1>1, <2>3, <3>1, DispatcherStartsKeeps, RegistryStartsKeeps DEF Supervise
    <2>4. CASE ListenerDies \/ DispatcherDies \/ RegistryDies
      BY <1>1, <2>4, ListenerDiesKeeps, DispatcherDiesKeeps, RegistryDiesKeeps
    <2>5. ASSUME NEW c \in Clients, Channel(c) \/ proxyWS(c) \/ Ask(c) \/ ChannelKilled(c)
          PROVE  IInv'
      <3>1. CASE Channel(c)
        BY <1>1, <3>1, HandleSubscribeKeeps, HandleUnsubscribeKeeps, HandleRealtimeChangeKeeps,
           EndKeeps DEF Channel
      <3>2. CASE proxyWS(c)
        BY <1>1, <3>2, ProxyWSKeeps
      <3>3. CASE AskSubscribe(c) \/ AskUnsubscribe(c)
        <4>1. PICK m \in Mail : m.type \in {"subscribe", "unsubscribe"} /\ Command(c, m)
          BY <3>3 DEF AskSubscribe, AskUnsubscribe, Mail
        <4> QED
          BY <1>1, <4>1, CommandKeeps
      <3>4. CASE Join(c) \/ ProxyWebSocket(c) \/ ChannelKilled(c)
        BY <1>1, <3>4, JoinKeeps, EndKeeps
      <3> QED
        BY <2>5, <3>1, <3>2, <3>3, <3>4 DEF Ask
    <2>6. CASE UNCHANGED vars
      <3>1. listener' \in {"listening", "down"}
        BY <1>1, <2>6 DEF vars, IInv, TypeOK
      <3> QED
        BY <1>1, <2>6, <3>1, ConnectKeeps DEF vars
    <2> QED
      BY <1>1, <2>1, <2>2, <2>3, <2>4, <2>5, <2>6 DEF Next, Finished
  <1> QED
    BY <1>1, InitKeeps, PTL DEF Spec

\* The types hold in every behaviour.
THEOREM TypeOKAlways == Spec => []TypeOK
  <1>1. IInv => TypeOK
    BY DEF IInv
  <1> QED
    BY <1>1, Invariance, PTL

\* What the client has received is the beginning of its stream, and what was sent to it too.
LEMMA StreamBegins ==
    ASSUME TypeOK, NEW c \in Clients
    PROVE  /\ \A i \in DOMAIN Sent(c) : i \in DOMAIN Stream(c) /\ Stream(c)[i] = Sent(c)[i]
           /\ \A i \in DOMAIN Stream(c) : i < Len(Sent(c)) + 1 => i \in DOMAIN Sent(c)
           /\ \A i \in DOMAIN client[c].got : i \in DOMAIN Stream(c) /\ Stream(c)[i] = client[c].got[i]
           /\ DOMAIN client[c].got = 1..Len(client[c].got) /\ Len(client[c].got) \in Nat
  <1> DEFINE got == client[c].got
             wire == client[c].wire
             sent == got \o wire
             box == channel[c].mailbox
             all == sent \o box
  <1>1. /\ got \in Seq(Pushes) /\ wire \in Seq(Pushes)
        /\ sent \in Seq(Message) /\ box \in Seq(Message)
    BY StreamType DEF Sent
  <1> HIDE DEF got, wire, box
  <1>2. /\ Len(got) \in Nat /\ Len(wire) \in Nat /\ DOMAIN got = 1..Len(got)
        /\ DOMAIN sent = 1..(Len(got) + Len(wire)) /\ Len(sent) = Len(got) + Len(wire)
        /\ \A i \in 1..(Len(got) + Len(wire)) :
             sent[i] = IF i <= Len(got) THEN got[i] ELSE wire[i - Len(got)]
    BY <1>1, Joined
  <1> HIDE DEF sent
  <1>3. /\ Len(sent) \in Nat /\ Len(box) \in Nat /\ DOMAIN sent = 1..Len(sent)
        /\ DOMAIN all = 1..(Len(sent) + Len(box))
        /\ \A i \in 1..(Len(sent) + Len(box)) :
             all[i] = IF i <= Len(sent) THEN sent[i] ELSE box[i - Len(sent)]
    BY <1>1, Joined
  <1> HIDE DEF all
  <1>4. \A i \in DOMAIN sent : i \in DOMAIN all /\ all[i] = sent[i]
    BY <1>3
  <1>5. \A i \in DOMAIN all : i < Len(sent) + 1 => i \in DOMAIN sent
    BY <1>3
  <1>6. \A i \in DOMAIN got : i \in DOMAIN sent /\ sent[i] = got[i]
    BY <1>2
  <1> QED
    BY <1>2, <1>4, <1>5, <1>6 DEF Stream, Sent, got, wire, sent, box, all

\* Changes reach a client in the order in which they were committed.
THEOREM ChangesAlwaysInCommitOrder == Spec => []InCommitOrder
  <1>1. ASSUME IInv, NEW c \in Clients, NEW i \in DOMAIN client[c].got, NEW j \in DOMAIN client[c].got,
               i < j, client[c].got[i].type = "change", client[c].got[j].type = "change"
        PROVE  client[c].got[i].number <= client[c].got[j].number
    <2>1. /\ i \in DOMAIN Stream(c) /\ Stream(c)[i] = client[c].got[i]
          /\ j \in DOMAIN Stream(c) /\ Stream(c)[j] = client[c].got[j]
      BY <1>1, StreamBegins DEF IInv
    <2>2. Ordered(Stream(c), dispatcher.number, Undispatched, Len(log))
      BY <1>1 DEF IInv, ClientInv
    <2> QED
      BY <1>1, <2>1, <2>2 DEF Ordered
  <1>2. IInv => InCommitOrder
    BY <1>1 DEF InCommitOrder
  <1> QED
    BY <1>2, Invariance, PTL

\* A change committed after an unsubscription was carried out never comes before the
\* client has subscribed again.
THEOREM AlwaysNothingAfterUnsubscribed == Spec => []NothingAfterUnsubscribed
  <1>1. ASSUME IInv, NEW c \in Clients, NEW i \in DOMAIN client[c].got, NEW j \in DOMAIN client[c].got,
               i < j, client[c].got[i].type = "unsubscribed", client[c].got[j].type = "change",
               \A k \in i..j : client[c].got[k].type # "subscribed"
        PROVE  client[c].got[j].number <= client[c].got[i].at
    <2>1. /\ i \in DOMAIN Stream(c) /\ Stream(c)[i] = client[c].got[i]
          /\ j \in DOMAIN Stream(c) /\ Stream(c)[j] = client[c].got[j]
      BY <1>1, StreamBegins DEF IInv
    <2>2. \A k \in i..j : k \in DOMAIN client[c].got /\ Stream(c)[k] = client[c].got[k]
      BY <1>1, StreamBegins DEF IInv
    <2>3. Stopped(Stream(c), RowsOf(c), Pending(c), dispatcher.number)
      BY <1>1 DEF IInv, ClientInv
    <2> QED
      BY <1>1, <2>1, <2>2, <2>3 DEF Stopped
  <1>2. IInv => NothingAfterUnsubscribed
    BY <1>1 DEF NothingAfterUnsubscribed
  <1> QED
    BY <1>2, Invariance, PTL

\* A subscriber nothing happened to has the notification of a dispatched change, its own or
\* the one it shares, or has it coming, once for each of its matching subscriptions that was
\* confirmed before the commit.
THEOREM AlwaysEachChangeOncePerSubscription == Spec => []EachChangeOncePerSubscription
  <1>1. ASSUME IInv, NEW c \in Clients, NEW number \in DOMAIN log,
               client[c].undisturbed, channel[c].alive, carrier[number] \notin Undispatched,
               \A i \in DOMAIN Sent(c) : Sent(c)[i].type # "unsubscribed"
        PROVE  Copies(c, carrier[number]) \in
                 Cardinality(Due(c, number))..Cardinality(Matching(c, number))
    <2> DEFINE s == Stream(c)
               sent == Sent(c)
               n == carrier[number]
               change == log[n]
    <2>1. TypeOK /\ ClientInv(c) /\ n \in Heads /\ change = log[number]
      BY <1>1, Basics DEF IInv, Carried
    <2>2. /\ \A i \in DOMAIN sent : i \in DOMAIN s /\ s[i] = sent[i]
          /\ \A i \in DOMAIN s : s[i].type \in {"subscribed", "unsubscribed"} => i \in DOMAIN sent
      BY <2>1, StreamBegins, PushedFirst
    <2>3. Steady(c)
      BY <1>1, <2>2 DEF Steady
    <2>4. Counted(s, Pending(c), dispatcher.number, n, change)
      BY <1>1, <2>1, <2>3 DEF ClientInv
    <2>5. Matching(c, number) = Wanting(s, change)
      BY <1>1, <2>1, <2>2 DEF Matching, InForce, Wanting, Confirmed
    <2>6. Due(c, number) = Waiting(s, change, n)
      BY <2>2, <2>5 DEF Due, Waiting, Wanting, Confirmed
    <2>7. Number(n, s) = Number(n, sent) + Number(n, channel[c].mailbox)
      BY <2>1, StreamType, NumberJoined DEF Stream
    <2>8. Copies(c, n) = Number(n, s)
                           + (IF dispatcher.number # n THEN 0 ELSE Cardinality(Pending(c)))
      BY <2>7 DEF Copies, Pending
    <2> QED
      BY <2>4, <2>5, <2>6, <2>8 DEF Counted
  <1>2. IInv => EachChangeOncePerSubscription
    BY <1>1 DEF EachChangeOncePerSubscription
  <1> QED
    BY <1>2, Invariance, PTL

=============================================================================
