------------------------------ MODULE Realtime ------------------------------
(***************************************************************************)
(* Realtime: a committed change goes from PostgreSQL's NOTIFY through the   *)
(* listener, the dispatcher and the channel of each subscriber to its       *)
(* websocket, which the gateway relays.  Each is a process with a mailbox;  *)
(* the supervisor restarts the listener, the registry and the dispatcher    *)
(* one by one, and whatever was in the mailbox of a dead process is lost.   *)
(* PostgreSQL sends equal payloads of one transaction once, so changes of a *)
(* transaction that look the same in their payload share a notification.    *)
(* The clients speak the protocol of Phoenix; one table.                    *)
(***************************************************************************)
EXTENDS Integers, Sequences, FiniteSets

CONSTANTS
    Clients,
    Nobody,           \* no user_id, no filter, no row in the notification
    Subscriptions,    \* bound: [events, filter, user] of the "subscribe" messages
    Changes,          \* [event, row, owner] of a payload; a truncated one has no row
    Transactions,     \* bound: sequences of changes that commit together
    MaxChanges, MaxCommands, MaxJoins, MaxWire, MaxRows,
    MaxFaults         \* bound: deaths of processes and ends of connections

ASSUME RealtimeAssumption ==
    /\ {MaxChanges, MaxCommands, MaxJoins, MaxWire, MaxRows, MaxFaults} \subseteq Nat
    /\ Transactions \subseteq Seq(Changes)

VARIABLES
    log,          \* changes, in the order of their commits
    carrier,      \* carrier[n]: the change whose notification tells of change n
    notify,       \* numbers of the changes PostgreSQL has sent to the listener
    listener,     \* "listening" or "down"
    dispatcher,   \* up, mailbox, and the rows still to be served for one change
    registry,     \* up, and the rows of the table of subscriptions
    channel,      \* channel[c]: the channel process of client c
    client,       \* client[c]: what c was sent and has received since it joined
    used          \* bounds: commands, and deaths and ends so far

vars == <<log, carrier, notify, listener, dispatcher, registry, channel, client, used>>

-----------------------------------------------------------------------------
(* Which subscription a change matches.                                     *)

event_matches(change, sub) == sub.events \in {"*", change.event}

\* A filter compares a column of the row; a notification without a row has none.
filters_match(change, sub) == sub.filter \in {Nobody, change.owner}

\* The owner column is the one of the first "eq" filter.
has_permission(change, sub) ==
    sub.user = Nobody \/ sub.filter = Nobody \/ sub.user = change.owner

match(change, sub) ==
    /\ event_matches(change, sub)
    /\ filters_match(change, sub)
    /\ has_permission(change, sub)

-----------------------------------------------------------------------------

Numbers == 1..MaxChanges
Row == [client : Clients, join : 1..MaxJoins, ref : 1..MaxCommands, sub : Subscriptions]

\* "at" is the number of changes committed when the channel did what it tells.
Pushes == [type : {"subscribed"}, at : 0..MaxChanges, sub : Subscriptions]
          \cup [type : {"unsubscribed"}, at : 0..MaxChanges]
          \cup [type : {"change"}, number : Numbers]

Mail == [type : {"subscribe"}, sub : Subscriptions] \cup [type : {"unsubscribe"}]
        \cup [type : {"change"}, number : Numbers]

TypeOK ==
    /\ log \in Seq(Changes)
    /\ carrier \in Seq(Numbers)
    /\ notify \in Seq(Numbers)
    /\ listener \in {"listening", "down"}
    /\ dispatcher \in [up : BOOLEAN, mailbox : Seq(Numbers), number : 0..MaxChanges,
                       to : SUBSET Row]
    /\ registry \in [up : BOOLEAN, rows : SUBSET Row]
    /\ channel \in [Clients -> [join : 0..MaxJoins, alive : BOOLEAN, mailbox : Seq(Mail)]]
    /\ client \in [Clients -> [wire : Seq(Pushes), got : Seq(Pushes), undisturbed : BOOLEAN]]
    /\ used \in [commands : 0..MaxCommands, faults : 0..MaxFaults]
    \* The table is kept by its process, and no row is ever without its channel's join.
    /\ ~registry.up => registry.rows = {}
    /\ \A row \in registry.rows : row.join <= channel[row.client].join

Idle == [up |-> TRUE, mailbox |-> <<>>, number |-> 0, to |-> {}]
Gone == [Idle EXCEPT !.up = FALSE]
NewTable == [up |-> TRUE, rows |-> {}]
Unheard == [wire |-> <<>>, got |-> <<>>, undisturbed |-> TRUE]

Init ==
    /\ log = <<>>
    /\ carrier = <<>>
    /\ notify = <<>>
    /\ listener = "down"
    /\ dispatcher = Idle
    /\ registry = NewTable
    /\ channel = [c \in Clients |-> [join |-> 0, alive |-> FALSE, mailbox |-> <<>>]]
    /\ client = [c \in Clients |-> Unheard]
    /\ used = [commands |-> 0, faults |-> 0]

\* A change was lost: nobody who is connected now can count on all of them.
Disturbed == [c \in Clients |-> [client[c] EXCEPT !.undisturbed = FALSE]]

Fault ==
    /\ used.faults < MaxFaults
    /\ used' = [used EXCEPT !.faults = @ + 1]

-----------------------------------------------------------------------------
(* PostgreSQL and the listener.                                             *)

\* The timestamp of a payload is that of its transaction: equal changes, equal payloads.
FirstEqual(transaction, i) ==
    CHOOSE j \in 1..i : /\ transaction[j] = transaction[i]
                        /\ \A k \in 1..(j - 1) : transaction[k] # transaction[i]

\* The finite set of numbers, in increasing order.
InOrder(numbers) ==
    {queue \in [1..Cardinality(numbers) -> numbers] :
       /\ \A n \in numbers : \E i \in DOMAIN queue : queue[i] = n
       /\ \A i, j \in DOMAIN queue : i < j => queue[i] < queue[j]}

\* The trigger of each row notifies whoever listens when the transaction commits, and
\* of equal payloads PostgreSQL keeps the first.
Commit ==
    /\ \E transaction \in Transactions :
         /\ Len(log) + Len(transaction) <= MaxChanges
         /\ log' = log \o transaction
         /\ carrier' = carrier \o
              [i \in 1..Len(transaction) |-> Len(log) + FirstEqual(transaction, i)]
    /\ IF listener = "listening"
       THEN /\ \E queue \in InOrder({n \in (DOMAIN log') \ (DOMAIN log) : carrier'[n] = n}) :
                 notify' = notify \o queue
            /\ UNCHANGED client
       ELSE /\ client' = Disturbed
            /\ UNCHANGED notify
    /\ UNCHANGED <<listener, dispatcher, registry, channel, used>>

\* A broadcast reaches the processes that are subscribed at that moment.
HandleNotification ==
    /\ listener = "listening"
    /\ notify # <<>>
    /\ notify' = Tail(notify)
    /\ IF dispatcher.up
       THEN /\ dispatcher' = [dispatcher EXCEPT !.mailbox = Append(@, Head(notify))]
            /\ UNCHANGED client
       ELSE /\ client' = Disturbed
            /\ UNCHANGED dispatcher
    /\ UNCHANGED <<log, carrier, listener, registry, channel, used>>

\* The connection is linked, not monitored: the listener dies with it.
ListenerDies ==
    /\ listener = "listening"
    /\ Fault
    /\ listener' = "down"
    /\ notify' = <<>>
    /\ client' = Disturbed
    /\ UNCHANGED <<log, carrier, dispatcher, registry, channel>>

Connect ==
    /\ listener = "down"
    /\ listener' = "listening"
    /\ UNCHANGED <<log, carrier, notify, dispatcher, registry, channel, client, used>>

-----------------------------------------------------------------------------
(* The dispatcher: it reads the table once for a change, then sends to one  *)
(* channel after the other.                                                 *)

DispatcherFails ==
    /\ dispatcher' = Gone
    /\ client' = Disturbed

\* A dispatcher that serves its newest notification first.
HandleChange_Newest ==
    /\ dispatcher.up
    /\ dispatcher.to = {}
    /\ dispatcher.mailbox # <<>>
    /\ LET last == Len(dispatcher.mailbox)
           number == dispatcher.mailbox[last]
       IN  IF registry.up
           THEN /\ dispatcher' = [dispatcher EXCEPT
                     !.mailbox = SubSeq(@, 1, last - 1), !.number = number,
                     !.to = {row \in registry.rows : match(log[number], row.sub)}]
                /\ UNCHANGED client
           ELSE DispatcherFails
    /\ UNCHANGED <<log, carrier, notify, listener, registry, channel, used>>

HandleChange ==
    /\ dispatcher.up
    /\ dispatcher.to = {}
    /\ dispatcher.mailbox # <<>>
    /\ LET number == Head(dispatcher.mailbox)
       IN  IF registry.up
           THEN /\ dispatcher' = [dispatcher EXCEPT
                     !.mailbox = Tail(@), !.number = number,
                     !.to = {row \in registry.rows : match(log[number], row.sub)}]
                /\ UNCHANGED client
           ELSE DispatcherFails   \* there is no table to read
    /\ UNCHANGED <<log, carrier, notify, listener, registry, channel, used>>

Deliver(c, mail) == channel' = [channel EXCEPT ![c].mailbox = Append(@, mail)]

\* A message to a process that is gone is dropped.
Send ==
    /\ dispatcher.up
    /\ \E row \in dispatcher.to :
         /\ dispatcher' = [dispatcher EXCEPT !.to = @ \ {row},
                                             !.number = IF dispatcher.to = {row} THEN 0 ELSE @]
         /\ IF channel[row.client].alive /\ channel[row.client].join = row.join
            THEN Deliver(row.client, [type |-> "change", number |-> dispatcher.number])
            ELSE UNCHANGED channel
    /\ UNCHANGED <<log, carrier, notify, listener, registry, client, used>>

DispatcherDies ==
    /\ dispatcher.up
    /\ Fault
    /\ DispatcherFails
    /\ UNCHANGED <<log, carrier, notify, listener, registry, channel>>

DispatcherStarts ==
    /\ ~dispatcher.up
    /\ dispatcher' = Idle
    /\ UNCHANGED <<log, carrier, notify, listener, registry, channel, client, used>>

-----------------------------------------------------------------------------
(* The registry.                                                            *)

\* A table that outlives its process.
RegistryDies_Kept ==
    /\ registry.up
    /\ Fault
    /\ registry' = [registry EXCEPT !.up = FALSE]
    /\ client' = Disturbed
    /\ UNCHANGED <<log, carrier, notify, listener, dispatcher, channel>>

\* The table belongs to the process: it goes with it and is made anew.
RegistryDies ==
    /\ registry.up
    /\ Fault
    /\ registry' = [up |-> FALSE, rows |-> {}]
    /\ client' = Disturbed
    /\ UNCHANGED <<log, carrier, notify, listener, dispatcher, channel>>

RegistryStarts ==
    /\ ~registry.up
    /\ registry' = NewTable
    /\ UNCHANGED <<log, carrier, notify, listener, dispatcher, channel, client, used>>

RowsOf(c) == {row \in registry.rows : row.client = c /\ row.join = channel[c].join}

\* A table of type "set": one row a channel.
subscribe_Set(c, sub) ==
    registry' = [registry EXCEPT !.rows = (@ \ RowsOf(c)) \cup
        {[client |-> c, join |-> channel[c].join, ref |-> 1, sub |-> sub]}]

subscribe(c, sub) ==
    registry' = [registry EXCEPT !.rows = @ \cup
        {[client |-> c, join |-> channel[c].join, ref |-> ref, sub |-> sub] :
           ref \in {1 + Cardinality(RowsOf(c))}}]

\* Only the first row is deleted.
unsubscribe_First(c) ==
    registry' = [registry EXCEPT !.rows = @ \ {row \in RowsOf(c) : row.ref = 1}]

unsubscribe(c) == registry' = [registry EXCEPT !.rows = @ \ RowsOf(c)]

-----------------------------------------------------------------------------
(* A channel and its client, with the gateway's relay between them.         *)

Join(c) ==
    /\ ~channel[c].alive
    /\ channel[c].join < MaxJoins
    /\ channel' = [channel EXCEPT ![c] = [join |-> @.join + 1, alive |-> TRUE, mailbox |-> <<>>]]
    /\ client' = [client EXCEPT ![c] = Unheard]
    /\ UNCHANGED <<log, carrier, notify, listener, dispatcher, registry, used>>

Command(c, mail) ==
    /\ channel[c].alive
    /\ used.commands < MaxCommands
    /\ used' = [used EXCEPT !.commands = @ + 1]
    /\ Deliver(c, mail)
    /\ UNCHANGED <<log, carrier, notify, listener, dispatcher, registry, client>>

Asked(c) == {i \in DOMAIN channel[c].mailbox : channel[c].mailbox[i].type = "subscribe"}

\* Bound: MaxRows subscriptions of a client, confirmed or waiting to be read.
AskSubscribe(c) ==
    /\ Cardinality(RowsOf(c)) + Cardinality(Asked(c)) < MaxRows
    /\ \E sub \in Subscriptions : Command(c, [type |-> "subscribe", sub |-> sub])

AskUnsubscribe(c) == Command(c, [type |-> "unsubscribe"])

Reads(c, type) ==
    /\ channel[c].alive
    /\ channel[c].mailbox # <<>>
    /\ Head(channel[c].mailbox).type = type

Handled(c) == channel' = [channel EXCEPT ![c].mailbox = Tail(@)]

push(c, message) ==
    /\ Len(client[c].wire) < MaxWire
    /\ client' = [client EXCEPT ![c].wire = Append(@, message)]

\* What a client has heard is counted from its last join.
Closed(c) ==
    /\ channel' = [channel EXCEPT ![c].alive = FALSE, ![c].mailbox = <<>>]
    /\ client' = [client EXCEPT ![c] = Unheard]

HandleSubscribe(c) ==
    /\ Reads(c, "subscribe")
    /\ registry.up
    /\ LET sub == Head(channel[c].mailbox).sub
       IN  /\ subscribe(c, sub)
           /\ push(c, [type |-> "subscribed", at |-> Len(log), sub |-> sub])
    /\ Handled(c)
    /\ UNCHANGED <<log, carrier, notify, listener, dispatcher, used>>

HandleUnsubscribe(c) ==
    /\ Reads(c, "unsubscribe")
    /\ registry.up
    /\ unsubscribe(c)
    /\ push(c, [type |-> "unsubscribed", at |-> Len(log)])
    /\ Handled(c)
    /\ UNCHANGED <<log, carrier, notify, listener, dispatcher, used>>

\* Without a table the channel crashes, and its terminate callback too.
Crash(c) ==
    /\ Reads(c, "subscribe") \/ Reads(c, "unsubscribe")
    /\ ~registry.up
    /\ Closed(c)
    /\ UNCHANGED <<log, carrier, notify, listener, dispatcher, registry, used>>

HandleRealtimeChange(c) ==
    /\ Reads(c, "change")
    /\ push(c, Head(channel[c].mailbox))
    /\ Handled(c)
    /\ UNCHANGED <<log, carrier, notify, listener, dispatcher, registry, used>>

\* A relay that flushes a message when the next one comes.
proxyWS_Unflushed(c) ==
    /\ Len(client[c].wire) > 1
    /\ client' = [client EXCEPT ![c].wire = Tail(@), ![c].got = Append(@, Head(client[c].wire))]
    /\ UNCHANGED <<log, carrier, notify, listener, dispatcher, registry, channel, used>>

proxyWS(c) ==
    /\ client[c].wire # <<>>
    /\ client' = [client EXCEPT ![c].wire = Tail(@), ![c].got = Append(@, Head(client[c].wire))]
    /\ UNCHANGED <<log, carrier, notify, listener, dispatcher, registry, channel, used>>

\* The first direction of the relay to end closes both; the client may also leave.
ProxyWebSocket(c) ==
    /\ channel[c].alive
    /\ Fault
    /\ IF registry.up THEN unsubscribe(c) ELSE UNCHANGED registry
    /\ Closed(c)
    /\ UNCHANGED <<log, carrier, notify, listener, dispatcher>>

\* A killed channel does not run terminate, and the monitor that was to clean up
\* after it is its own: subscribe/5 runs in the channel.
ChannelKilled(c) ==
    /\ channel[c].alive
    /\ Fault
    /\ Closed(c)
    /\ UNCHANGED <<log, carrier, notify, listener, dispatcher, registry>>

Finished == Len(log) = MaxChanges /\ UNCHANGED vars

Supervise == Connect \/ DispatcherStarts \/ RegistryStarts
Relay == HandleNotification \/ HandleChange \/ Send
Channel(c) == HandleSubscribe(c) \/ HandleUnsubscribe(c) \/ HandleRealtimeChange(c) \/ Crash(c)
Ask(c) == Join(c) \/ AskSubscribe(c) \/ AskUnsubscribe(c) \/ ProxyWebSocket(c)

Next ==
    \/ Commit
    \/ Relay
    \/ Supervise
    \/ ListenerDies \/ DispatcherDies \/ RegistryDies
    \/ \E c \in Clients : Channel(c) \/ proxyWS(c) \/ Ask(c) \/ ChannelKilled(c)
    \/ Finished

\* Every process reads its mailbox, the supervisor restarts what died, the relay copies.
Fairness ==
    /\ WF_vars(HandleNotification) /\ WF_vars(HandleChange) /\ WF_vars(Send)
    /\ WF_vars(Connect) /\ WF_vars(DispatcherStarts) /\ WF_vars(RegistryStarts)
    /\ \A c \in Clients : WF_vars(Channel(c)) /\ WF_vars(proxyWS(c))

Spec == Init /\ [][Next]_vars /\ Fairness

-----------------------------------------------------------------------------

Sent(c) == client[c].got \o client[c].wire

\* The subscriptions of c that the channel has confirmed and not ended since.
InForce(c) ==
    {i \in DOMAIN Sent(c) :
       /\ Sent(c)[i].type = "subscribed"
       /\ \A j \in DOMAIN Sent(c) : Sent(c)[j].type = "unsubscribed" => j < i}

Number(number, messages) ==
    Cardinality({i \in DOMAIN messages : messages[i].type = "change" /\ messages[i].number = number})

\* How many times a dispatched change has gone to c or still is on its way.
Copies(c, number) ==
    Number(number, Sent(c)) + Number(number, channel[c].mailbox)
      + (IF dispatcher.number # number THEN 0
         ELSE Cardinality({row \in dispatcher.to : row.client = c /\ row.join = channel[c].join}))

Undispatched == {notify[i] : i \in DOMAIN notify}
                \cup {dispatcher.mailbox[i] : i \in DOMAIN dispatcher.mailbox}

Matching(c, number) == {i \in InForce(c) : match(log[number], Sent(c)[i].sub)}

\* The matching subscriptions confirmed before the transaction of the change committed.
Due(c, number) == {i \in Matching(c, number) : Sent(c)[i].at < carrier[number]}

\* A subscriber nothing happened to is told of a change, by its own notification or by the
\* one it shares, once for each of its matching subscriptions that was confirmed before
\* the commit, and never more often than it has matching subscriptions (triggers.rs,
\* dispatcher.ex, subscription_registry.ex).
EachChangeOncePerSubscription ==
    \A c \in Clients : \A number \in DOMAIN log :
        /\ client[c].undisturbed /\ channel[c].alive
        /\ carrier[number] \notin Undispatched
        /\ \A i \in DOMAIN Sent(c) : Sent(c)[i].type # "unsubscribed"
        => Copies(c, carrier[number]) \in
             Cardinality(Due(c, number))..Cardinality(Matching(c, number))

\* Changes arrive in the order in which they were committed, also across a restart of
\* the listener or the dispatcher.
InCommitOrder ==
    \A c \in Clients : \A i, j \in DOMAIN client[c].got :
        /\ i < j
        /\ client[c].got[i].type = "change"
        /\ client[c].got[j].type = "change"
        => client[c].got[i].number <= client[c].got[j].number

\* A change that committed after an unsubscription was carried out never comes, until
\* the client subscribes again; one that was being dispatched may still come.
NothingAfterUnsubscribed ==
    \A c \in Clients : \A i, j \in DOMAIN client[c].got :
        LET got == client[c].got
        IN  /\ i < j
            /\ got[i].type = "unsubscribed" /\ got[j].type = "change"
            /\ \A k \in i..j : got[k].type # "subscribed"
            => got[j].number <= got[i].at

\* A subscriber that waits for a change receives the notification that tells of it, unless
\* a fault, the end of the connection or its own unsubscription comes first.
Awaited(c, number) ==
    /\ number \in DOMAIN log
    /\ client[c].undisturbed /\ channel[c].alive
    /\ Due(c, number) # {}

Received ==
    \A c \in Clients : \A number \in Numbers :
        Awaited(c, number) ~>
            (~Awaited(c, number) \/ Number(carrier[number], client[c].got) > 0)
=============================================================================
