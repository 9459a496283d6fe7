\* One client with two subscriptions, two changes, one death or reconnection.
CONSTANTS
    c1 = c1  u1 = u1
    Clients = {c1}
    Nobody = Nobody
    Subscriptions <- MCSubscriptions
    Changes <- MCChanges
    Transactions <- MCTransactions
    MaxChanges = 2
    MaxCommands = 3
    MaxRows = 2
    MaxJoins = 2
    MaxFaults = 1
    MaxWire = 1
SPECIFICATION Spec
INVARIANTS TypeOK EachChangeOncePerSubscription InCommitOrder NothingAfterUnsubscribed
PROPERTY Received
