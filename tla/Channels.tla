------------------------------ MODULE Channels ------------------------------
(***************************************************************************)
(* The tokio channels that join the tasks of the server process            *)
(* (bin/sternhalma-server.rs, server/messages.rs).  A connection is a      *)
(* member of Conns, used once; its name doubles as the session id that a   *)
(* Welcome to its Hello would carry.                                       *)
(***************************************************************************)
EXTENDS Players, Sequences

CONSTANTS Conns,              \* network connections, each accepted once
          NoConn,             \* no connection, no session
          Capacity,           \* LOCAL_CHANNEL_CAPACITY of the mpsc channels
          BroadcastCapacity   \* and of the broadcast channel

ASSUME ChannelsAssumption ==
    /\ NoConn \notin Conns
    /\ Capacity \in Nat \ {0}
    /\ BroadcastCapacity \in Nat \ {0}

VARIABLES
    main_rx,        \* handshakes -> Server: queue of MainThreadMessage
    clients_rx,     \* Clients -> Server: queue of ClientMessage
    clients_tx,     \* player -> connection whose server_rx the Server holds
    server_rx,      \* connection -> queue of Turn messages, by turn number
    broadcast,      \* every ServerBroadcast ever sent; the channel itself
                    \* keeps the last BroadcastCapacity of them
    cursor,         \* connection -> how far its broadcast_rx has read
    reply,          \* connection -> oneshot answer to its handshake
    running         \* connections whose Client task is alive

channelVars == <<main_rx, clients_rx, clients_tx, server_rx, broadcast,
                 cursor, reply, running>>

\* conn is the connection whose oneshot or server_tx the message holds.
MainThreadMessages ==
    [type : {"RequestFreePlayer"}, conn : Conns,
     player : {NoPlayer}, session : {NoConn}]
    \cup [type : {"ClientReconnectedHandle"}, conn : Conns,
          player : {NoPlayer}, session : Conns]
    \cup [type : {"ClientConnected", "ClientReconnected"}, conn : Conns,
          player : Players, session : Conns]

\* The index of a Choice matters only through the list it picks from: the
\* one of the Turn the remote player answers, named by its number.
ClientMessages ==
    [type : {"Disconnect", "Choice"}, player : Players, turn : Nat]

ServerBroadcasts ==
    [type : {"Disconnect", "Movement", "GameFinished"},
     player : Players \cup {NoPlayer}, turn : Nat]

\* A oneshot channel carries one value: a player or None.
Answers == {<<>>} \cup {<<p>> : p \in Players \cup {NoPlayer}}

ChannelsInit ==
    /\ main_rx = <<>>
    /\ clients_rx = <<>>
    /\ clients_tx = [p \in Players |-> NoConn]
    /\ server_rx = [c \in Conns |-> <<>>]
    /\ broadcast = <<>>
    /\ cursor = [c \in Conns |-> 0]
    /\ reply = [c \in Conns |-> <<>>]
    /\ running = {}

ChannelsTypeOK ==
    /\ main_rx \in Seq(MainThreadMessages)
    /\ clients_rx \in Seq(ClientMessages)
    /\ clients_tx \in [Players -> Conns \cup {NoConn}]
    /\ server_rx \in [Conns -> Seq(Nat)]
    /\ broadcast \in Seq(ServerBroadcasts)
    /\ cursor \in [Conns -> Nat]
    /\ reply \in [Conns -> Answers]
    /\ running \in SUBSET Conns

\* An mpsc send waits while the queue is full.
HasRoom(queue) == Len(queue) < Capacity

=============================================================================
