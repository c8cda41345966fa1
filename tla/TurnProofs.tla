----------------------------- MODULE TurnProofs -----------------------------
(***************************************************************************)
(* Where the Turns go: TurnRouting, TurnOnItsWay and Perspective for any   *)
(* number of connections.  What a queue or an inbox holds is judged by the *)
(* player of its connection, so the invariant says first that a connection *)
(* without a player has been sent nothing that depends on one.             *)
(***************************************************************************)
EXTENDS SessionTable

\* The player to move is the one whose turn it is by the count of turns.
ToMove == Playing => status.player = Mover(status.turns)

\* A connection whose handshake waits has been sent nothing.
Quiet ==
    \A c \in Conns : hs[c] \in {"new", "asked"} =>
        server_rx[c] = <<>> /\ inbox[c] = <<>>

\* The broadcast moves name their movers.
Told ==
    \A n \in 1..Len(broadcast) : broadcast[n].type = "Movement" =>
        broadcast[n].player = Mover(broadcast[n].turn)

\* The inductive invariant, beside TypeOK, Named, Identity and Ongoing.
Routed ==
    /\ ToMove /\ Quiet /\ Told
    /\ TurnRouting /\ Perspective /\ TurnOnItsWay

----------------------------------------------------------------------------
\* How the queues of a connection change.

\* A task that is not the Server's, or a remote client.
LEMMA OthersLeaveServer ==
    ASSUME [Next]_vars, ~ServerStep
    PROVE  UNCHANGED <<serverVars, broadcast, clients_tx>>
BY DEF Next, vars, channelVars, serverVars, ClientStep, ClientTask, RecvTurn,
    ServerRxClosed, RecvBroadcast, SkipBroadcasts, RecvChoice, RecvStray,
    RemoteGone, HandshakeStep, HandshakeTask, Reject, Welcome, WelcomeFails,
    Notify, Open, Request, Hello, AskReconnect, Ask, BadFirst, Choose,
    RemoteChoose, Stray, RemoteStray, Close, RemoteClose

LEMMA Delivers ==
    ASSUME TypeOK, NEW d \in Conns, NEW m, Deliver(d, m), NEW c \in Conns
    PROVE  inbox'[c] = IF c = d /\ c \notin closed
                       THEN Append(inbox[c], m) ELSE inbox[c]
BY DEF Deliver, TypeOK, RemoteTypeOK

TurnMessage(n) == [type |-> "Turn", player |-> Player1, turn |-> n]

\* The broadcast c reads next, as it passes it on.
NextBroadcast(c) ==
    [broadcast[cursor[c] + 1] EXCEPT
        !.player = RelativePlayer(c, broadcast[cursor[c] + 1].player)]

\* Where a message delivered to c comes from.
Source(c, m) ==
    \/ /\ hs[c] = "asked" /\ hs'[c] \in {"spawned", "done"}
       /\ m.type \in {"Welcome", "Reject"}
    \/ /\ c \in running /\ server_rx[c] # <<>>
       /\ m = TurnMessage(Head(server_rx[c]))
       /\ server_rx'[c] = Tail(server_rx[c])
    \/ /\ c \in running /\ Lag(c) \in 1..BroadcastCapacity
       /\ m = NextBroadcast(c)
       /\ cursor'[c] = cursor[c] + 1

\* An inbox only grows, by one message of a known source.
LEMMA InboxGrows ==
    ASSUME TypeOK, [Next]_vars, NEW c \in Conns
    PROVE  \/ inbox'[c] = inbox[c]
           \/ /\ c \notin closed
              /\ \E m : inbox'[c] = Append(inbox[c], m) /\ Source(c, m)
<1>1. CASE ServerStep
    BY <1>1 DEF ServerStep, remoteVars
<1>2. ASSUME NEW d \in Conns, ClientStep(d)
      PROVE  \/ inbox'[c] = inbox[c]
             \/ /\ c \notin closed
                /\ \E m : inbox'[c] = Append(inbox[c], m) /\ Source(c, m)
    <2>1. CASE RecvTurn(d)
        <3>1. CASE Deliver(d, TurnMessage(Head(server_rx[d])))
                   /\ server_rx' = [server_rx EXCEPT ![d] = Tail(@)]
            BY <2>1, <3>1, Delivers
            DEF RecvTurn, Source, TypeOK, ChannelsTypeOK
        <3>2. QED
            BY <2>1, <3>1 DEF RecvTurn, TurnMessage
    <2>2. CASE RecvBroadcast(d)
        <3>1. CASE Deliver(d, NextBroadcast(d))
                   /\ cursor' = [cursor EXCEPT ![d] = @ + 1]
            BY <2>2, <3>1, Delivers
            DEF RecvBroadcast, Source, TypeOK, ChannelsTypeOK
        <3>2. QED
            BY <2>2, <3>1 DEF RecvBroadcast, NextBroadcast
    <2>3. QED
        BY <1>2, <2>1, <2>2 DEF ClientStep, ClientTask, ServerRxClosed,
            SkipBroadcasts, RecvChoice, RecvStray, RemoteGone, remoteVars
<1>3. ASSUME NEW d \in Conns, HandshakeStep(d)
      PROVE  \/ inbox'[c] = inbox[c]
             \/ /\ c \notin closed
                /\ \E m : inbox'[c] = Append(inbox[c], m) /\ Source(c, m)
    <2>1. CASE Reject(d) \/ Welcome(d)
        <3>1. PICK type \in {"Welcome", "Reject"} :
                /\ Deliver(d, [type |-> type, player |-> NoPlayer, turn |-> 0])
                /\ hs[d] = "asked" /\ hs'[d] \in {"spawned", "done"}
            BY <2>1 DEF Reject, Welcome, TypeOK, HandshakeTypeOK
        <3> DEFINE m == [type |-> type, player |-> NoPlayer, turn |-> 0]
        <3>2. m.type \in {"Welcome", "Reject"}
            OBVIOUS
        <3>3. d = c => Source(c, m)
            BY <3>1, <3>2 DEF Source
        <3> HIDE DEF m
        <3>4. QED
            BY <3>1, <3>3, Delivers DEF m
    <2>2. QED
        BY <1>3, <2>1 DEF HandshakeStep, HandshakeTask, WelcomeFails, Notify,
            remoteVars
<1>4. CASE \/ \E d \in Conns : Open(d) \/ Choose(d) \/ Stray(d) \/ Close(d)
           \/ UNCHANGED vars
    BY <1>4 DEF vars, remoteVars, Open, Request, Hello, AskReconnect, Ask,
        BadFirst, Choose, RemoteChoose, Stray, RemoteStray, Close, RemoteClose
<1>5. QED
    BY <1>1, <1>2, <1>3, <1>4 DEF Next

\* The Server sends a Turn to the connection of the player to move.
Offered(c) ==
    /\ c \in running
    /\ server_rx'[c] = Append(server_rx[c], status.turns)
    /\ srv' = "select"
    /\ \/ StartTurn /\ c = clients_tx[Current]
       \/ /\ Reconnect /\ c = Head(main_rx).conn
          /\ Head(main_rx).player = Current

LEMMA SendsTurn ==
    ASSUME TypeOK, NEW d, SendTurn(d), NEW c \in Conns,
           server_rx'[c] # server_rx[c]
    PROVE  /\ c = d /\ c \in running
           /\ server_rx'[c] = Append(server_rx[c], status.turns)
           /\ srv' = "select"
BY DEF SendTurn, TypeOK, ChannelsTypeOK

\* A queue of Turns grows by the Turn the Server offers, and shrinks as its
\* Client reads it or ends.
LEMMA ServerRxChanges ==
    ASSUME TypeOK, [Next]_vars, NEW c \in Conns
    PROVE  \/ server_rx'[c] = server_rx[c]
           \/ Offered(c)
           \/ /\ c \in running /\ server_rx[c] # <<>>
              /\ server_rx'[c] = Tail(server_rx[c])
              /\ c \notin closed =>
                    inbox'[c] = Append(inbox[c], TurnMessage(Head(server_rx[c])))
           \/ server_rx'[c] = <<>> /\ c \notin running'
<1>1. CASE StartTurn
    BY <1>1, SendsTurn DEF StartTurn, Offered
<1>2. CASE Reconnect
    BY <1>2, SendsTurn DEF Reconnect, Offered
<1>3. CASE ServerStep /\ ~StartTurn /\ ~Reconnect
    BY <1>3 DEF ServerStep, ServerNext, AnswerFreePlayer, AnswerSession,
        Answer, Connect, IgnoreConnected, IgnoreReconnected, IgnoreNotice,
        ConnectTimeout, EndGame, PauseTurn, RecvDisconnect, IgnoreChoice,
        ApplyChoice, Stop, Drain, Shutdown, channelVars
<1>4. ASSUME NEW d \in Conns, EndTask(d)
      PROVE  /\ server_rx'[c] = IF c = d THEN <<>> ELSE server_rx[c]
             /\ c = d => c \notin running'
    BY <1>4 DEF EndTask, TypeOK, ChannelsTypeOK
<1>5. ASSUME NEW d \in Conns, RecvTurn(d), ~EndTask(d)
      PROVE  /\ d \in running /\ server_rx[d] # <<>>
             /\ server_rx'[c] = IF c = d THEN Tail(server_rx[c])
                                ELSE server_rx[c]
             /\ c = d /\ c \notin closed =>
                    inbox'[c] = Append(inbox[c], TurnMessage(Head(server_rx[c])))
    <2>1. /\ Deliver(d, TurnMessage(Head(server_rx[d])))
          /\ server_rx' = [server_rx EXCEPT ![d] = Tail(@)]
          /\ d \in running /\ server_rx[d] # <<>>
        BY <1>5 DEF RecvTurn, TurnMessage
    <2>2. QED
        BY <2>1, Delivers DEF TypeOK, ChannelsTypeOK
<1>6. ASSUME NEW d \in Conns, ClientStep(d)
      PROVE  \/ server_rx'[c] = server_rx[c]
             \/ /\ c \in running /\ server_rx[c] # <<>>
                /\ server_rx'[c] = Tail(server_rx[c])
                /\ c \notin closed =>
                    inbox'[c] = Append(inbox[c], TurnMessage(Head(server_rx[c])))
             \/ server_rx'[c] = <<>> /\ c \notin running'
    <2>1. CASE EndTask(d)
        BY <1>4, <2>1
    <2>2. CASE RecvTurn(d) /\ ~EndTask(d)
        BY <1>5, <2>2
    <2>3. QED
        BY <1>6, <2>1, <2>2 DEF ClientStep, ClientTask, ServerRxClosed,
            RecvBroadcast, SkipBroadcasts, RecvChoice, RecvStray, RemoteGone,
            channelVars
<1>7. CASE ~ServerStep /\ \A d \in Conns : ~ClientStep(d)
    BY <1>7 DEF Next, vars, channelVars, HandshakeStep, HandshakeTask, Reject,
        Welcome, WelcomeFails, Notify, Open, Request, Hello, AskReconnect,
        Ask, BadFirst, Choose, RemoteChoose, Stray, RemoteStray, Close,
        RemoteClose
<1>8. QED
    BY <1>1, <1>2, <1>3, <1>6, <1>7

----------------------------------------------------------------------------
\* Sequences, by their elements.

LEMMA AppendElements ==
    ASSUME NEW S, NEW q \in Seq(S), NEW e
    PROVE  /\ Len(q) \in Nat /\ Len(Append(q, e)) = Len(q) + 1
           /\ \A i \in 1..Len(q) : Append(q, e)[i] = q[i]
           /\ Append(q, e)[Len(q) + 1] = e
<1>1. q \in Seq(S \cup {e}) /\ e \in S \cup {e}
    OBVIOUS
<1>2. QED
    BY <1>1, AppendProperties, LenProperties

LEMMA TailElements ==
    ASSUME NEW S, NEW q \in Seq(S), q # <<>>
    PROVE  /\ Len(q) \in Nat \ {0} /\ Len(Tail(q)) = Len(q) - 1
           /\ \A i \in 1..Len(Tail(q)) :
                i + 1 \in 1..Len(q) /\ Tail(q)[i] = q[i + 1]
           /\ Head(q) = q[1]
BY HeadTailProperties, EmptySeq

\* What a step adds to what c has got, if anything.
LEMMA GotMore ==
    ASSUME TypeOK, [Next]_vars, NEW c \in Conns, NEW type,
           NEW i \in Got(c, type)'
    PROVE  \/ i \in Got(c, type) /\ inbox'[c][i] = inbox[c][i]
           \/ Source(c, inbox'[c][i]) /\ c \notin closed
<1>1. inbox[c] \in Seq(RemoteOutMessages)
    BY DEF TypeOK, RemoteTypeOK
<1>2. i \in 1..Len(inbox'[c]) /\ inbox'[c][i].type = type
    BY DEF Got
<1>3. CASE inbox'[c] = inbox[c]
    BY <1>2, <1>3 DEF Got
<1>4. CASE c \notin closed
           /\ \E m : inbox'[c] = Append(inbox[c], m) /\ Source(c, m)
    <2>1. PICK m : inbox'[c] = Append(inbox[c], m) /\ Source(c, m)
        BY <1>4
    <2>2. CASE i = Len(inbox[c]) + 1
        BY <1>1, <1>4, <2>1, <2>2, AppendElements
    <2>3. CASE i # Len(inbox[c]) + 1
        <3>1. i \in 1..Len(inbox[c]) /\ inbox'[c][i] = inbox[c][i]
            BY <1>1, <1>2, <2>1, <2>3, AppendElements
        <3>2. QED
            BY <1>2, <3>1 DEF Got
    <2>4. QED
        BY <2>2, <2>3
<1>5. QED
    BY <1>3, <1>4, InboxGrows

----------------------------------------------------------------------------
\* The steps of the invariant.

\* A connection has its player once and for all.
LEMMA OnePlayer ==
    ASSUME TypeOK, [Next]_vars, NEW c \in Conns
    PROVE  /\ hs[c] # "asked" => player'[c] = player[c]
           /\ hs[c] \in {"spawned", "done"} => hs'[c] \in {"spawned", "done"}
<1>1. ASSUME NEW d \in Conns, HandshakeStep(d) \/ Open(d)
      PROVE  /\ hs[c] # "asked" => player'[c] = player[c]
             /\ hs[c] \in {"spawned", "done"} => hs'[c] \in {"spawned", "done"}
    BY <1>1 DEF HandshakeStep, HandshakeTask, Reject, Welcome, WelcomeFails,
        Notify, Open, Request, Hello, AskReconnect, Ask, BadFirst, TypeOK,
        HandshakeTypeOK
<1>2. CASE UNCHANGED handshakeVars
    BY <1>2 DEF handshakeVars
<1>3. QED
    BY <1>1, <1>2 DEF Next, vars, ServerStep, ClientStep, ClientTask, RecvTurn,
        ServerRxClosed, RecvBroadcast, SkipBroadcasts, RecvChoice, RecvStray,
        RemoteGone, Choose, Stray, Close

LEMMA QuietStep ==
    ASSUME TypeOK, Named, Quiet, [Next]_vars
    PROVE  Quiet'
<1> SUFFICES ASSUME NEW c \in Conns, hs'[c] \in {"new", "asked"}
             PROVE  server_rx'[c] = <<>> /\ inbox'[c] = <<>>
    BY DEF Quiet
<1>1. hs[c] \in {"new", "asked"} /\ c \notin running
    BY OnePlayer DEF Named, TypeOK, HandshakeTypeOK
<1>2. server_rx[c] = <<>> /\ inbox[c] = <<>>
    BY <1>1 DEF Quiet
<1>3. server_rx'[c] = <<>>
    BY <1>1, <1>2, ServerRxChanges DEF Offered
<1>4. inbox'[c] = <<>>
    BY <1>1, <1>2, InboxGrows DEF Source
<1>5. QED
    BY <1>3, <1>4

LEMMA ToMoveStep ==
    ASSUME TypeOK, ToMove, [Next]_vars
    PROVE  ToMove'
<1>1. CASE ApplyChoice
    <2>1. status.turns \in Nat
        BY DEF TypeOK, ServerTypeOK, Statuses
    <2>2. Mover(status.turns + 1) = Opponent(Mover(status.turns))
        BY <2>1, PlayersAssumption DEF Mover, Opponent
    <2>3. QED
        BY <1>1, <2>2 DEF ApplyChoice, Move, ToMove, Playing
<1>2. CASE ~ApplyChoice
    <2>1. UNCHANGED status
        BY <1>2, OthersLeaveServer DEF ServerStep, ServerNext,
            AnswerFreePlayer, AnswerSession, Answer, Connect, IgnoreConnected,
            IgnoreReconnected, IgnoreNotice, ConnectTimeout, EndGame,
            StartTurn, PauseTurn, Reconnect, RecvDisconnect, IgnoreChoice,
            Stop, Drain, Shutdown, serverVars
    <2>2. QED
        BY <2>1 DEF ToMove, Playing
<1>3. QED
    BY <1>1, <1>2

\* The broadcasts are a log: a step adds to it or leaves it alone.
LEMMA LogGrows ==
    ASSUME TypeOK, [Next]_vars
    PROVE  \/ broadcast' = broadcast
           \/ \E m \in ServerBroadcasts :
                /\ broadcast' = Append(broadcast, m)
                /\ m.type = "Movement" =>
                    /\ srv = "select"
                    /\ m.player = status.player /\ m.turn = status.turns
                /\ m.type = "Disconnect" => srv' = "drain"
<1>1. CASE ApplyChoice
    <2> DEFINE m == [type |-> "Movement", player |-> Head(clients_rx).player,
                     turn |-> status.turns]
    <2>1. /\ m \in ServerBroadcasts /\ m.player = status.player
          /\ m.type # "Disconnect"
        BY <1>1, Heads, RequestFields
        DEF ApplyChoice, ReadsClients, Current, ServerBroadcasts, TypeOK,
            ServerTypeOK, Statuses
    <2>2. QED
        BY <1>1, <2>1 DEF ApplyChoice, ReadsClients
<1>2. CASE EndGame
    <2> DEFINE m == [type   |-> "GameFinished",
                     player |-> IF Playing THEN NoPlayer ELSE status.player,
                     turn   |-> status.turns]
    <2>1. m \in ServerBroadcasts /\ m.type \notin {"Movement", "Disconnect"}
        BY DEF ServerBroadcasts, TypeOK, ServerTypeOK, Statuses
    <2>2. QED
        BY <1>2, <2>1 DEF EndGame
<1>3. CASE Stop
    <2> DEFINE m == [type |-> "Disconnect", player |-> NoPlayer, turn |-> 0]
    <2>1. m \in ServerBroadcasts /\ m.type # "Movement"
        BY DEF ServerBroadcasts
    <2>2. QED
        BY <1>3, <2>1 DEF Stop
<1>4. CASE ~ApplyChoice /\ ~EndGame /\ ~Stop
    BY <1>4, OthersLeaveServer DEF ServerStep, ServerNext, AnswerFreePlayer,
        AnswerSession, Answer, Connect, IgnoreConnected, IgnoreReconnected,
        IgnoreNotice, ConnectTimeout, StartTurn, PauseTurn, Reconnect,
        RecvDisconnect, IgnoreChoice, Drain, Shutdown, channelVars
<1>5. QED
    BY <1>1, <1>2, <1>3, <1>4

LEMMA ToldStep ==
    ASSUME TypeOK, Ongoing, ToMove, Told, [Next]_vars
    PROVE  Told'
<1>1. CASE broadcast' = broadcast
    BY <1>1 DEF Told
<1>2. ASSUME NEW m \in ServerBroadcasts, broadcast' = Append(broadcast, m),
             m.type = "Movement" =>
                /\ srv = "select"
                /\ m.player = status.player /\ m.turn = status.turns
      PROVE  Told'
    <2>1. m.type = "Movement" => m.player = Mover(m.turn)
        BY <1>2 DEF Ongoing, GameOver, ToMove
    <2>2. QED
        BY <1>2, <2>1, AppendLast DEF Told
<1>3. QED
    BY <1>1, <1>2, LogGrows

LEMMA ReadsBroadcast ==
    ASSUME TypeOK, NEW c \in Conns, Lag(c) \in 1..BroadcastCapacity
    PROVE  /\ cursor[c] + 1 \in 1..Len(broadcast)
           /\ broadcast[cursor[c] + 1] \in ServerBroadcasts
           /\ NextBroadcast(c).type = broadcast[cursor[c] + 1].type
           /\ NextBroadcast(c).turn = broadcast[cursor[c] + 1].turn
           /\ NextBroadcast(c).player =
                RelativePlayer(c, broadcast[cursor[c] + 1].player)
           /\ NextBroadcast(c).type \in {"Movement", "GameFinished", "Disconnect"}
<1>1. cursor[c] \in Nat /\ Len(broadcast) \in Nat
    BY LenProperties DEF TypeOK, ChannelsTypeOK
<1>2. cursor[c] + 1 \in 1..Len(broadcast)
    BY <1>1, ChannelsAssumption DEF Lag
<1>3. broadcast[cursor[c] + 1] \in ServerBroadcasts
    BY <1>2, ElementOfSeq DEF TypeOK, ChannelsTypeOK
<1>4. QED
    BY <1>2, <1>3 DEF NextBroadcast, ServerBroadcasts

\* A Turn is offered to a connection of the player to move.
LEMMA OfferedToMover ==
    ASSUME TypeOK, Identity, Ongoing, ToMove, NEW c \in Conns, Offered(c)
    PROVE  Mover(status.turns) = player[c] /\ hs[c] = "done"
<1>1. Current \in Players /\ NoConn \notin Conns
    BY ChannelsAssumption DEF TypeOK, ServerTypeOK, Statuses, Current
<1>2. CASE StartTurn /\ c = clients_tx[Current]
    <2>1. player[c] = Current /\ hs[c] = "done"
        BY <1>1, <1>2 DEF Identity, SeatOwner, Settled, Seated
    <2>2. QED
        BY <1>2, <2>1 DEF StartTurn, GameOver, ToMove, Current
<1>3. CASE /\ Reconnect /\ c = Head(main_rx).conn
           /\ Head(main_rx).player = Current
    <2>1. Head(main_rx) \in Held
        BY <1>3, HeldTail DEF Reconnect
    <2>2. player[c] = Current /\ hs[c] = "done"
        BY <1>3, <2>1 DEF Reconnect, Identity, Notices
    <2>3. QED
        BY <1>3, <2>2 DEF Reconnect, Ongoing, GameOver, ToMove, Current
<1>4. QED
    BY <1>2, <1>3 DEF Offered

LEMMA TurnRoutingStep ==
    ASSUME TypeOK, Named, Identity, Ongoing, ToMove, Quiet, TurnRouting,
           [Next]_vars
    PROVE  TurnRouting'
<1> SUFFICES ASSUME NEW c \in Conns
             PROVE  /\ \A i \in 1..Len(server_rx'[c]) :
                        Mover(server_rx'[c][i]) = player'[c]
                    /\ \A i \in Got(c, "Turn")' :
                        Mover(inbox'[c][i].turn) = player'[c]
    BY DEF TurnRouting, Mover
<1>1. server_rx[c] \in Seq(Nat) /\ inbox[c] \in Seq(RemoteOutMessages)
    BY DEF TypeOK, ChannelsTypeOK, RemoteTypeOK
<1>2. /\ \A i \in 1..Len(server_rx[c]) : Mover(server_rx[c][i]) = player[c]
      /\ \A i \in Got(c, "Turn") : Mover(inbox[c][i].turn) = player[c]
    BY DEF TurnRouting
<1>3. CASE hs[c] = "asked"
    <2>1. c \notin running /\ server_rx[c] = <<>> /\ inbox[c] = <<>>
        BY <1>3 DEF Named, Quiet
    <2>2. server_rx'[c] = <<>>
        BY <2>1, ServerRxChanges DEF Offered
    <2>3. Got(c, "Turn")' = {}
        <3>1. Got(c, "Turn") = {}
            BY <2>1 DEF Got
        <3>2. ASSUME NEW i \in Got(c, "Turn")' PROVE FALSE
            <4>1. inbox'[c][i].type = "Turn"
                BY DEF Got
            <4>2. QED
                BY <2>1, <3>1, <4>1, GotMore DEF Source
        <3>3. QED
            BY <3>2
    <2>4. QED
        BY <2>2, <2>3
<1>4. CASE hs[c] # "asked"
    <2>1. player'[c] = player[c]
        BY <1>4, OnePlayer
    <2>2. server_rx[c] # <<>> => Mover(Head(server_rx[c])) = player[c]
        BY <1>1, <1>2, TailElements
    <2>3. ASSUME NEW i \in 1..Len(server_rx'[c])
          PROVE  Mover(server_rx'[c][i]) = player[c]
        <3>1. CASE Offered(c)
            <4>1. server_rx'[c] = Append(server_rx[c], status.turns)
                BY <3>1 DEF Offered
            <4>2. Mover(status.turns) = player[c]
                BY <3>1, OfferedToMover
            <4>3. CASE i \in 1..Len(server_rx[c])
                BY <1>1, <1>2, <4>1, <4>3, AppendElements
            <4>4. CASE i = Len(server_rx[c]) + 1
                BY <1>1, <4>1, <4>2, <4>4, AppendElements
            <4>5. QED
                BY <1>1, <2>3, <4>1, <4>3, <4>4, AppendElements
        <3>2. CASE server_rx[c] # <<>> /\ server_rx'[c] = Tail(server_rx[c])
            BY <1>1, <1>2, <2>3, <3>2, TailElements
        <3>3. CASE server_rx'[c] = server_rx[c] \/ server_rx'[c] = <<>>
            BY <1>2, <2>3, <3>3
        <3>4. QED
            BY <3>1, <3>2, <3>3, ServerRxChanges
    <2>4. ASSUME NEW i \in Got(c, "Turn")'
          PROVE  Mover(inbox'[c][i].turn) = player[c]
        <3>1. inbox'[c][i].type = "Turn"
            BY DEF Got
        <3>2. CASE i \in Got(c, "Turn") /\ inbox'[c][i] = inbox[c][i]
            BY <1>2, <3>2
        <3>3. CASE Source(c, inbox'[c][i])
            <4>1. CASE server_rx[c] # <<>>
                       /\ inbox'[c][i] = TurnMessage(Head(server_rx[c]))
                BY <2>2, <4>1 DEF TurnMessage
            <4>2. CASE Lag(c) \in 1..BroadcastCapacity
                       /\ inbox'[c][i] = NextBroadcast(c)
                <5>1. NextBroadcast(c).type # "Turn"
                    BY <4>2, ReadsBroadcast
                <5>2. QED
                    BY <3>1, <4>2, <5>1
            <4>3. QED
                BY <3>1, <3>3, <4>1, <4>2 DEF Source
        <3>4. QED
            BY <3>2, <3>3, GotMore
    <2>5. QED
        BY <2>1, <2>3, <2>4
<1>5. QED
    BY <1>3, <1>4

LEMMA PerspectiveStep ==
    ASSUME TypeOK, Named, Quiet, Told, Perspective, [Next]_vars
    PROVE  Perspective'
<1> SUFFICES ASSUME NEW c \in Conns, NEW i \in Got(c, "Movement")'
             PROVE  (inbox'[c][i].player = Player1)
                        <=> (Mover(inbox'[c][i].turn) = player'[c])
    BY DEF Perspective, Mover
<1>1. inbox'[c][i].type = "Movement"
    BY DEF Got
<1>2. CASE i \in Got(c, "Movement") /\ inbox'[c][i] = inbox[c][i]
    <2>1. hs[c] # "asked"
        BY <1>2 DEF Quiet, Got
    <2>2. QED
        BY <1>2, <2>1, OnePlayer DEF Perspective
<1>3. CASE Source(c, inbox'[c][i])
    <2>1. /\ c \in running /\ Lag(c) \in 1..BroadcastCapacity
          /\ inbox'[c][i] = NextBroadcast(c)
        BY <1>1, <1>3 DEF Source, TurnMessage
    <2> DEFINE m == broadcast[cursor[c] + 1]
    <2>2. /\ m.type = "Movement" /\ m.player = Mover(m.turn)
          /\ inbox'[c][i].turn = m.turn
          /\ inbox'[c][i].player = RelativePlayer(c, m.player)
        BY <1>1, <2>1, ReadsBroadcast DEF Told
    <2>3. player[c] \in Players /\ player'[c] = player[c]
        BY <2>1, OnePlayer DEF Named
    <2>4. QED
        BY <2>2, <2>3, PlayersAssumption
        DEF RelativePlayer, Mover, Opponent, Players
<1>4. QED
    BY <1>2, <1>3, GotMore

\* What c has got it keeps.
LEMMA GotKept ==
    ASSUME TypeOK, [Next]_vars, NEW c \in Conns, NEW type, NEW i \in Got(c, type)
    PROVE  i \in Got(c, type)' /\ inbox'[c][i] = inbox[c][i]
<1>1. inbox[c] \in Seq(RemoteOutMessages)
    BY DEF TypeOK, RemoteTypeOK
<1>2. CASE inbox'[c] = inbox[c]
    BY <1>2 DEF Got
<1>3. ASSUME NEW m, inbox'[c] = Append(inbox[c], m)
      PROVE  i \in Got(c, type)' /\ inbox'[c][i] = inbox[c][i]
    <2>1. i \in 1..Len(inbox[c]) /\ inbox[c][i].type = type
        BY DEF Got
    <2>2. i \in 1..Len(inbox'[c]) /\ inbox'[c][i] = inbox[c][i]
        BY <1>1, <1>3, <2>1, AppendElements
    <2>3. QED
        BY <2>1, <2>2 DEF Got
<1>4. QED
    BY <1>2, <1>3, InboxGrows

\* A connection that runs after a step but not before has just been welcomed.
LEMMA StartsRunning ==
    ASSUME TypeOK, [Next]_vars, NEW c \in Conns, c \in running', c \notin running
    PROVE  hs[c] = "asked"
<1>1. ASSUME NEW d \in Conns, HandshakeStep(d)
      PROVE  hs[c] = "asked"
    BY <1>1 DEF HandshakeStep, HandshakeTask, Reject, Welcome, WelcomeFails,
        Notify
<1>2. CASE ServerStep
    BY <1>2 DEF ServerStep, ServerNext, AnswerFreePlayer, AnswerSession,
        Answer, Connect, IgnoreConnected, IgnoreReconnected, IgnoreNotice,
        ConnectTimeout, EndGame, StartTurn, PauseTurn, Reconnect,
        RecvDisconnect, IgnoreChoice, ApplyChoice, Stop, Drain, Shutdown,
        channelVars
<1>3. CASE ~ServerStep /\ \A d \in Conns : ~HandshakeStep(d)
    BY <1>3 DEF Next, vars, ClientStep, ClientTask, RecvTurn, ServerRxClosed,
        RecvBroadcast, SkipBroadcasts, RecvChoice, RecvStray, RemoteGone,
        EndTask, Open, Request, Hello, AskReconnect, Ask, BadFirst, Choose,
        RemoteChoose, Stray, RemoteStray, Close, RemoteClose, channelVars
<1>4. QED
    BY <1>1, <1>2, <1>3

LEMMA ClosedGrows == [Next]_vars => closed \subseteq closed'
BY DEF Next, vars, remoteVars, ServerStep, ClientStep, ClientTask, RecvTurn,
    ServerRxClosed, RecvBroadcast, SkipBroadcasts, RecvChoice, RecvStray,
    RemoteGone, HandshakeStep, HandshakeTask, Reject, Welcome, WelcomeFails,
    Notify, Open, Request, Hello, AskReconnect, Ask, BadFirst, Choose,
    RemoteChoose, Stray, RemoteStray, Close, RemoteClose

\* Turn n has been sent to c: it is in its queue or has been delivered.
Sent(c, n) ==
    \/ \E i \in 1..Len(server_rx[c]) : server_rx[c][i] = n
    \/ \E i \in Got(c, "Turn") : inbox[c][i].turn = n

\* A Turn on its way to a connection that is up arrives.
LEMMA SentStays ==
    ASSUME TypeOK, [Next]_vars, NEW c \in Conns, NEW n \in Nat,
           Sent(c, n), c \in running', c \notin closed
    PROVE  Sent(c, n)'
<1>1. server_rx[c] \in Seq(Nat) /\ inbox[c] \in Seq(RemoteOutMessages)
    BY DEF TypeOK, ChannelsTypeOK, RemoteTypeOK
<1>2. CASE \E i \in Got(c, "Turn") : inbox[c][i].turn = n
    BY <1>2, GotKept DEF Sent
<1>3. ASSUME NEW i \in 1..Len(server_rx[c]), server_rx[c][i] = n
      PROVE  Sent(c, n)'
    <2>1. CASE server_rx'[c] = server_rx[c]
        BY <1>3, <2>1 DEF Sent
    <2>2. CASE server_rx'[c] = Append(server_rx[c], status.turns)
        <3>1. i \in 1..Len(server_rx'[c]) /\ server_rx'[c][i] = n
            BY <1>1, <1>3, <2>2, AppendElements
        <3>2. QED
            BY <3>1 DEF Sent
    <2>3. CASE /\ server_rx[c] # <<>> /\ server_rx'[c] = Tail(server_rx[c])
               /\ inbox'[c] = Append(inbox[c], TurnMessage(Head(server_rx[c])))
        <3>1. CASE i = 1
            <4> DEFINE j == Len(inbox[c]) + 1
            <4>1. j \in 1..Len(inbox'[c]) /\ inbox'[c][j] = TurnMessage(n)
                BY <1>1, <1>3, <2>3, <3>1, AppendElements, TailElements
            <4>2. QED
                BY <4>1 DEF Sent, Got, TurnMessage
        <3>2. CASE i # 1
            <4>1. /\ i - 1 \in 1..Len(server_rx'[c])
                  /\ server_rx'[c][i - 1] = server_rx[c][i - 1 + 1]
                BY <1>1, <1>3, <2>3, <3>2, TailElements
            <4>2. server_rx'[c][i - 1] = n
                BY <1>3, <4>1
            <4>3. QED
                BY <4>1, <4>2 DEF Sent
        <3>3. QED
            BY <3>1, <3>2
    <2>4. QED
        BY <2>1, <2>2, <2>3, ServerRxChanges DEF Offered
<1>4. QED
    BY <1>2, <1>3 DEF Sent

LEMMA OfferedIsSent ==
    ASSUME TypeOK, NEW c \in Conns, Offered(c), UNCHANGED status
    PROVE  Sent(c, status.turns)'
<1>1. server_rx[c] \in Seq(Nat) /\ server_rx'[c] = Append(server_rx[c], status.turns)
    BY DEF TypeOK, ChannelsTypeOK, Offered
<1>2. Len(server_rx[c]) + 1 \in 1..Len(server_rx'[c])
      /\ server_rx'[c][Len(server_rx[c]) + 1] = status'.turns
    BY <1>1, AppendElements
<1>3. QED
    BY <1>2 DEF Sent

LEMMA TurnOnItsWayStep ==
    ASSUME TypeOK, TypeOK', Named, Identity, TurnOnItsWay, [Next]_vars
    PROVE  TurnOnItsWay'
<1> SUFFICES ASSUME NEW c \in Conns, srv' = "select",
                    status'.player \notin disconnected',
                    c = clients_tx'[status'.player],
                    c \in running', c \notin closed'
             PROVE  Sent(c, status.turns)'
    BY DEF TurnOnItsWay, Current, Sent, Got, TypeOK, ChannelsTypeOK
<1>1. /\ Current \in Players /\ status.turns \in Nat /\ c \notin closed
      /\ NoConn \notin Conns
    BY ClosedGrows, ChannelsAssumption
    DEF TypeOK, ServerTypeOK, Statuses, Current
<1>2. ASSUME srv = "select", UNCHANGED status, clients_tx[Current] = c,
             Current \notin disconnected
      PROVE  Sent(c, status.turns)'
    <2>1. hs[c] = "done" /\ c \in running
        BY <1>1, <1>2, StartsRunning DEF Identity, Settled, Seated
    <2>2. Sent(c, status.turns)
        BY <1>1, <1>2, <2>1 DEF TurnOnItsWay, Current, Sent
    <2>3. PICK n \in Nat : n = status.turns
        BY <1>1
    <2>4. Sent(c, n)'
        BY <1>1, <2>1, <2>2, <2>3, SentStays
    <2>5. QED
        BY <1>2, <2>3, <2>4 DEF Sent
<1>3. CASE ~ServerStep
    BY <1>2, <1>3, OthersLeaveServer DEF serverVars, Current
<1>4. CASE StartTurn
    <2>1. Offered(c) /\ UNCHANGED status
        BY <1>4 DEF StartTurn, SendTurn, Offered, Current, TypeOK,
            ChannelsTypeOK
    <2>2. QED
        BY <2>1, OfferedIsSent
<1>5. CASE Reconnect
    <2> DEFINE m == Head(main_rx)
    <2>1. UNCHANGED status /\ srv = "select" /\ m.player \in Players
        BY <1>5, Heads, NoticeFields DEF Reconnect
    <2>2. CASE m.player = Current
        <3>1. m.conn = c
            BY <1>1, <1>5, <2>1, <2>2
            DEF Reconnect, Current, TypeOK, ChannelsTypeOK
        <3>2. SendTurn(c)
            BY <1>5, <2>2, <3>1 DEF Reconnect
        <3>3. Offered(c)
            BY <1>5, <2>2, <3>1, <3>2
            DEF SendTurn, Offered, TypeOK, ChannelsTypeOK
        <3>4. QED
            BY <2>1, <3>3, OfferedIsSent
    <2>3. CASE m.player # Current
        BY <1>1, <1>2, <1>5, <2>1, <2>3
        DEF Reconnect, Current, TypeOK, ChannelsTypeOK
    <2>4. QED
        BY <2>2, <2>3
<1>6. CASE RecvDisconnect
    BY <1>1, <1>2, <1>6
    DEF RecvDisconnect, ReadsClients, Current, TypeOK, ChannelsTypeOK
<1>7. CASE /\ ServerStep
           /\ ~(StartTurn \/ Reconnect \/ RecvDisconnect)
    BY <1>2, <1>7 DEF ServerStep, ServerNext, AnswerFreePlayer, AnswerSession,
        Answer, Connect, IgnoreConnected, IgnoreReconnected, IgnoreNotice,
        ConnectTimeout, EndGame, PauseTurn, IgnoreChoice, ApplyChoice, Stop,
        Drain, Shutdown, channelVars, serverVars, Current
<1>8. QED
    BY <1>3, <1>4, <1>5, <1>6, <1>7

----------------------------------------------------------------------------
LEMMA RoutedKept == Spec => [](Ongoing /\ Routed)
<1>1. Init => Ongoing /\ Routed
    <2> SUFFICES ASSUME Init PROVE Ongoing /\ Routed
        OBVIOUS
    <2>1. Ongoing
        BY OngoingInit
    <2>2. \A c \in Conns : server_rx[c] = <<>> /\ inbox[c] = <<>>
        BY DEF Init, ChannelsInit, RemoteInit
    <2>3. ToMove /\ Told /\ TurnOnItsWay
        BY DEF Init, ServerInit, GameInit, ChannelsInit, ToMove, Told, Mover,
            TurnOnItsWay
    <2>4. Quiet /\ TurnRouting /\ Perspective
        BY <2>2 DEF Quiet, TurnRouting, Perspective, Got
    <2>5. QED
        BY <2>1, <2>3, <2>4 DEF Routed
<1>2. TypeOK /\ TypeOK' /\ Named /\ Identity /\ Ongoing /\ Routed /\ [Next]_vars
        => Ongoing' /\ Routed'
    <2> SUFFICES ASSUME TypeOK, TypeOK', Named, Identity, Ongoing, Routed,
                        [Next]_vars
                 PROVE  Ongoing' /\ Routed'
        OBVIOUS
    <2> USE DEF Routed
    <2>1. Ongoing'
        BY OngoingStep
    <2>2. ToMove' /\ Quiet' /\ Told'
        BY ToMoveStep, QuietStep, ToldStep
    <2>3. TurnRouting' /\ Perspective' /\ TurnOnItsWay'
        BY TurnRoutingStep, PerspectiveStep, TurnOnItsWayStep
    <2>4. QED
        BY <2>1, <2>2, <2>3
<1>3. QED
    BY <1>1, <1>2, TypeCorrect, IdentityKept, PTL DEF Spec

\* A Turn only ever reaches a connection of the player whose turn it is: with
\* any number of connections that are welcomed, replaced and lost, the list
\* of movements is never offered to the opponent.
THEOREM TurnsRouted == Spec => []TurnRouting
<1>1. Routed => TurnRouting
    BY DEF Routed
<1>2. QED
    BY <1>1, RoutedKept, PTL

\* The Server never waits for a player who is connected and has not been sent
\* the Turn: whoever starts the turn, be it handle_turn or the reconnection
\* of the player, has put it in the queue of the connection.
THEOREM TurnsSent == Spec => []TurnOnItsWay
<1>1. Routed => TurnOnItsWay
    BY DEF Routed
<1>2. QED
    BY <1>1, RoutedKept, PTL

\* A remote player sees a move as its own exactly when its player made it,
\* whichever connection it sees it on.
THEOREM MovesInPerspective == Spec => []Perspective
<1>1. Routed => Perspective
    BY DEF Routed
<1>2. QED
    BY <1>1, RoutedKept, PTL

=============================================================================
