--------------------------- MODULE SessionProofs ---------------------------
(***************************************************************************)
(* Proofs about Session for any number of connections, any capacities and  *)
(* any number of turns.                                                    *)
(***************************************************************************)
EXTENDS Session, SequenceTheorems, TLAPS

\* A Client task knows its player and its session, and so does the handshake
\* that has spawned it: what they send to the Server is well-formed.
Named ==
    \A c \in Conns :
        /\ c \in running => hs[c] \in {"spawned", "done"}
        /\ hs[c] = "spawned" \/ c \in running =>
            player[c] \in Players /\ session[c] \in Conns

LEMMA NoticeFields ==
    ASSUME NEW m \in MainThreadMessages
    PROVE  /\ m.conn \in Conns
           /\ m.type # "RequestFreePlayer" => m.session \in Conns
           /\ m.type \in {"ClientConnected", "ClientReconnected"} =>
                m.player \in Players
BY DEF MainThreadMessages

LEMMA RequestFields ==
    ASSUME NEW m \in ClientMessages
    PROVE  m.type \in {"Disconnect", "Choice"} /\ m.player \in Players
           /\ m.turn \in Nat
BY DEF ClientMessages

\* What reading a queue leaves and returns.
LEMMA HeadTail ==
    ASSUME NEW S, NEW q \in Seq(S), q # <<>>
    PROVE  Head(q) \in S /\ Tail(q) \in Seq(S)
BY HeadTailProperties

LEMMA Override ==
    ASSUME NEW S, NEW T, NEW f \in [S -> T], NEW x \in S, NEW y \in T
    PROVE  [f EXCEPT ![x] = y] \in [S -> T]
OBVIOUS

LEMMA Heads ==
    ASSUME TypeOK
    PROVE  /\ main_rx # <<>> => /\ Tail(main_rx) \in Seq(MainThreadMessages)
                                /\ Head(main_rx) \in MainThreadMessages
           /\ clients_rx # <<>> => /\ Tail(clients_rx) \in Seq(ClientMessages)
                                   /\ Head(clients_rx) \in ClientMessages
<1>1. main_rx \in Seq(MainThreadMessages) /\ clients_rx \in Seq(ClientMessages)
    BY DEF TypeOK, ChannelsTypeOK
<1>2. QED
    BY <1>1, HeadTail

LEMMA InitTyped == Init => TypeOK
BY PlayersAssumption, ChannelsAssumption
   DEF Init, TypeOK, ChannelsInit, ChannelsTypeOK, ServerInit, ServerTypeOK,
       RemoteInit, RemoteTypeOK, HandshakeInit, HandshakeTypeOK, GameInit,
       Statuses, Players, Answers


LEMMA ServerTyped == TypeOK /\ ServerStep => TypeOK'
<1> SUFFICES ASSUME TypeOK, ServerStep PROVE TypeOK'
    OBVIOUS
<1> USE DEF TypeOK, channelVars, serverVars
<1>0. RemoteTypeOK' /\ HandshakeTypeOK'
    BY DEF ServerStep, RemoteTypeOK, HandshakeTypeOK, remoteVars, handshakeVars
<1>1. ASSUME NEW c \in Conns, NEW p \in Players \cup {NoPlayer},
             main_rx # <<>>, Answer(c, p)
      PROVE  TypeOK'
    <2>1. reply' \in [Conns -> Answers]
        <3>1. <<p>> \in Answers
            BY DEF Answers
        <3>2. reply' = [reply EXCEPT ![c] = <<p>>]
            BY <1>1 DEF Answer
        <3>3. QED
            BY <3>1, <3>2 DEF ChannelsTypeOK
    <2>2. main_rx' \in Seq(MainThreadMessages)
        BY <1>1, Heads DEF Answer
    <2>3. QED
        BY <1>0, <1>1, <2>1, <2>2 DEF Answer, ChannelsTypeOK, ServerTypeOK
<1>2. CASE AnswerFreePlayer
    BY <1>1, <1>2, Heads, NoticeFields
    DEF AnswerFreePlayer, ReadsMain, FreePlayer, Players
<1>3. CASE AnswerSession
    <2>1. sessions[Head(main_rx).session] \in Players \cup {NoPlayer}
        BY <1>3, Heads, NoticeFields DEF AnswerSession, ReadsMain, ServerTypeOK
    <2>2. QED
        BY <1>1, <1>3, <2>1, Heads, NoticeFields DEF AnswerSession, ReadsMain
<1>4. CASE Connect
    <2> DEFINE m == Head(main_rx)
    <2>1. /\ m.player \in Players /\ m.conn \in Conns /\ m.session \in Conns
          /\ main_rx' \in Seq(MainThreadMessages)
        BY <1>4, Heads, NoticeFields DEF Connect
    <2>2. /\ clients_tx' \in [Players -> Conns \cup {NoConn}]
          /\ sessions' \in [Conns -> Players \cup {NoPlayer}]
          /\ srv' \in {"turn", "connect"}
        BY <1>4, <2>1 DEF Connect, ChannelsTypeOK, ServerTypeOK
    <2>3. QED
        BY <1>0, <1>4, <2>1, <2>2 DEF Connect, ChannelsTypeOK, ServerTypeOK
<1>5. ASSUME IgnoreNotice, main_rx # <<>> PROVE TypeOK'
    BY <1>0, <1>5, Heads DEF IgnoreNotice, ChannelsTypeOK, ServerTypeOK
<1>6. CASE ConnectTimeout
    BY <1>0, <1>6 DEF ConnectTimeout, ChannelsTypeOK, ServerTypeOK
<1>7. ASSUME NEW m \in ServerBroadcasts, broadcast' = Append(broadcast, m)
      PROVE  broadcast' \in Seq(ServerBroadcasts)
    BY <1>7, AppendProperties DEF ChannelsTypeOK
<1>8. status.turns \in Nat /\ status.player \in Players
    BY DEF ServerTypeOK, Statuses
<1>9. CASE EndGame
    <2>1. broadcast' \in Seq(ServerBroadcasts)
        BY <1>7, <1>8, <1>9 DEF EndGame, ServerBroadcasts
    <2>2. QED
        BY <1>0, <1>9, <2>1 DEF EndGame, ChannelsTypeOK, ServerTypeOK
<1>10. ASSUME NEW c, SendTurn(c)
       PROVE  /\ server_rx' \in [Conns -> Seq(Nat)]
              /\ srv' \in {"select", "stop"}
    <2>1. CASE c \in running
        <3>1. c \in Conns /\ server_rx[c] \in Seq(Nat)
            BY <2>1 DEF ChannelsTypeOK
        <3>2. Append(server_rx[c], status.turns) \in Seq(Nat)
            BY <1>8, <3>1, AppendProperties
        <3>3. QED
            BY <1>10, <2>1, <3>1, <3>2 DEF SendTurn, ChannelsTypeOK
    <2>2. CASE c \notin running
        BY <1>10, <2>2 DEF SendTurn, ChannelsTypeOK
    <2>3. QED
        BY <2>1, <2>2
<1>11. CASE StartTurn
    BY <1>0, <1>10, <1>11 DEF StartTurn, ChannelsTypeOK, ServerTypeOK
<1>12. CASE PauseTurn
    BY <1>0, <1>12 DEF PauseTurn, ChannelsTypeOK, ServerTypeOK
<1>13. CASE Reconnect
    <2> DEFINE m == Head(main_rx)
    <2>1. /\ m.player \in Players /\ m.conn \in Conns
          /\ main_rx' \in Seq(MainThreadMessages)
        BY <1>13, Heads, NoticeFields DEF Reconnect
    <2>2. /\ clients_tx' \in [Players -> Conns \cup {NoConn}]
          /\ disconnected' \in SUBSET Players
        BY <1>13, <2>1 DEF Reconnect, ChannelsTypeOK, ServerTypeOK
    <2>3. /\ server_rx' \in [Conns -> Seq(Nat)]
          /\ srv' \in {"select", "stop"}
        BY <1>10, <1>13 DEF Reconnect, ChannelsTypeOK
    <2>4. QED
        BY <1>0, <1>13, <2>1, <2>2, <2>3
        DEF Reconnect, ChannelsTypeOK, ServerTypeOK
<1>14. CASE RecvDisconnect
    <2>1. /\ Head(clients_rx).player \in Players
          /\ clients_rx' \in Seq(ClientMessages)
        BY <1>14, Heads, RequestFields DEF RecvDisconnect, ReadsClients
    <2>2. /\ clients_tx' \in [Players -> Conns \cup {NoConn}]
          /\ disconnected' \in SUBSET Players
        BY <1>14, <2>1 DEF RecvDisconnect, ChannelsTypeOK, ServerTypeOK
    <2>3. QED
        BY <1>0, <1>14, <2>1, <2>2
        DEF RecvDisconnect, ChannelsTypeOK, ServerTypeOK
<1>15. CASE IgnoreChoice
    BY <1>0, <1>15, Heads
    DEF IgnoreChoice, ReadsClients, ChannelsTypeOK, ServerTypeOK
<1>16. CASE ApplyChoice
    <2>1. /\ Head(clients_rx).player \in Players
          /\ clients_rx' \in Seq(ClientMessages)
        BY <1>16, Heads, RequestFields DEF ApplyChoice, ReadsClients
    <2>2. broadcast' \in Seq(ServerBroadcasts)
        BY <1>7, <1>8, <1>16, <2>1 DEF ApplyChoice, ServerBroadcasts
    <2>3. status' \in Statuses
        BY <1>8, <1>16 DEF ApplyChoice, Move, Statuses, Opponent, Players
    <2>4. QED
        BY <1>0, <1>16, <2>1, <2>2, <2>3
        DEF ApplyChoice, ChannelsTypeOK, ServerTypeOK
<1>17. CASE Stop
    <2>1. broadcast' \in Seq(ServerBroadcasts)
        BY <1>7, <1>17 DEF Stop, ServerBroadcasts
    <2>2. QED
        BY <1>0, <1>17, <2>1 DEF Stop, ChannelsTypeOK, ServerTypeOK
<1>18. CASE Drain
    <2>1. /\ Head(clients_rx).player \in Players
          /\ clients_rx' \in Seq(ClientMessages)
        BY <1>18, Heads, RequestFields DEF Drain
    <2>2. clients_tx' \in [Players -> Conns \cup {NoConn}]
        BY <1>18 DEF Drain, ChannelsTypeOK
    <2>3. QED
        BY <1>0, <1>18, <2>1, <2>2 DEF Drain, ChannelsTypeOK, ServerTypeOK
<1>19. CASE Shutdown
    BY <1>0, <1>19 DEF Shutdown, ChannelsTypeOK, ServerTypeOK
<1>20. QED
    BY <1>2, <1>3, <1>4, <1>5, <1>6, <1>9, <1>11, <1>12, <1>13, <1>14, <1>15,
       <1>16, <1>17, <1>18, <1>19
    DEF ServerStep, ServerNext, IgnoreConnected, IgnoreReconnected, ReadsMain

----------------------------------------------------------------------------
\* The handshakes, the Clients, the remote players.

LEMMA DeliverTyped ==
    ASSUME TypeOK, NEW c \in Conns, NEW m \in RemoteOutMessages, Deliver(c, m)
    PROVE  inbox' \in [Conns -> Seq(RemoteOutMessages)]
           /\ chosen' \in [Conns -> Nat]
<1>1. Append(inbox[c], m) \in Seq(RemoteOutMessages)
    BY AppendProperties DEF TypeOK, RemoteTypeOK
<1>2. CASE c \in closed
    BY <1>2 DEF Deliver, TypeOK, RemoteTypeOK
<1>3. CASE c \notin closed
    <2>1. inbox' = [inbox EXCEPT ![c] = Append(inbox[c], m)]
          /\ chosen' \in {chosen, [chosen EXCEPT ![c] = 0]}
        BY <1>3 DEF Deliver
    <2>2. inbox \in [Conns -> Seq(RemoteOutMessages)]
          /\ chosen \in [Conns -> Nat]
        BY DEF TypeOK, RemoteTypeOK
    <2>3. QED
        BY <1>1, <2>1, <2>2, Override
<1>4. QED
    BY <1>2, <1>3

LEMMA OpenTyped ==
    ASSUME TypeOK, NEW c \in Conns, Open(c)
    PROVE  TypeOK'
<1> USE DEF TypeOK, serverVars
<1>0. ServerTypeOK'
    BY DEF Open, ServerTypeOK
<1>1. ASSUME NEW type, NEW s, Ask(c, type, s),
             [type |-> type, conn |-> c, player |-> NoPlayer, session |-> s]
                \in MainThreadMessages,
             s \in Conns \cup {NoConn}, hasty' \in SUBSET Conns
      PROVE  TypeOK'
    <2>1. main_rx' \in Seq(MainThreadMessages)
        BY <1>1, AppendProperties DEF Ask, ChannelsTypeOK
    <2>2. QED
        BY <1>0, <1>1, <2>1
        DEF Ask, ChannelsTypeOK, RemoteTypeOK, HandshakeTypeOK, remoteVars
<1>2. CASE Hello(c)
    BY <1>1, <1>2 DEF Hello, MainThreadMessages, HandshakeTypeOK
<1>3. CASE \E s \in Conns \ {c} : AskReconnect(c, s)
    BY <1>1, <1>3 DEF AskReconnect, MainThreadMessages, HandshakeTypeOK
<1>4. CASE BadFirst(c)
    BY <1>0, <1>4 DEF BadFirst, channelVars, ChannelsTypeOK, RemoteTypeOK,
        HandshakeTypeOK
<1>5. QED
    BY <1>2, <1>3, <1>4 DEF Open, Request

LEMMA HandshakeTyped ==
    ASSUME TypeOK, Named, NEW c \in Conns, HandshakeStep(c)
    PROVE  TypeOK'
<1> USE DEF TypeOK, serverVars
<1>0. ServerTypeOK'
    BY DEF HandshakeStep, ServerTypeOK
<1>1. ASSUME reply' = [reply EXCEPT ![c] = <<>>]
      PROVE  reply' \in [Conns -> Answers]
    BY <1>1 DEF ChannelsTypeOK, Answers
<1>2. CASE Reject(c)
    <2>1. [type |-> "Reject", player |-> NoPlayer, turn |-> 0]
            \in RemoteOutMessages
        BY DEF RemoteOutMessages
    <2>2. inbox' \in [Conns -> Seq(RemoteOutMessages)]
          /\ chosen' \in [Conns -> Nat]
        BY <1>2, <2>1, DeliverTyped DEF Reject
    <2>3. QED
        BY <1>0, <1>1, <1>2, <2>2
        DEF Reject, ChannelsTypeOK, RemoteTypeOK, HandshakeTypeOK
<1>3. CASE Welcome(c)
    <2>1. [type |-> "Welcome", player |-> NoPlayer, turn |-> 0]
            \in RemoteOutMessages
        BY DEF RemoteOutMessages
    <2>2. inbox' \in [Conns -> Seq(RemoteOutMessages)]
          /\ chosen' \in [Conns -> Nat]
        BY <1>3, <2>1, DeliverTyped DEF Welcome
    <2>3. Head(reply[c]) \in Players \cup {NoPlayer}
        BY <1>3 DEF Welcome, ChannelsTypeOK, Answers
    <2>4. HandshakeTypeOK'
        BY <1>3, <2>3 DEF Welcome, HandshakeTypeOK
    <2>5. reply' \in [Conns -> Answers]
        BY <1>1, <1>3 DEF Welcome
    <2>6. cursor' \in [Conns -> Nat] /\ running' \in SUBSET Conns
        BY <1>3, LenProperties DEF Welcome, ChannelsTypeOK
    <2>7. QED
        BY <1>0, <1>3, <2>2, <2>4, <2>5, <2>6
        DEF Welcome, ChannelsTypeOK, RemoteTypeOK
<1>4. CASE WelcomeFails(c)
    BY <1>0, <1>1, <1>4
    DEF WelcomeFails, ChannelsTypeOK, RemoteTypeOK, HandshakeTypeOK, remoteVars
<1>5. CASE Notify(c)
    <2>1. player[c] \in Players /\ session[c] \in Conns
        BY <1>5 DEF Notify, Named
    <2>2. main_rx' \in Seq(MainThreadMessages)
        BY <1>5, <2>1, AppendProperties
        DEF Notify, MainThreadMessages, ChannelsTypeOK
    <2>3. QED
        BY <1>0, <1>5, <2>2
        DEF Notify, ChannelsTypeOK, RemoteTypeOK, HandshakeTypeOK, remoteVars
<1>6. QED
    BY <1>2, <1>3, <1>4, <1>5 DEF HandshakeStep, HandshakeTask

LEMMA ClientTyped ==
    ASSUME TypeOK, Named, NEW c \in Conns, ClientStep(c)
    PROVE  TypeOK'
<1> USE DEF TypeOK, serverVars, handshakeVars
<1>0. ServerTypeOK' /\ HandshakeTypeOK'
    BY DEF ClientStep, ClientTask, ServerTypeOK, HandshakeTypeOK, RecvTurn,
           ServerRxClosed, RecvBroadcast, SkipBroadcasts, RecvChoice,
           RecvStray, RemoteGone
<1>1. ASSUME EndTask(c)
      PROVE  /\ running' \in SUBSET Conns
             /\ server_rx' \in [Conns -> Seq(Nat)]
             /\ to_server' \in [Conns -> Seq(Frames)]
    BY <1>1 DEF EndTask, ChannelsTypeOK, RemoteTypeOK
<1>2. CASE RecvTurn(c)
    <2>1. Head(server_rx[c]) \in Nat /\ Tail(server_rx[c]) \in Seq(Nat)
        BY <1>2, HeadTail DEF RecvTurn, ChannelsTypeOK
    <2>2. [type |-> "Turn", player |-> Player1, turn |-> Head(server_rx[c])]
            \in RemoteOutMessages
        BY <2>1 DEF RemoteOutMessages, Players
    <2>3. /\ inbox' \in [Conns -> Seq(RemoteOutMessages)]
          /\ chosen' \in [Conns -> Nat]
        BY <1>2, <2>2, DeliverTyped DEF RecvTurn, RemoteTypeOK
    <2>4. /\ running' \in SUBSET Conns
          /\ server_rx' \in [Conns -> Seq(Nat)]
          /\ to_server' \in [Conns -> Seq(Frames)]
        BY <1>1, <1>2, <2>1 DEF RecvTurn, ChannelsTypeOK, RemoteTypeOK
    <2>5. QED
        BY <1>0, <1>2, <2>3, <2>4 DEF RecvTurn, ChannelsTypeOK, RemoteTypeOK
<1>3. CASE ServerRxClosed(c)
    BY <1>0, <1>1, <1>3 DEF ServerRxClosed, ChannelsTypeOK, RemoteTypeOK
<1>4. CASE RecvBroadcast(c)
    <2> DEFINE m == broadcast[cursor[c] + 1]
    <2>1. m \in ServerBroadcasts
        <3>1. cursor[c] \in Nat /\ Len(broadcast) \in Nat
            BY LenProperties DEF ChannelsTypeOK
        <3>2. cursor[c] + 1 \in 1..Len(broadcast)
            BY <1>4, <3>1 DEF RecvBroadcast, Lag
        <3>3. QED
            BY <3>2, ElementOfSeq DEF ChannelsTypeOK
    <2>2. RelativePlayer(c, m.player) \in Players \cup {NoPlayer}
        BY <2>1 DEF RelativePlayer, Opponent, Players, ServerBroadcasts
    <2>3. [m EXCEPT !.player = RelativePlayer(c, m.player)]
            \in RemoteOutMessages
        BY <2>1, <2>2 DEF RemoteOutMessages, ServerBroadcasts
    <2>4. /\ inbox' \in [Conns -> Seq(RemoteOutMessages)]
          /\ chosen' \in [Conns -> Nat]
        BY <1>4, <2>3, DeliverTyped DEF RecvBroadcast, RemoteTypeOK
    <2>5. /\ running' \in SUBSET Conns
          /\ server_rx' \in [Conns -> Seq(Nat)]
          /\ to_server' \in [Conns -> Seq(Frames)]
        BY <1>1, <1>4 DEF RecvBroadcast, ChannelsTypeOK, RemoteTypeOK
    <2>6. cursor' \in [Conns -> Nat]
        <3>1. cursor' \in {cursor, [cursor EXCEPT ![c] = cursor[c] + 1]}
            BY <1>4 DEF RecvBroadcast
        <3>2. cursor \in [Conns -> Nat] /\ cursor[c] + 1 \in Nat
            BY DEF ChannelsTypeOK
        <3>3. QED
            BY <3>1, <3>2, Override
    <2>7. QED
        BY <1>0, <1>4, <2>4, <2>5, <2>6
        DEF RecvBroadcast, ChannelsTypeOK, RemoteTypeOK
<1>5. CASE SkipBroadcasts(c)
    <2>1. Len(broadcast) - BroadcastCapacity \in Nat
        BY <1>5, LenProperties, ChannelsAssumption
        DEF SkipBroadcasts, Lag, ChannelsTypeOK
    <2>2. QED
        BY <1>0, <1>5, <2>1
        DEF SkipBroadcasts, ChannelsTypeOK, RemoteTypeOK, remoteVars
<1>6. ASSUME NEW m \in ClientMessages, clients_rx' = Append(clients_rx, m)
      PROVE  clients_rx' \in Seq(ClientMessages)
    BY <1>6, AppendProperties DEF ChannelsTypeOK
<1>7. CASE RecvChoice(c)
    <2>1. /\ Head(to_server[c]) \in Frames
          /\ Tail(to_server[c]) \in Seq(Frames)
          /\ player[c] \in Players
        BY <1>7, HeadTail DEF RecvChoice, Arrived, RemoteTypeOK, Named
    <2>2. clients_rx' \in Seq(ClientMessages)
        BY <1>6, <1>7, <2>1 DEF RecvChoice, ClientMessages, Frames
    <2>3. QED
        BY <1>0, <1>7, <2>1, <2>2
        DEF RecvChoice, ChannelsTypeOK, RemoteTypeOK
<1>8. CASE RemoteGone(c)
    <2>1. player[c] \in Players
        BY <1>8 DEF RemoteGone, Named
    <2>2. clients_rx' \in Seq(ClientMessages)
        BY <1>6, <1>8, <2>1 DEF RemoteGone, ClientMessages
    <2>3. QED
        BY <1>0, <1>1, <1>8, <2>2
        DEF RemoteGone, ChannelsTypeOK, RemoteTypeOK
<1>9. CASE RecvStray(c)
    <2> DEFINE rest == Tail(to_server[c])
    <2>1. rest \in Seq(Frames) /\ AfterError(c, rest) \in Seq(Frames)
        <3>1. rest \in Seq(Frames)
            BY <1>9, HeadTail DEF RecvStray, Arrived, RemoteTypeOK
        <3>2. <<Frame("Eof")>> \in Seq(Frames)
            BY DEF Frame, Frames
        <3>3. QED
            BY <3>1, <3>2 DEF AfterError
    <2>2. to_server' \in {[to_server EXCEPT ![c] = rest],
                          [to_server EXCEPT ![c] = AfterError(c, rest)]}
        BY <1>9 DEF RecvStray
    <2>3. to_server' \in [Conns -> Seq(Frames)]
        BY <2>1, <2>2, Override DEF RemoteTypeOK
    <2>4. QED
        BY <1>0, <1>9, <2>3
        DEF RecvStray, channelVars, ChannelsTypeOK, RemoteTypeOK
<1>10. QED
    BY <1>2, <1>3, <1>4, <1>5, <1>7, <1>8, <1>9 DEF ClientStep, ClientTask

LEMMA RemoteTyped ==
    ASSUME TypeOK, NEW c \in Conns, Choose(c) \/ Stray(c) \/ Close(c)
    PROVE  TypeOK'
<1> USE DEF TypeOK
<1>0. ChannelsTypeOK' /\ ServerTypeOK' /\ HandshakeTypeOK'
    BY DEF Choose, Stray, Close, RemoteChoose, RemoteStray, RemoteClose,
           ChannelsTypeOK, ServerTypeOK, HandshakeTypeOK, channelVars,
           serverVars, handshakeVars
<1>1. CASE Choose(c)
    <2>1. PICK i \in Got(c, "Turn") :
            to_server' = [to_server EXCEPT ![c] =
                            Append(@, Choice(inbox[c][i].turn))]
        BY <1>1 DEF Choose, RemoteChoose
    <2>2. inbox[c][i] \in RemoteOutMessages
        BY ElementOfSeq DEF Got, RemoteTypeOK
    <2>3. Append(to_server[c], Choice(inbox[c][i].turn)) \in Seq(Frames)
        BY <2>2, AppendProperties
        DEF Choice, Frames, RemoteOutMessages, RemoteTypeOK
    <2>4. QED
        BY <1>0, <1>1, <2>1, <2>3 DEF Choose, RemoteChoose, RemoteTypeOK
<1>2. CASE Close(c)
    <2>1. PICK n \in 0..Len(to_server[c]) :
            to_server' = [to_server EXCEPT ![c] = SubSeq(@, 1, n)]
        BY <1>2 DEF Close, RemoteClose
    <2>2. SubSeq(to_server[c], 1, n) \in Seq(Frames)
        BY SubSeqProperties, LenProperties DEF RemoteTypeOK
    <2>3. QED
        BY <1>0, <1>2, <2>1, <2>2 DEF Close, RemoteClose, RemoteTypeOK
<1>3. CASE Stray(c)
    <2>1. PICK type \in {"Other", "Garbled"} :
            to_server' = [to_server EXCEPT ![c] = Append(@, Frame(type))]
        BY <1>3 DEF Stray, RemoteStray
    <2>2. Append(to_server[c], Frame(type)) \in Seq(Frames)
        BY AppendProperties DEF Frame, Frames, RemoteTypeOK
    <2>3. QED
        BY <1>0, <1>3, <2>1, <2>2 DEF Stray, RemoteStray, RemoteTypeOK
<1>4. QED
    BY <1>1, <1>2, <1>3

LEMMA NamedPreserved ==
    ASSUME TypeOK, Named, Next
    PROVE  Named'
<1>1. CASE ServerStep
    <2>1. UNCHANGED running
        BY <1>1 DEF ServerStep, ServerNext, AnswerFreePlayer, AnswerSession,
            Answer, Connect, IgnoreConnected, IgnoreReconnected, IgnoreNotice,
            ConnectTimeout, EndGame, StartTurn, PauseTurn, Reconnect,
            RecvDisconnect, IgnoreChoice, ApplyChoice, Stop, Drain, Shutdown,
            channelVars
    <2>2. QED
        BY <1>1, <2>1 DEF ServerStep, handshakeVars, Named
<1>2. ASSUME NEW c \in Conns, ClientStep(c)
      PROVE  Named'
    BY <1>2 DEF ClientStep, ClientTask, RecvTurn, ServerRxClosed,
        RecvBroadcast, SkipBroadcasts, RecvChoice, RecvStray, RemoteGone,
        EndTask, channelVars, handshakeVars, Named
<1>3. ASSUME NEW c \in Conns, HandshakeStep(c)
      PROVE  Named'
    <2>1. CASE Welcome(c)
        <3>1. Head(reply[c]) \in Players
            BY <2>1 DEF Welcome, TypeOK, ChannelsTypeOK, Answers
        <3>2. session'[c] \in Conns /\ player'[c] = Head(reply[c])
            BY <2>1 DEF Welcome, TypeOK, HandshakeTypeOK
        <3>3. \A d \in Conns \ {c} : /\ session'[d] = session[d]
                                     /\ player'[d] = player[d]
                                     /\ hs'[d] = hs[d]
            BY <2>1 DEF Welcome, TypeOK, HandshakeTypeOK
        <3>4. running' = running \cup {c} /\ hs'[c] = "spawned"
            BY <2>1 DEF Welcome, TypeOK, HandshakeTypeOK
        <3>5. QED
            BY <3>1, <3>2, <3>3, <3>4 DEF Named
    <2>2. CASE Reject(c) \/ WelcomeFails(c) \/ Notify(c)
        BY <2>2 DEF Reject, WelcomeFails, Notify, Named, TypeOK,
            HandshakeTypeOK
    <2>3. QED
        BY <1>3, <2>1, <2>2 DEF HandshakeStep, HandshakeTask
<1>4. ASSUME NEW c \in Conns, Open(c)
      PROVE  Named'
    <2>1. /\ UNCHANGED <<player, running>>
          /\ \/ hs' = [hs EXCEPT ![c] = "asked"]
                /\ \E s : session' = [session EXCEPT ![c] = s]
             \/ hs' = [hs EXCEPT ![c] = "done"] /\ session' = session
          /\ hs[c] = "new"
        BY <1>4 DEF Open, Request, Hello, AskReconnect, Ask, BadFirst,
            channelVars
    <2>2. QED
        BY <2>1 DEF Named, TypeOK, HandshakeTypeOK
<1>5. ASSUME NEW c \in Conns, Choose(c) \/ Stray(c) \/ Close(c)
      PROVE  Named'
    BY <1>5 DEF Choose, Stray, Close, RemoteChoose, RemoteStray, RemoteClose,
        channelVars, handshakeVars, Named
<1>6. QED
    BY <1>1, <1>2, <1>3, <1>4, <1>5 DEF Next

\* Every task keeps every channel and every variable of the server within
\* its type: no None is ever sent where the code unwraps a player.
THEOREM TypeCorrect == Spec => []TypeOK
<1>1. Init => TypeOK /\ Named
    BY InitTyped DEF Named, Init, ChannelsInit, HandshakeInit
<1>2. TypeOK /\ Named /\ [Next]_vars => TypeOK' /\ Named'
    <2> SUFFICES ASSUME TypeOK, Named, [Next]_vars PROVE TypeOK' /\ Named'
        OBVIOUS
    <2>1. CASE Next
        BY <2>1, ServerTyped, OpenTyped, HandshakeTyped, ClientTyped,
           RemoteTyped, NamedPreserved DEF Next
    <2>2. CASE UNCHANGED vars
        BY <2>2 DEF vars, TypeOK, Named, ChannelsTypeOK, ServerTypeOK,
            RemoteTypeOK, HandshakeTypeOK, channelVars, serverVars,
            remoteVars, handshakeVars
    <2>3. QED
        BY <2>1, <2>2
<1>3. QED
    BY <1>1, <1>2, PTL DEF Spec

=============================================================================
