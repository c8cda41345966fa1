----------------------------- MODULE SeatProofs -----------------------------
(***************************************************************************)
(* Who holds a seat: SeatOrAway and SeatOwner for any number of            *)
(* connections.  The inductive invariant follows the identity of a player  *)
(* from the Server's answer, through the handshake and the notice it puts  *)
(* on main_rx, to the seat.  The last section is about the handshake's     *)
(* question itself: it is asked and answered once (OneExchange).           *)
(***************************************************************************)
EXTENDS SessionProofs, FiniteSetTheorems

\* Before the match nobody has dropped off, and one seat at least is free.
BeforeMatch ==
    srv = "connect" => /\ disconnected = {}
                       /\ \E p \in Players : ~Seated(p)

\* The messages on main_rx.
Held == {main_rx[i] : i \in 1..Len(main_rx)}

\* A connection that has yet to speak has no message and no answer under way.
Fresh ==
    /\ \A m \in Held : hs[m.conn] # "new"
    /\ \A c \in Conns : hs[c] = "new" => reply[c] = <<>>

\* A request asks on behalf of the session its handshake waits for.
Requests ==
    \A m \in Held :
        /\ m.type = "RequestFreePlayer" /\ hs[m.conn] = "asked" =>
            session[m.conn] = NoConn
        /\ m.type = "ClientReconnectedHandle" /\ hs[m.conn] = "asked" =>
            session[m.conn] = m.session

\* A notice tells the truth about its connection.
Notices ==
    \A m \in Held :
        /\ m.type \in {"ClientConnected", "ClientReconnected"} =>
            /\ hs[m.conn] = "done"
            /\ player[m.conn] = m.player
            /\ session[m.conn] = m.session
        /\ m.type = "ClientConnected" => m.session = m.conn
        /\ m.type = "ClientReconnected" => sessions[m.session] = m.player

\* A connection that comes back is given the player of its session.
ComesBack ==
    \A c \in Conns :
        /\ hs[c] = "asked" =>
            /\ session[c] # c
            /\ session[c] # NoConn /\ reply[c] # <<>>
                 /\ reply[c] # <<NoPlayer>> =>
                    sessions[session[c]] = Head(reply[c])
        /\ hs[c] = "spawned" /\ session[c] # c =>
            sessions[session[c]] = player[c]

\* A registered session is the first connection of its player, whose seat
\* was taken as the session was registered.
Registered ==
    \A s \in Conns : sessions[s] # NoPlayer =>
        /\ hs[s] = "done" /\ player[s] = sessions[s]
        /\ srv = "connect" => Seated(sessions[s])

\* A seat is only given once the handshake of its connection is over.
Settled == \A p \in Players : Seated(p) => hs[clients_tx[p]] = "done"

----------------------------------------------------------------------------
\* SeatOrAway only depends on what the Server task does.

LEMMA SeatsServer ==
    ASSUME TypeOK, BeforeMatch, SeatOrAway, ServerStep
    PROVE  BeforeMatch' /\ SeatOrAway'
<1> USE PlayersAssumption, ChannelsAssumption
    DEF BeforeMatch, SeatOrAway, Seated, Players
<1>1. ASSUME UNCHANGED <<clients_tx, disconnected>>,
             srv' \in {srv, "stop", "drain", "done"}
             \/ (srv \in {"turn", "select"} /\ srv' \in {"turn", "select"})
      PROVE  BeforeMatch' /\ SeatOrAway'
    BY <1>1
<1>2. CASE \/ AnswerFreePlayer \/ AnswerSession \/ IgnoreConnected
           \/ IgnoreReconnected \/ ConnectTimeout \/ IgnoreChoice
           \/ PauseTurn \/ ApplyChoice \/ EndGame \/ Stop \/ Shutdown
    BY <1>1, <1>2 DEF AnswerFreePlayer, AnswerSession, Answer,
        IgnoreConnected, IgnoreReconnected, IgnoreNotice, ConnectTimeout,
        IgnoreChoice, ReadsClients, PauseTurn, ApplyChoice, EndGame, Stop,
        Shutdown, channelVars, serverVars
<1>3. CASE StartTurn
    BY <1>1, <1>3 DEF StartTurn, SendTurn
<1>4. CASE Drain
    BY <1>4 DEF Drain, serverVars
<1>5. CASE Connect
    <2> DEFINE m == Head(main_rx)
    <2>1. m.player \in Players /\ m.conn \in Conns
        BY <1>5, Heads, NoticeFields DEF Connect
    <2>2. /\ clients_tx[m.player] = NoConn
          /\ clients_tx' = [clients_tx EXCEPT ![m.player] = m.conn]
          /\ srv' = IF clients_tx[Opponent(m.player)] # NoConn
                    THEN "turn" ELSE "connect"
          /\ srv = "connect" /\ disconnected' = disconnected
        BY <1>5 DEF Connect
    <2>3. Opponent(m.player) \in Players /\ Opponent(m.player) # m.player
        BY <2>1 DEF Opponent
    <2>4. clients_tx'[m.player] # NoConn
          /\ clients_tx'[Opponent(m.player)] = clients_tx[Opponent(m.player)]
        BY <2>1, <2>2, <2>3 DEF TypeOK, ChannelsTypeOK
    <2>5. \A p \in Players : p = m.player \/ p = Opponent(m.player)
        BY <2>1 DEF Opponent
    <2>6. QED
        BY <2>2, <2>3, <2>4, <2>5
<1>6. CASE Reconnect
    <2> DEFINE m == Head(main_rx)
    <2>1. m.player \in Players /\ m.conn \in Conns
        BY <1>6, Heads, NoticeFields DEF Reconnect
    <2>2. /\ clients_tx' = [clients_tx EXCEPT ![m.player] = m.conn]
          /\ disconnected' = disconnected \ {m.player}
          /\ srv = "select" /\ srv' \in {"select", "stop"}
        BY <1>6 DEF Reconnect, SendTurn
    <2>3. QED
        BY <2>1, <2>2 DEF TypeOK, ChannelsTypeOK
<1>7. CASE RecvDisconnect
    <2> DEFINE m == Head(clients_rx)
    <2>1. m.player \in Players
        BY <1>7, Heads, RequestFields DEF RecvDisconnect, ReadsClients
    <2>2. /\ clients_tx' = [clients_tx EXCEPT ![m.player] = NoConn]
          /\ disconnected' = disconnected \cup {m.player}
          /\ srv = "select" /\ srv' = srv
        BY <1>7 DEF RecvDisconnect, ReadsClients
    <2>3. QED
        BY <2>1, <2>2 DEF TypeOK, ChannelsTypeOK
<1>8. QED
    BY <1>2, <1>3, <1>4, <1>5, <1>6, <1>7 DEF ServerStep, ServerNext

\* While the match is on, every player has a channel or is marked as one who
\* may come back, never both, never neither: whatever the clients do,
\* handle_turn never fails for want of a player, and nobody is locked out.
THEOREM SeatsKept == Spec => []SeatOrAway
<1>1. Init => BeforeMatch /\ SeatOrAway
    BY DEF Init, ChannelsInit, ServerInit, BeforeMatch, SeatOrAway, Seated,
        Players
<1>2. TypeOK /\ BeforeMatch /\ SeatOrAway /\ [Next]_vars
        => BeforeMatch' /\ SeatOrAway'
    <2> SUFFICES ASSUME TypeOK, BeforeMatch, SeatOrAway, [Next]_vars
                 PROVE  BeforeMatch' /\ SeatOrAway'
        OBVIOUS
    <2>1. CASE ServerStep
        BY <2>1, SeatsServer
    <2>2. CASE ~ServerStep
        <3>1. UNCHANGED <<srv, disconnected, clients_tx>>
            BY <2>2 DEF Next, vars, channelVars, serverVars, ClientStep,
                ClientTask, RecvTurn, ServerRxClosed, RecvBroadcast,
                SkipBroadcasts, RecvChoice, RecvStray, RemoteGone,
                HandshakeStep, HandshakeTask, Reject, Welcome, WelcomeFails,
                Notify, Open, Request, Hello, AskReconnect, Ask, BadFirst,
                Choose, RemoteChoose, Stray, RemoteStray, Close, RemoteClose
        <3>2. QED
            BY <3>1 DEF BeforeMatch, SeatOrAway, Seated
    <2>3. QED
        BY <2>1, <2>2
<1>3. QED
    BY <1>1, <1>2, TypeCorrect, PTL DEF Spec

LEMMA SeatVacated ==
    ASSUME TypeOK, SeatOrAway, [Next]_vars, NEW p \in Players, Seated(p)
    PROVE  clients_tx'[p] \in {clients_tx[p], NoConn}
<1> USE DEF Seated
<1>1. CASE Connect
    BY <1>1 DEF Connect, TypeOK, ChannelsTypeOK
<1>2. CASE Reconnect
    <2>1. p # Head(main_rx).player
        BY <1>2 DEF Reconnect, SeatOrAway
    <2>2. QED
        BY <1>2, <2>1 DEF Reconnect, TypeOK, ChannelsTypeOK
<1>3. CASE RecvDisconnect \/ Drain
    BY <1>3 DEF RecvDisconnect, Drain, TypeOK, ChannelsTypeOK
<1>4. CASE ServerStep /\ ~(Connect \/ Reconnect \/ RecvDisconnect \/ Drain)
    BY <1>4 DEF ServerStep, ServerNext, AnswerFreePlayer, AnswerSession,
        Answer, IgnoreConnected, IgnoreReconnected, IgnoreNotice,
        ConnectTimeout, EndGame, StartTurn, PauseTurn, IgnoreChoice,
        ApplyChoice, Stop, Shutdown, channelVars
<1>5. CASE ~ServerStep
    BY <1>5 DEF Next, vars, channelVars, serverVars, ClientStep, ClientTask,
        RecvTurn, ServerRxClosed, RecvBroadcast, SkipBroadcasts, RecvChoice,
        RecvStray, RemoteGone, HandshakeStep, HandshakeTask, Reject, Welcome,
        WelcomeFails, Notify, Open, Request, Hello, AskReconnect, Ask,
        BadFirst, Choose, RemoteChoose, Stray, RemoteStray, Close, RemoteClose
<1>6. QED
    BY <1>1, <1>2, <1>3, <1>4, <1>5 DEF ServerStep

\* No step gives a seat that is taken to another connection: a reconnection
\* takes effect only once the Server has read the Disconnect of the old one.
THEOREM SeatsPassEmpty == Spec => SeatsEmptyFirst
<1>1. TypeOK /\ SeatOrAway /\ [Next]_vars
        => [\A p \in Players :
                Seated(p) => clients_tx'[p] \in {clients_tx[p], NoConn}]_vars
    BY SeatVacated
<1>2. QED
    BY <1>1, TypeCorrect, SeatsKept, PTL DEF Spec, SeatsEmptyFirst

----------------------------------------------------------------------------
\* SeatOwner

LEMMA HeldTail ==
    ASSUME TypeOK, main_rx # <<>>, main_rx' = Tail(main_rx)
    PROVE  Held' \subseteq Held /\ Head(main_rx) \in Held
<1>1. main_rx \in Seq(MainThreadMessages)
    BY DEF TypeOK, ChannelsTypeOK
<1>2. /\ Len(Tail(main_rx)) = Len(main_rx) - 1
      /\ \A i \in 1..Len(Tail(main_rx)) : Tail(main_rx)[i] = main_rx[i + 1]
    BY <1>1, HeadTailProperties
<1>3. Len(main_rx) \in Nat \ {0} /\ Head(main_rx) = main_rx[1]
    BY <1>1, EmptySeq
<1>4. QED
    BY <1>2, <1>3 DEF Held

LEMMA HeldAppend ==
    ASSUME TypeOK, NEW m \in MainThreadMessages, main_rx' = Append(main_rx, m)
    PROVE  Held' \subseteq Held \cup {m}
<1>1. main_rx \in Seq(MainThreadMessages)
    BY DEF TypeOK, ChannelsTypeOK
<1>2. /\ Len(Append(main_rx, m)) = Len(main_rx) + 1
      /\ \A i \in 1..Len(main_rx) : Append(main_rx, m)[i] = main_rx[i]
      /\ Append(main_rx, m)[Len(main_rx) + 1] = m
    BY <1>1, AppendProperties
<1>3. Len(main_rx) \in Nat
    BY <1>1, LenProperties
<1>4. QED
    BY <1>2, <1>3 DEF Held

LEMMA HeldTyped == TypeOK => Held \subseteq MainThreadMessages
BY ElementOfSeq DEF TypeOK, ChannelsTypeOK, Held

\* The inductive invariant, beside TypeOK and Named.
Identity ==
    /\ Fresh /\ Requests /\ Notices /\ ComesBack /\ Registered
    /\ Settled
    /\ SeatOwner

LEMMA IdentityDropsMessage ==
    ASSUME TypeOK, Identity, Held' \subseteq Held,
           UNCHANGED <<clients_tx, sessions, reply, hs, session, player>>,
           srv' = "connect" => srv = "connect"
    PROVE  Identity'
<1> USE DEF Identity
<1>1. Fresh' /\ Requests' /\ Notices'
    BY DEF Fresh, Requests, Notices
<1>2. ComesBack' /\ Registered'
    BY DEF ComesBack, Registered, Seated
<1>3. SeatOwner' /\ Settled'
    BY DEF SeatOwner, Settled, Seated
<1>4. QED
    BY <1>1, <1>2, <1>3

\* The Server answers a handshake: the answer is that of the session.
LEMMA IdentityAnswer ==
    ASSUME TypeOK, Identity,
           AnswerFreePlayer \/ AnswerSession, UNCHANGED handshakeVars
    PROVE  Identity'
<1> DEFINE m == Head(main_rx)
<1>1. m \in Held /\ Held' \subseteq Held /\ m \in MainThreadMessages
    BY HeldTail, HeldTyped DEF AnswerFreePlayer, AnswerSession, ReadsMain, Answer
<1>2. m.conn \in Conns
    BY <1>1, NoticeFields
<1>3. UNCHANGED <<srv, clients_tx, sessions, hs, session, player>>
    BY DEF AnswerFreePlayer, AnswerSession, Answer, serverVars, handshakeVars
<1>4. PICK p \in Players \cup {NoPlayer} :
        /\ reply' = [reply EXCEPT ![m.conn] = <<p>>]
        /\ m.type = "ClientReconnectedHandle" => p = sessions[m.session]
        /\ m.type \in {"RequestFreePlayer", "ClientReconnectedHandle"}
    <2>1. CASE AnswerFreePlayer
        BY <2>1 DEF AnswerFreePlayer, Answer, FreePlayer, Players
    <2>2. CASE AnswerSession
        BY <2>2, <1>1, NoticeFields
        DEF AnswerSession, Answer, TypeOK, ServerTypeOK
    <2>3. QED
        BY <2>1, <2>2
<1>5. Fresh'
    BY <1>1, <1>2, <1>3, <1>4 DEF Identity, Fresh, TypeOK, ChannelsTypeOK
<1>6. Requests' /\ Notices'
    BY <1>1, <1>3 DEF Identity, Requests, Notices
<1>7. ComesBack'
    <2>1. ASSUME NEW c \in Conns, c # m.conn PROVE reply'[c] = reply[c]
        BY <1>2, <1>4, <2>1 DEF TypeOK, ChannelsTypeOK
    <2>2. reply'[m.conn] = <<p>> /\ Head(reply'[m.conn]) = p
        BY <1>2, <1>4 DEF TypeOK, ChannelsTypeOK
    <2>3. ASSUME hs[m.conn] = "asked", session[m.conn] # NoConn
          PROVE  p = sessions[session[m.conn]]
        BY <1>1, <1>4, <2>3 DEF Identity, Requests
    <2>4. QED
        BY <1>2, <1>3, <2>1, <2>2, <2>3 DEF Identity, ComesBack
<1>8. Registered' /\ SeatOwner' /\ Settled'
    BY <1>3 DEF Identity, Registered, SeatOwner, Settled, Seated
<1>9. QED
    BY <1>5, <1>6, <1>7, <1>8 DEF Identity

\* The seat is given and the session registered together.  No session of the
\* player was registered before, nor this session for anybody: its player
\* would be seated already.
LEMMA IdentityConnect ==
    ASSUME TypeOK, Named, Identity, Connect, UNCHANGED handshakeVars
    PROVE  Identity'
<1> DEFINE m == Head(main_rx)
<1> USE DEF Seated
<1>1. m \in Held /\ Held' \subseteq Held /\ m \in MainThreadMessages
    BY HeldTail, HeldTyped DEF Connect
<1>2. /\ m.player \in Players /\ m.conn \in Conns /\ m.session = m.conn
      /\ hs[m.conn] = "done" /\ player[m.conn] = m.player
      /\ session[m.conn] = m.session
    BY <1>1, NoticeFields DEF Identity, Notices, Connect
<1>3. /\ UNCHANGED <<reply, hs, session, player>>
      /\ clients_tx[m.player] = NoConn /\ srv = "connect"
    BY DEF Connect, handshakeVars
<1>4. \A p \in Players :
        clients_tx'[p] = IF p = m.player THEN m.conn ELSE clients_tx[p]
    BY DEF Connect, TypeOK, ChannelsTypeOK
<1>5. \A s \in Conns :
        sessions'[s] = IF s = m.session THEN m.player ELSE sessions[s]
    BY DEF Connect, TypeOK, ServerTypeOK
<1>6. \A s \in Conns : sessions[s] # m.player
    BY <1>2, <1>3, PlayersAssumption DEF Identity, Registered, Players
<1>7. sessions[m.session] = NoPlayer
    BY <1>2, <1>3, <1>6, PlayersAssumption DEF Identity, Registered, Players
<1>8. \A s \in Conns : sessions[s] # NoPlayer => sessions'[s] = sessions[s]
    BY <1>5, <1>7
<1>9. Fresh' /\ Requests'
    BY <1>1, <1>3 DEF Identity, Fresh, Requests
<1>10. Notices'
    <2>1. ASSUME NEW n \in Held', n.type = "ClientReconnected"
          PROVE  sessions'[n.session] = n.player
        <3>1. n \in Held /\ n.session \in Conns /\ n.player \in Players
            BY <1>1, <2>1, HeldTyped, NoticeFields
        <3>2. sessions[n.session] = n.player
            BY <2>1, <3>1 DEF Identity, Notices
        <3>3. QED
            BY <1>8, <3>1, <3>2, PlayersAssumption DEF Players
    <2>2. QED
        BY <1>1, <1>3, <2>1 DEF Identity, Notices
<1>11. ComesBack'
    <2>1. ASSUME NEW c \in Conns, hs[c] = "asked", session[c] # NoConn,
                 reply[c] # <<>>, reply[c] # <<NoPlayer>>
          PROVE  sessions'[session[c]] = Head(reply[c])
        <3>1. sessions[session[c]] = Head(reply[c]) /\ session[c] \in Conns
            BY <2>1 DEF Identity, ComesBack, TypeOK, HandshakeTypeOK
        <3>2. Head(reply[c]) # NoPlayer
            BY <2>1 DEF TypeOK, ChannelsTypeOK, Answers
        <3>3. QED
            BY <1>8, <3>1, <3>2
    <2>2. ASSUME NEW c \in Conns, hs[c] = "spawned", session[c] # c
          PROVE  sessions'[session[c]] = player[c]
        BY <1>8, <2>2, PlayersAssumption
        DEF Identity, ComesBack, Named, Players
    <2>3. QED
        BY <1>3, <2>1, <2>2 DEF Identity, ComesBack
<1>12. Registered'
    <2>1. ASSUME NEW s \in Conns, sessions'[s] # NoPlayer, s # m.session
          PROVE  /\ hs[s] = "done" /\ player[s] = sessions'[s]
                 /\ clients_tx'[sessions'[s]] # NoConn
        <3>1. sessions'[s] = sessions[s] /\ sessions[s] \in Players
            BY <1>5, <2>1 DEF TypeOK, ServerTypeOK
        <3>2. /\ hs[s] = "done" /\ player[s] = sessions[s]
              /\ clients_tx[sessions[s]] # NoConn
            BY <1>3, <2>1, <3>1 DEF Identity, Registered
        <3>3. QED
            BY <1>3, <1>4, <3>1, <3>2
    <2>2. /\ sessions'[m.session] = m.player
          /\ clients_tx'[m.player] # NoConn
        BY <1>2, <1>4, <1>5, ChannelsAssumption
    <2>3. QED
        BY <1>2, <1>3, <2>1, <2>2 DEF Registered
<1>13. SeatOwner'
    <2>1. \A s, t \in Conns :
            sessions'[s] = sessions'[t] /\ sessions'[s] # NoPlayer => s = t
        BY <1>5, <1>6 DEF Identity, SeatOwner
    <2>2. ASSUME NEW p \in Players, clients_tx'[p] # NoConn
          PROVE  LET c == clients_tx'[p] IN
                 /\ player'[c] = p
                 /\ session'[c] # NoConn /\ sessions'[session'[c]] = p
        <3>1. CASE p = m.player
            BY <1>2, <1>3, <1>4, <1>5, <3>1, ChannelsAssumption
        <3>2. CASE p # m.player
            <4>1. clients_tx'[p] = clients_tx[p] /\ clients_tx[p] \in Conns
                BY <1>4, <2>2, <3>2 DEF TypeOK, ChannelsTypeOK
            <4>2. /\ player[clients_tx[p]] = p
                  /\ session[clients_tx[p]] \in Conns
                  /\ sessions[session[clients_tx[p]]] = p
                BY <2>2, <4>1 DEF Identity, SeatOwner, TypeOK, HandshakeTypeOK
            <4>3. QED
                BY <1>3, <1>8, <4>1, <4>2, PlayersAssumption,
                   ChannelsAssumption DEF Players
        <3>3. QED
            BY <3>1, <3>2
    <2>3. QED
        BY <2>1, <2>2 DEF SeatOwner
<1>14. Settled'
    BY <1>2, <1>3, <1>4 DEF Identity, Settled
<1>15. QED
    BY <1>9, <1>10, <1>11, <1>12, <1>13, <1>14 DEF Identity

\* The seat goes to a connection of the session its notice names.
LEMMA IdentityReconnect ==
    ASSUME TypeOK, Identity, Reconnect, UNCHANGED handshakeVars
    PROVE  Identity'
<1> DEFINE m == Head(main_rx)
<1> USE DEF Seated
<1>1. m \in Held /\ Held' \subseteq Held /\ m \in MainThreadMessages
    BY HeldTail, HeldTyped DEF Reconnect
<1>2. /\ m.player \in Players /\ m.conn \in Conns /\ m.session \in Conns
      /\ hs[m.conn] = "done" /\ player[m.conn] = m.player
      /\ session[m.conn] = m.session /\ sessions[m.session] = m.player
    BY <1>1, NoticeFields DEF Identity, Notices, Reconnect
<1>3. UNCHANGED <<reply, hs, session, player, sessions>> /\ srv' # "connect"
    BY DEF Reconnect, SendTurn, handshakeVars
<1>4. \A p \in Players :
        clients_tx'[p] = IF p = m.player THEN m.conn ELSE clients_tx[p]
    BY DEF Reconnect, TypeOK, ChannelsTypeOK
<1>5. Fresh' /\ Requests' /\ Notices' /\ ComesBack' /\ Registered'
    BY <1>1, <1>3
    DEF Identity, Fresh, Requests, Notices, ComesBack, Registered
<1>6. SeatOwner' /\ Settled'
    BY <1>2, <1>3, <1>4, ChannelsAssumption DEF Identity, SeatOwner, Settled
<1>7. QED
    BY <1>5, <1>6 DEF Identity

\* Seats are only given up by a Disconnect.
LEMMA IdentityUnseat ==
    ASSUME TypeOK, Identity, RecvDisconnect \/ Drain, UNCHANGED handshakeVars
    PROVE  Identity'
<1> USE DEF Seated
<1>1. /\ UNCHANGED <<reply, hs, session, player, sessions, main_rx>>
      /\ srv' # "connect"
    BY DEF RecvDisconnect, ReadsClients, Drain, serverVars, handshakeVars
<1>2. \A p \in Players : clients_tx'[p] \in {clients_tx[p], NoConn}
    <2>1. \/ clients_tx' = clients_tx
          \/ clients_tx' = [clients_tx EXCEPT ![Head(clients_rx).player] = NoConn]
        BY DEF RecvDisconnect, Drain
    <2>2. QED
        BY <2>1 DEF TypeOK, ChannelsTypeOK
<1>3. Fresh' /\ Requests' /\ Notices' /\ ComesBack' /\ Registered'
    BY <1>1
    DEF Identity, Held, Fresh, Requests, Notices, ComesBack, Registered
<1>4. SeatOwner' /\ Settled'
    BY <1>1, <1>2 DEF Identity, SeatOwner, Settled
<1>5. QED
    BY <1>3, <1>4 DEF Identity

\* A handshake under way has no part in the sessions and the seats.
LEMMA SeatsUndisturbed ==
    ASSUME TypeOK, Identity, NEW c \in Conns, hs[c] # "done",
           UNCHANGED <<srv, clients_tx, sessions>>,
           \A d \in Conns \ {c} : /\ hs'[d] = hs[d]
                                  /\ session'[d] = session[d]
                                  /\ player'[d] = player[d]
    PROVE  Registered' /\ SeatOwner' /\ Settled'
<1> USE DEF Seated
<1>1. Registered'
    BY DEF Identity, Registered
<1>2. \A p \in Players : clients_tx[p] # NoConn =>
        clients_tx[p] \in Conns \ {c}
    BY DEF Identity, Settled, TypeOK, ChannelsTypeOK
<1>3. Settled'
    BY <1>2 DEF Identity, Settled
<1>4. SeatOwner'
    BY <1>2 DEF Identity, SeatOwner
<1>5. QED
    BY <1>1, <1>3, <1>4

LEMMA IdentityAsk ==
    ASSUME TypeOK, Identity, NEW c \in Conns, Open(c), ~BadFirst(c)
    PROVE  Identity'
<1>1. PICK type \in {"RequestFreePlayer", "ClientReconnectedHandle"},
           s \in Conns \cup {NoConn} :
        /\ Ask(c, type, s)
        /\ \/ type = "RequestFreePlayer" /\ s = NoConn
           \/ type = "ClientReconnectedHandle" /\ s \in Conns \ {c}
    BY DEF Open, Request, Hello, AskReconnect
<1> DEFINE m == [type |-> type, conn |-> c, player |-> NoPlayer,
                 session |-> s]
<1>2. m \in MainThreadMessages /\ s # c
    BY <1>1, ChannelsAssumption DEF MainThreadMessages
<1>3. Held' \subseteq Held \cup {m}
    BY <1>1, <1>2, HeldAppend DEF Ask
<1>4. /\ UNCHANGED <<srv, clients_tx, sessions, reply, player>>
      /\ hs[c] = "new" /\ hs'[c] = "asked" /\ session'[c] = s
      /\ \A d \in Conns \ {c} : hs'[d] = hs[d] /\ session'[d] = session[d]
    BY <1>1 DEF Ask, Open, serverVars, TypeOK, HandshakeTypeOK
<1>5. \A n \in Held : n.conn \in Conns /\ n.conn # c
    BY <1>4, HeldTyped, NoticeFields DEF Identity, Fresh
<1>6. Fresh' /\ Requests' /\ Notices'
    <2>1. Fresh'
        BY <1>3, <1>4, <1>5 DEF Identity, Fresh
    <2>2. Requests'
        BY <1>1, <1>3, <1>4, <1>5 DEF Identity, Requests
    <2>3. Notices'
        BY <1>1, <1>3, <1>4, <1>5 DEF Identity, Notices
    <2>4. QED
        BY <2>1, <2>2, <2>3
<1>7. ComesBack'
    BY <1>2, <1>4 DEF Identity, Fresh, ComesBack
<1>8. QED
    BY <1>4, <1>6, <1>7, SeatsUndisturbed DEF Identity

\* A connection dropped for its first message has never been heard of.
LEMMA IdentityBadFirst ==
    ASSUME TypeOK, Identity, NEW c \in Conns, BadFirst(c),
           UNCHANGED serverVars
    PROVE  Identity'
<1>1. /\ UNCHANGED <<srv, clients_tx, sessions, main_rx, reply, session,
                     player>>
      /\ hs[c] = "new" /\ hs'[c] = "done"
      /\ \A d \in Conns \ {c} : hs'[d] = hs[d]
    BY DEF BadFirst, channelVars, serverVars, TypeOK, HandshakeTypeOK
<1>2. \A n \in Held : n.conn \in Conns /\ n.conn # c
    BY <1>1, HeldTyped, NoticeFields DEF Identity, Fresh
<1>3. Held' = Held
    BY <1>1 DEF Held
<1>4. Fresh' /\ Requests' /\ Notices'
    BY <1>1, <1>2, <1>3 DEF Identity, Fresh, Requests, Notices
<1>5. ComesBack'
    BY <1>1 DEF Identity, ComesBack
<1>6. QED
    BY <1>1, <1>4, <1>5, SeatsUndisturbed DEF Identity

\* The handshake gives up: what it knew is of no more use.
LEMMA IdentityReject ==
    ASSUME TypeOK, Identity, NEW c \in Conns, Reject(c) \/ WelcomeFails(c),
           UNCHANGED serverVars
    PROVE  Identity'
<1>1. /\ UNCHANGED <<srv, clients_tx, sessions, main_rx, session, player>>
      /\ hs[c] = "asked" /\ hs'[c] = "done"
      /\ \A d \in Conns \ {c} : hs'[d] = hs[d] /\ reply'[d] = reply[d]
    BY DEF Reject, WelcomeFails, serverVars, TypeOK, HandshakeTypeOK,
        ChannelsTypeOK
<1>2. \A n \in Held : n.conn \in Conns
    BY HeldTyped, NoticeFields
<1>3. Held' = Held
    BY <1>1 DEF Held
<1>4. Fresh' /\ Requests' /\ Notices'
    BY <1>1, <1>2, <1>3 DEF Identity, Fresh, Requests, Notices
<1>5. ComesBack'
    BY <1>1 DEF Identity, ComesBack
<1>6. QED
    BY <1>1, <1>4, <1>5, SeatsUndisturbed DEF Identity

\* The answer becomes the player of the connection.
LEMMA IdentityWelcome ==
    ASSUME TypeOK, Identity, NEW c \in Conns, Welcome(c), UNCHANGED serverVars
    PROVE  Identity'
<1>1. /\ UNCHANGED <<srv, clients_tx, sessions, main_rx>>
      /\ hs[c] = "asked" /\ hs'[c] = "spawned"
      /\ player'[c] = Head(reply[c])
      /\ session'[c] = IF session[c] = NoConn THEN c ELSE session[c]
    BY DEF Welcome, serverVars, TypeOK, HandshakeTypeOK
<1>2. \A d \in Conns \ {c} : /\ hs'[d] = hs[d] /\ reply'[d] = reply[d]
                             /\ session'[d] = session[d]
                             /\ player'[d] = player[d]
    BY DEF Welcome, TypeOK, HandshakeTypeOK, ChannelsTypeOK
<1>3. \A n \in Held : n.conn \in Conns
    BY HeldTyped, NoticeFields
<1>4. Held' = Held
    BY <1>1 DEF Held
<1>5. Fresh' /\ Requests' /\ Notices'
    BY <1>1, <1>2, <1>3, <1>4 DEF Identity, Fresh, Requests, Notices
<1>6. session[c] # NoConn => sessions[session[c]] = Head(reply[c])
    BY <1>1 DEF Welcome, Identity, ComesBack
<1>7. ComesBack'
    BY <1>1, <1>2, <1>6 DEF Identity, ComesBack
<1>8. QED
    BY <1>1, <1>2, <1>5, <1>7, SeatsUndisturbed DEF Identity

\* The notice carries the player and the session of the connection.
LEMMA IdentityNotify ==
    ASSUME TypeOK, Named, Identity, NEW c \in Conns, Notify(c),
           UNCHANGED serverVars
    PROVE  Identity'
<1> DEFINE m == [type |-> IF session[c] = c THEN "ClientConnected"
                          ELSE "ClientReconnected",
                 conn |-> c, player |-> player[c], session |-> session[c]]
<1>1. m \in MainThreadMessages
    BY DEF Notify, Named, MainThreadMessages
<1>2. Held' \subseteq Held \cup {m}
    BY <1>1, HeldAppend DEF Notify
<1>3. /\ UNCHANGED <<srv, clients_tx, sessions, reply, session, player>>
      /\ hs[c] = "spawned" /\ hs'[c] = "done"
      /\ \A d \in Conns \ {c} : hs'[d] = hs[d]
    BY DEF Notify, serverVars, TypeOK, HandshakeTypeOK
<1>4. \A n \in Held : n.conn \in Conns
    BY HeldTyped, NoticeFields
<1>5. Fresh' /\ Requests'
    BY <1>2, <1>3, <1>4 DEF Identity, Fresh, Requests
<1>6. Notices'
    <2>1. session[c] # c => sessions[session[c]] = player[c]
        BY <1>3 DEF Identity, ComesBack
    <2>2. QED
        BY <1>2, <1>3, <1>4, <2>1 DEF Identity, Notices
<1>7. ComesBack'
    BY <1>3 DEF Identity, ComesBack
<1>8. QED
    BY <1>3, <1>5, <1>6, <1>7, SeatsUndisturbed DEF Identity

LEMMA IdentityPreserved ==
    ASSUME TypeOK, Named, Identity, [Next]_vars
    PROVE  Identity'
<1>1. CASE ServerStep
    <2>1. CASE AnswerFreePlayer \/ AnswerSession
        BY <1>1, <2>1, IdentityAnswer DEF ServerStep
    <2>2. CASE IgnoreConnected \/ IgnoreReconnected
        BY <1>1, <2>2, HeldTail, IdentityDropsMessage
        DEF ServerStep, IgnoreConnected, IgnoreReconnected, ReadsMain,
            IgnoreNotice, serverVars, handshakeVars
    <2>3. CASE Connect
        BY <1>1, <2>3, IdentityConnect DEF ServerStep
    <2>4. CASE Reconnect
        BY <1>1, <2>4, IdentityReconnect DEF ServerStep
    <2>5. CASE RecvDisconnect \/ Drain
        BY <1>1, <2>5, IdentityUnseat DEF ServerStep
    <2>6. CASE \/ ConnectTimeout \/ EndGame \/ StartTurn \/ PauseTurn
               \/ IgnoreChoice \/ ApplyChoice \/ Stop \/ Shutdown
        <3>1. /\ UNCHANGED <<clients_tx, sessions, reply, hs, session,
                             player, main_rx>>
              /\ srv' = "connect" => srv = "connect"
            BY <1>1, <2>6 DEF ServerStep, ConnectTimeout, EndGame, StartTurn,
                SendTurn, PauseTurn, IgnoreChoice, ReadsClients, ApplyChoice,
                Stop, Shutdown, channelVars, serverVars, handshakeVars
        <3>2. Held' = Held
            BY <3>1 DEF Held
        <3>3. QED
            BY <3>1, <3>2, IdentityDropsMessage
    <2>7. QED
        BY <1>1, <2>1, <2>2, <2>3, <2>4, <2>5, <2>6 DEF ServerStep, ServerNext
<1>2. ASSUME NEW c \in Conns, HandshakeStep(c)
      PROVE  Identity'
    BY <1>2, IdentityReject, IdentityWelcome, IdentityNotify
    DEF HandshakeStep, HandshakeTask
<1>3. ASSUME NEW c \in Conns, Open(c)
      PROVE  Identity'
    BY <1>3, IdentityAsk, IdentityBadFirst DEF Open
<1>4. CASE \/ \E c \in Conns :
                ClientStep(c) \/ Choose(c) \/ Stray(c) \/ Close(c)
           \/ UNCHANGED vars
    <2>1. UNCHANGED <<srv, clients_tx, sessions, reply, hs, session, player,
                      main_rx>>
        BY <1>4 DEF vars, channelVars, serverVars, handshakeVars, ClientStep,
            ClientTask, RecvTurn, ServerRxClosed, RecvBroadcast,
            SkipBroadcasts, RecvChoice, RecvStray, RemoteGone, Choose,
            RemoteChoose, Stray, RemoteStray, Close, RemoteClose
    <2>2. Held' = Held
        BY <2>1 DEF Held
    <2>3. QED
        BY <2>1, <2>2, IdentityDropsMessage
<1>5. QED
    BY <1>1, <1>2, <1>3, <1>4 DEF Next

LEMMA IdentityKept == Spec => [](Named /\ Identity)
<1>1. Init => Named /\ Identity
    <2> SUFFICES ASSUME Init PROVE Named /\ Identity
        OBVIOUS
    <2>1. Held = {}
        BY DEF Init, ChannelsInit, Held
    <2>2. QED
        BY <2>1 DEF Init, ChannelsInit, HandshakeInit, ServerInit, Named,
            Identity, Fresh, Requests, Notices, ComesBack, Registered,
            Settled, SeatOwner, Seated
<1>2. TypeOK /\ Named /\ Identity /\ [Next]_vars => Named' /\ Identity'
    <2>1. ASSUME Named, UNCHANGED vars PROVE Named'
        BY <2>1 DEF Named, vars, channelVars, handshakeVars
    <2>2. QED
        BY <2>1, NamedPreserved, IdentityPreserved
<1>3. QED
    BY <1>1, <1>2, TypeCorrect, PTL DEF Spec

\* A player has one session for good, and its seat is held by a connection of
\* that session: with any number of connections in any handshake race, nobody
\* is given a seat, or a player, that belongs to somebody else.
THEOREM SeatsOwned == Spec => []SeatOwner
<1>1. Identity => SeatOwner
    BY DEF Identity
<1>2. QED
    BY <1>1, IdentityKept, PTL

----------------------------------------------------------------------------
\* OneExchange

\* The places on main_rx of the requests of c.
Asks(m, c) ==
    m.conn = c /\ m.type \in {"RequestFreePlayer", "ClientReconnectedHandle"}

Pending(c) == {i \in 1..Len(main_rx) : Asks(main_rx[i], c)}

\* The inductive form of OneExchange: not how many, but which.
Exchanges ==
    \A c \in Conns :
        \/ hs[c] # "asked" /\ reply[c] = <<>> /\ Pending(c) = {}
        \/ hs[c] = "asked" /\ reply[c] = <<>> /\ \E i : Pending(c) = {i}
        \/ hs[c] = "asked" /\ reply[c] # <<>> /\ Pending(c) = {}

LEMMA PendingAppend ==
    ASSUME TypeOK, NEW m \in MainThreadMessages, main_rx' = Append(main_rx, m),
           NEW c \in Conns
    PROVE  Pending(c)' = Pending(c) \cup
                IF Asks(m, c) THEN {Len(main_rx) + 1} ELSE {}
<1>1. /\ Len(main_rx') = Len(main_rx) + 1 /\ Len(main_rx) \in Nat
      /\ main_rx'[Len(main_rx) + 1] = m
      /\ \A i \in 1..Len(main_rx) : main_rx'[i] = main_rx[i]
    BY AppendProperties, LenProperties DEF TypeOK, ChannelsTypeOK
<1>2. \A i : i \in Pending(c)' <=>
        \/ i \in Pending(c)
        \/ i = Len(main_rx) + 1 /\ Asks(m, c)
    BY <1>1 DEF Pending, Asks
<1>3. QED
    BY <1>2

LEMMA PendingTail ==
    ASSUME TypeOK, main_rx # <<>>, main_rx' = Tail(main_rx), NEW c \in Conns
    PROVE  /\ 1 \in Pending(c) <=> Asks(Head(main_rx), c)
           /\ \A i : Pending(c) = {i} =>
                Pending(c)' = IF i = 1 THEN {} ELSE {i - 1}
           /\ Pending(c) = {} => Pending(c)' = {}
<1>1. /\ Len(main_rx) \in Nat \ {0} /\ Head(main_rx) = main_rx[1]
      /\ Len(main_rx') = Len(main_rx) - 1
      /\ \A i \in 1..Len(main_rx') : main_rx'[i] = main_rx[i + 1]
    BY HeadTailProperties, EmptySeq DEF TypeOK, ChannelsTypeOK
<1>2. \A i \in Int : i \in Pending(c)' <=> i >= 1 /\ i + 1 \in Pending(c)
    BY <1>1 DEF Pending, Asks
<1>3. Pending(c) \subseteq 1..Len(main_rx) /\ Pending(c)' \subseteq Int
    BY <1>1 DEF Pending
<1>4. ASSUME NEW i, Pending(c) = {i}
      PROVE  Pending(c)' = IF i = 1 THEN {} ELSE {i - 1}
    <2>1. i \in Int /\ i >= 1
        BY <1>1, <1>3, <1>4
    <2>2. \A j \in Int : j \in Pending(c)' <=> j >= 1 /\ j + 1 = i
        BY <1>2, <1>4
    <2>3. QED
        BY <1>3, <2>1, <2>2
<1>5. Pending(c) = {} => Pending(c)' = {}
    BY <1>2, <1>3
<1>6. 1 \in Pending(c) <=> Asks(Head(main_rx), c)
    BY <1>1 DEF Pending
<1>7. QED
    BY <1>4, <1>5, <1>6

\* The Server answers the request at the head of main_rx, or passes over a
\* notice.
LEMMA ExchangesRead ==
    ASSUME TypeOK, Exchanges, ServerStep, main_rx' # main_rx
    PROVE  Exchanges'
<1> DEFINE m == Head(main_rx)
<1>1. CASE AnswerFreePlayer \/ AnswerSession
    <2>1. PICK p : /\ reply' = [reply EXCEPT ![m.conn] = <<p>>]
                   /\ main_rx # <<>> /\ main_rx' = Tail(main_rx)
                   /\ m.type \in {"RequestFreePlayer",
                                  "ClientReconnectedHandle"}
        BY <1>1 DEF AnswerFreePlayer, AnswerSession, Answer, ReadsMain
    <2>2. UNCHANGED hs
        BY DEF ServerStep, handshakeVars
    <2> SUFFICES ASSUME NEW c \in Conns
                 PROVE  \/ /\ hs[c] # "asked" /\ reply'[c] = <<>>
                           /\ Pending(c)' = {}
                        \/ /\ hs[c] = "asked" /\ reply'[c] = <<>>
                           /\ \E i : Pending(c)' = {i}
                        \/ /\ hs[c] = "asked" /\ reply'[c] # <<>>
                           /\ Pending(c)' = {}
        BY <2>2 DEF Exchanges, Pending, Asks
    <2>3. CASE m.conn = c
        <3>1. 1 \in Pending(c)
            BY <2>1, <2>3, PendingTail DEF Asks
        <3>2. hs[c] = "asked" /\ Pending(c) = {1}
            BY <3>1 DEF Exchanges
        <3>3. Pending(c)' = {} /\ reply'[c] # <<>>
            BY <2>1, <2>3, <3>2, PendingTail DEF TypeOK, ChannelsTypeOK
        <3>4. QED
            BY <3>2, <3>3
    <2>4. CASE m.conn # c
        <3>1. 1 \notin Pending(c) /\ reply'[c] = reply[c]
            BY <2>1, <2>4, PendingTail DEF Asks, TypeOK, ChannelsTypeOK
        <3>2. \A i : Pending(c) = {i} => Pending(c)' = {i - 1}
            BY <2>1, <3>1, PendingTail
        <3>3. Pending(c) = {} => Pending(c)' = {}
            BY <2>1, PendingTail
        <3>4. QED
            BY <3>1, <3>2, <3>3 DEF Exchanges
    <2>5. QED
        BY <2>3, <2>4
<1>2. CASE Connect \/ IgnoreConnected \/ Reconnect \/ IgnoreReconnected
    <2>1. /\ main_rx # <<>> /\ main_rx' = Tail(main_rx)
          /\ m.type \in {"ClientConnected", "ClientReconnected"}
          /\ UNCHANGED <<reply, hs>>
        BY <1>2 DEF Connect, IgnoreConnected, Reconnect, IgnoreReconnected,
            IgnoreNotice, ReadsMain, ServerStep, handshakeVars
    <2>2. ASSUME NEW c \in Conns
          PROVE  /\ Pending(c) = {} => Pending(c)' = {}
                 /\ \A i : Pending(c) = {i} => Pending(c)' = {i - 1}
        <3>1. 1 \notin Pending(c)
            BY <2>1, PendingTail DEF Asks
        <3>2. QED
            BY <2>1, <3>1, PendingTail
    <2>3. QED
        BY <2>1, <2>2 DEF Exchanges
<1>3. QED
    BY <1>1, <1>2 DEF ServerStep, ServerNext, ConnectTimeout, EndGame,
        StartTurn, PauseTurn, RecvDisconnect, IgnoreChoice, ApplyChoice, Stop,
        Drain, Shutdown, channelVars

\* A handshake puts one message on main_rx.
LEMMA ExchangesWrite ==
    ASSUME TypeOK, TypeOK', Exchanges, NEW c \in Conns,
           Open(c) \/ Notify(c), ~BadFirst(c)
    PROVE  Exchanges'
<1>1. PICK m : /\ main_rx' = Append(main_rx, m) /\ UNCHANGED reply
               /\ \/ /\ Asks(m, c) /\ hs[c] = "new" /\ hs'[c] = "asked"
                  \/ /\ m.type \in {"ClientConnected", "ClientReconnected"}
                     /\ hs[c] = "spawned" /\ hs'[c] = "done"
               /\ m.conn = c
               /\ \A d \in Conns \ {c} : hs'[d] = hs[d]
    <2>1. CASE Open(c)
        <3>1. PICK type, s :
                /\ type \in {"RequestFreePlayer", "ClientReconnectedHandle"}
                /\ Ask(c, type, s)
            BY <2>1 DEF Open, Request, Hello, AskReconnect
        <3>2. QED
            BY <3>1 DEF Ask, Asks, TypeOK, HandshakeTypeOK
    <2>2. CASE Notify(c)
        BY <2>2 DEF Notify, TypeOK, HandshakeTypeOK
    <2>3. QED
        BY <2>1, <2>2
<1>2. m \in MainThreadMessages
    <2>1. main_rx \in Seq(MainThreadMessages \cup {m})
          /\ m \in MainThreadMessages \cup {m}
          /\ main_rx' \in Seq(MainThreadMessages)
        BY DEF TypeOK, ChannelsTypeOK
    <2>2. Len(main_rx) + 1 \in 1..Len(main_rx')
          /\ main_rx'[Len(main_rx) + 1] = m
        BY <1>1, <2>1, AppendProperties, LenProperties
    <2>3. QED
        BY <2>1, <2>2, ElementOfSeq
<1>3. ASSUME NEW d \in Conns
      PROVE  Pending(d)' = Pending(d) \cup
                IF Asks(m, d) THEN {Len(main_rx) + 1} ELSE {}
    BY <1>1, <1>2, PendingAppend
<1>4. \A d \in Conns \ {c} : Pending(d)' = Pending(d)
    BY <1>1, <1>3 DEF Asks
<1>5. hs[c] = "new" => \E i : Pending(c)' = {i}
    BY <1>1, <1>3 DEF Exchanges
<1>6. hs[c] = "spawned" => Pending(c)' = {} /\ reply[c] = <<>>
    BY <1>1, <1>3 DEF Exchanges, Asks
<1>7. QED
    BY <1>1, <1>4, <1>5, <1>6 DEF Exchanges

LEMMA ExchangesStep ==
    ASSUME TypeOK, TypeOK', Exchanges, [Next]_vars
    PROVE  Exchanges'
<1>1. ASSUME main_rx' = main_rx, UNCHANGED <<reply, hs>>
      PROVE  Exchanges'
    BY <1>1 DEF Exchanges, Pending, Asks
<1>2. CASE ServerStep
    <2>1. CASE main_rx' = main_rx
        <3>1. UNCHANGED <<reply, hs>>
            <4>1. ~AnswerFreePlayer /\ ~AnswerSession
                <5>1. main_rx # <<>> => Tail(main_rx) # main_rx
                    BY HeadTailProperties, EmptySeq DEF TypeOK, ChannelsTypeOK
                <5>2. QED
                    BY <2>1, <5>1
                    DEF AnswerFreePlayer, AnswerSession, Answer, ReadsMain
            <4>2. QED
                BY <1>2, <4>1 DEF ServerStep, ServerNext, Connect,
                    IgnoreConnected, IgnoreReconnected, IgnoreNotice,
                    ConnectTimeout, EndGame, StartTurn, PauseTurn, Reconnect,
                    RecvDisconnect, IgnoreChoice, ApplyChoice, Stop, Drain,
                    Shutdown, channelVars, handshakeVars
        <3>2. QED
            BY <1>1, <2>1, <3>1
    <2>2. CASE main_rx' # main_rx
        BY <1>2, <2>2, ExchangesRead
    <2>3. QED
        BY <2>1, <2>2
<1>3. ASSUME NEW c \in Conns, (Open(c) \/ Notify(c)) /\ ~BadFirst(c)
      PROVE  Exchanges'
    BY <1>3, ExchangesWrite
<1>4. ASSUME NEW c \in Conns, BadFirst(c) \/ Reject(c) \/ Welcome(c)
                                \/ WelcomeFails(c)
      PROVE  Exchanges'
    <2>1. /\ UNCHANGED main_rx
          /\ \A d \in Conns \ {c} : hs'[d] = hs[d] /\ reply'[d] = reply[d]
          /\ \/ hs[c] = "new" /\ reply'[c] = reply[c]
             \/ hs[c] = "asked" /\ reply[c] # <<>> /\ reply'[c] = <<>>
          /\ hs'[c] \in {"spawned", "done"}
        <3>1. CASE BadFirst(c)
            BY <3>1 DEF BadFirst, channelVars, TypeOK, HandshakeTypeOK
        <3>2. CASE Reject(c)
            BY <3>2 DEF Reject, TypeOK, HandshakeTypeOK, ChannelsTypeOK
        <3>3. CASE Welcome(c) \/ WelcomeFails(c)
            BY <3>3 DEF Welcome, WelcomeFails, TypeOK, HandshakeTypeOK,
                ChannelsTypeOK
        <3>4. QED
            BY <1>4, <3>1, <3>2, <3>3
    <2>2. \A d \in Conns : Pending(d)' = Pending(d)
        BY <2>1 DEF Pending, Asks
    <2>3. QED
        BY <2>1, <2>2 DEF Exchanges
<1>5. CASE \/ \E c \in Conns :
                ClientStep(c) \/ Choose(c) \/ Stray(c) \/ Close(c)
           \/ UNCHANGED vars
    BY <1>1, <1>5 DEF vars, channelVars, handshakeVars, ClientStep,
        ClientTask, RecvTurn, ServerRxClosed, RecvBroadcast, SkipBroadcasts,
        RecvChoice, RecvStray, RemoteGone, Choose, RemoteChoose, Stray,
        RemoteStray, Close, RemoteClose
<1>6. QED
    BY <1>2, <1>3, <1>4, <1>5 DEF Next, HandshakeStep, HandshakeTask, Open,
        Request, Hello, AskReconnect, Ask, BadFirst

\* A handshake that waits has its request in main_rx, once, or its answer,
\* and no other has either: the oneshot of a request is used, and only once.
THEOREM AskedOnce == Spec => []OneExchange
<1>1. Init => Exchanges
    BY DEF Init, ChannelsInit, HandshakeInit, Exchanges, Pending
<1>2. TypeOK /\ TypeOK' /\ Exchanges /\ [Next]_vars => Exchanges'
    BY ExchangesStep
<1>3. TypeOK /\ Exchanges => OneExchange
    <2> SUFFICES ASSUME TypeOK, Exchanges, NEW c \in Conns
                 PROVE  Cardinality(Pending(c)) + Len(reply[c])
                            = IF hs[c] = "asked" THEN 1 ELSE 0
        BY DEF OneExchange, Pending, Asks
    <2>1. \/ reply[c] = <<>> /\ Len(reply[c]) = 0
          \/ reply[c] # <<>> /\ Len(reply[c]) = 1
        <3>1. reply[c] \in Answers
            BY DEF TypeOK, ChannelsTypeOK
        <3>2. CASE reply[c] = <<>>
            BY <3>2
        <3>3. ASSUME NEW p, reply[c] = <<p>>
              PROVE  reply[c] # <<>> /\ Len(reply[c]) = 1
            BY <3>3
        <3>4. QED
            BY <3>1, <3>2, <3>3 DEF Answers
    <2>2. Pending(c) = {} => Cardinality(Pending(c)) = 0
        BY FS_EmptySet
    <2>3. /\ Len(reply[c]) \in {0, 1}
          /\ \/ hs[c] # "asked" /\ Len(reply[c]) = 0 /\ Pending(c) = {}
             \/ /\ hs[c] = "asked" /\ Len(reply[c]) = 0
                /\ \E i : Pending(c) = {i}
             \/ hs[c] = "asked" /\ Len(reply[c]) = 1 /\ Pending(c) = {}
        BY <2>1 DEF Exchanges
    <2>4. CASE hs[c] # "asked"
        BY <2>2, <2>3, <2>4
    <2>5. CASE hs[c] = "asked" /\ Len(reply[c]) = 0
        <3>1. \E i : Pending(c) = {i}
            <4>1. reply[c] = <<>>
                BY <2>1, <2>5
            <4>2. QED
                BY <2>5, <4>1, Zenon DEF Exchanges
        <3>2. PICK i : Pending(c) = {i}
            BY <3>1, Zenon
        <3>3. Cardinality({i}) = 1
            BY FS_Singleton, Zenon
        <3>4. QED
            BY <2>5, <3>2, <3>3
    <2>6. CASE hs[c] = "asked" /\ Len(reply[c]) = 1
        BY <2>2, <2>3, <2>6
    <2>7. QED
        BY <2>3, <2>4, <2>5, <2>6
<1>4. QED
    BY <1>1, <1>2, <1>3, TypeCorrect, PTL DEF Spec

=============================================================================
