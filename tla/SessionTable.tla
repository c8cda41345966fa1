---------------------------- MODULE SessionTable ----------------------------
(***************************************************************************)
(* The server process implements the table of Table.tla, for any number of *)
(* connections and turns; so what TableProofs proves of a table holds of   *)
(* the broadcasts of the server.                                           *)
(***************************************************************************)
EXTENDS SeatProofs

NoResult ==
    \A i \in 1..Len(broadcast) : broadcast[i].type # "GameFinished"

\* A result is told only as the match ends, and a turn is played only before.
Ongoing ==
    /\ srv \in {"connect", "turn", "select"} => NoResult
    /\ srv = "select" => ~GameOver

Members == {p \in Players : \E s \in Conns : sessions[s] = p}

LEMMA AppendLast ==
    ASSUME TypeOK, NEW m \in ServerBroadcasts, broadcast' = Append(broadcast, m)
    PROVE  /\ Len(broadcast') = Len(broadcast) + 1 /\ Len(broadcast) \in Nat
           /\ broadcast'[Len(broadcast) + 1] = m
           /\ \A i \in 1..Len(broadcast) : broadcast'[i] = broadcast[i]
BY AppendProperties, LenProperties DEF TypeOK, ChannelsTypeOK

LEMMA OngoingInit == Init => Ongoing
BY DEF Init, ChannelsInit, ServerInit, Ongoing, NoResult

\* What a step that is not one of the Server leaves alone.
LEMMA OthersLeaveTable ==
    ASSUME [Next]_vars, ~ServerStep
    PROVE  UNCHANGED <<srv, sessions, status, broadcast>>
BY DEF Next, vars, channelVars, serverVars, ClientStep, ClientTask, RecvTurn,
    ServerRxClosed, RecvBroadcast, SkipBroadcasts, RecvChoice, RecvStray,
    RemoteGone, HandshakeStep, HandshakeTask, Reject, Welcome, WelcomeFails,
    Notify, Open, Request, Hello, AskReconnect, Ask, BadFirst, Choose,
    RemoteChoose, Stray, RemoteStray, Close, RemoteClose

LEMMA OngoingStep ==
    ASSUME TypeOK, Ongoing, [Next]_vars
    PROVE  Ongoing'
<1> USE DEF Ongoing, NoResult, GameOver, Playing
<1>1. CASE ApplyChoice
    <2> DEFINE m == [type |-> "Movement", player |-> Head(clients_rx).player,
                     turn |-> status.turns]
    <2>1. m \in ServerBroadcasts /\ broadcast' = Append(broadcast, m)
          /\ srv = "select" /\ srv' = "turn"
        BY <1>1, Heads, RequestFields
        DEF ApplyChoice, ReadsClients, ServerBroadcasts, TypeOK, ServerTypeOK,
            Statuses
    <2>2. QED
        BY <2>1, AppendLast
<1>2. CASE EndGame \/ Stop
    BY <1>2 DEF EndGame, Stop
<1>3. CASE StartTurn \/ PauseTurn \/ Reconnect
    BY <1>3 DEF StartTurn, PauseTurn, Reconnect, SendTurn, channelVars
<1>4. CASE /\ ServerStep
           /\ ~(\/ ApplyChoice \/ EndGame \/ Stop
                \/ StartTurn \/ PauseTurn \/ Reconnect)
    BY <1>4 DEF ServerStep, ServerNext, AnswerFreePlayer, AnswerSession,
        Answer, Connect, IgnoreConnected, IgnoreReconnected, IgnoreNotice,
        ConnectTimeout, RecvDisconnect, IgnoreChoice, ReadsClients, Drain,
        Shutdown, channelVars, serverVars
<1>5. CASE ~ServerStep
    BY <1>5, OthersLeaveTable
<1>6. QED
    BY <1>1, <1>2, <1>3, <1>4, <1>5

----------------------------------------------------------------------------
\* The steps of the table.

LEMMA RegisterStep ==
    ASSUME TypeOK, Named, Identity, Connect
    PROVE  Table!Register
<1> DEFINE m == Head(main_rx)
<1>1. /\ m \in Held /\ m \in MainThreadMessages
      /\ m.player \in Players /\ m.conn \in Conns /\ m.session \in Conns
    BY HeldTail, HeldTyped, NoticeFields DEF Connect
<1>2. m.session = m.conn /\ player[m.conn] = m.player
    BY <1>1 DEF Identity, Notices, Connect
<1>3. srv = "connect" /\ ~Seated(m.player)
    BY DEF Connect
<1>4. \A s \in Conns : sessions[s] # m.player
    BY <1>1, <1>3, PlayersAssumption DEF Identity, Registered, Players
<1>5. sessions[m.session] = NoPlayer
    BY <1>1, <1>2, <1>4, PlayersAssumption
    DEF Identity, Registered, Players
<1>6. Members' = Members \cup {m.player}
    <2>1. \A s \in Conns :
            sessions'[s] = IF s = m.session THEN m.player ELSE sessions[s]
        BY <1>1 DEF Connect, TypeOK, ServerTypeOK
    <2>2. QED
        BY <1>1, <1>5, <2>1, PlayersAssumption DEF Members, Players
<1>7. Opponent(m.player) \in Members <=> Seated(Opponent(m.player))
    <2>1. Opponent(m.player) \in Players /\ NoPlayer \notin Players
        BY PlayersAssumption DEF Opponent, Players
    <2>2. ASSUME Opponent(m.player) \in Members
          PROVE  Seated(Opponent(m.player))
        BY <1>3, <2>1, <2>2 DEF Members, Identity, Registered
    <2>3. ASSUME Seated(Opponent(m.player))
          PROVE  Opponent(m.player) \in Members
        <3> DEFINE c == clients_tx[Opponent(m.player)]
        <3>1. c \in Conns /\ session[c] \in Conns
              /\ sessions[session[c]] = Opponent(m.player)
            BY <2>1, <2>3
            DEF Seated, Identity, SeatOwner, TypeOK, ChannelsTypeOK,
                HandshakeTypeOK
        <3>2. QED
            BY <2>1, <3>1 DEF Members
    <2>4. QED
        BY <2>2, <2>3
<1>8. /\ Phase = "gathering"
      /\ Phase' = IF Seated(Opponent(m.player)) THEN "playing" ELSE "gathering"
      /\ UNCHANGED <<status, broadcast>>
    BY <1>3 DEF Connect, Phase
<1>9. /\ m.player \in Players \ Members
      /\ Table!Opponent(m.player) = Opponent(m.player)
    BY <1>1, <1>4 DEF Members, Opponent, Table!Opponent
<1>10. QED
    BY <1>6, <1>7, <1>8, <1>9 DEF Table!Register, Table!Players, Players,
        Members

\* The phase only depends on where the Server is and on what it has told.
LEMMA TableStutters ==
    ASSUME UNCHANGED <<srv, sessions, status, broadcast>>
    PROVE  UNCHANGED <<status, Phase, Members, broadcast>>
BY DEF Phase, Members

\* A step of the Server that only moves on in its code.
LEMMA WithinPhase ==
    ASSUME UNCHANGED <<sessions, status, broadcast>>,
           \/ srv \in {"turn", "select"} /\ srv' \in {"turn", "select"}
           \/ srv \in {"drain", "done"} /\ srv' \in {"drain", "done"}
           \/ srv' = srv
    PROVE  UNCHANGED <<status, Phase, Members, broadcast>>
BY DEF Phase, Members

LEMMA AbandonStep ==
    ASSUME Ongoing, UNCHANGED <<sessions, status, broadcast>>, srv' = "stop",
           \/ srv = "connect"
           \/ srv \in {"turn", "select"} /\ ~GameOver
    PROVE  Table!Abandon
<1>1. NoResult /\ UNCHANGED Members
    BY DEF Ongoing, Members
<1>2. Phase' = "abandoned"
    BY <1>1 DEF Phase, NoResult
<1>3. QED
    BY <1>1, <1>2 DEF Table!Abandon, Table!Over, Table!Playing, GameOver,
        Playing, Phase, Members

LEMMA PlayStep ==
    ASSUME TypeOK, Ongoing, ApplyChoice
    PROVE  Table!Play
<1>1. /\ srv = "select" /\ srv' = "turn" /\ ~GameOver
      /\ Head(clients_rx).player = status.player
      /\ Move /\ UNCHANGED sessions
    BY DEF ApplyChoice, ReadsClients, Ongoing, Current
<1>2. Phase = "playing" /\ Phase' = "playing" /\ UNCHANGED Members
    BY <1>1 DEF Phase, Members
<1>3. Table!Move /\ ~Table!Over
    BY <1>1 DEF Move, Playing, Opponent, GameOver, Table!Move, Table!Playing,
        Table!Opponent, Table!Over
<1>4. broadcast' = Append(broadcast,
                          Table!Entry("Movement", status.player, status.turns))
    BY <1>1 DEF ApplyChoice, Table!Entry
<1>5. QED
    BY <1>2, <1>3, <1>4 DEF Table!Play, Members

LEMMA ConcludeStep ==
    ASSUME TypeOK, EndGame
    PROVE  Table!Conclude
<1> DEFINE m == [type   |-> "GameFinished",
                 player |-> IF Playing THEN NoPlayer ELSE status.player,
                 turn   |-> status.turns]
<1>1. /\ srv = "turn" /\ srv' = "stop" /\ GameOver
      /\ broadcast' = Append(broadcast, m)
      /\ m \in ServerBroadcasts
      /\ UNCHANGED <<sessions, status>>
    BY DEF EndGame, ServerBroadcasts, TypeOK, ServerTypeOK, Statuses
<1>2. Phase' = "concluded"
    BY <1>1, AppendLast DEF Phase
<1>3. m = Table!Result
    BY DEF Table!Result, Table!Entry, Table!Playing, Playing
<1>4. QED
    BY <1>1, <1>2, <1>3 DEF Table!Conclude, Table!Over, Table!Playing,
        GameOver, Playing, Phase, Members

LEMMA CloseStep ==
    ASSUME Stop
    PROVE  Table!Close
BY DEF Stop, Table!Close, Table!Goodbye, Table!Entry, Phase, Members

LEMMA TableSimulates ==
    ASSUME TypeOK, Named, Identity, Ongoing, [Next]_vars
    PROVE  [Table!TableNext]_(<<status, Phase, Members, broadcast>>)
<1> DEFINE Same4 == UNCHANGED <<status, Phase, Members, broadcast>>
<1>1. CASE Connect \/ ApplyChoice \/ EndGame \/ Stop
    BY <1>1, RegisterStep, PlayStep, ConcludeStep, CloseStep
    DEF Table!TableNext
<1>2. CASE ConnectTimeout
    BY <1>2, AbandonStep DEF ConnectTimeout, channelVars, Table!TableNext
<1>3. CASE StartTurn \/ Reconnect
    <2>1. /\ UNCHANGED <<sessions, status, broadcast>>
          /\ srv \in {"turn", "select"} /\ ~GameOver
          /\ srv' \in {"turn", "select", "stop"}
        BY <1>3 DEF StartTurn, Reconnect, SendTurn, Ongoing
    <2>2. QED
        BY <2>1, AbandonStep, WithinPhase DEF Table!TableNext
<1>4. CASE \/ PauseTurn \/ Drain \/ Shutdown \/ RecvDisconnect
           \/ IgnoreChoice \/ AnswerFreePlayer \/ AnswerSession
           \/ IgnoreConnected \/ IgnoreReconnected
    BY <1>4, WithinPhase DEF PauseTurn, Drain, Shutdown, RecvDisconnect,
        IgnoreChoice, AnswerFreePlayer, AnswerSession, Answer,
        IgnoreConnected, IgnoreReconnected, IgnoreNotice, channelVars,
        serverVars
<1>5. CASE ~ServerStep
    BY <1>5, OthersLeaveTable, TableStutters
<1>6. QED
    BY <1>1, <1>2, <1>3, <1>4, <1>5 DEF ServerStep, ServerNext

LEMMA TableStarts == Init => Table!TableInit
BY PlayersAssumption DEF Init, ChannelsInit, ServerInit, GameInit, Phase,
    Table!TableInit, Table!GameInit, Players

\* Whatever the connections do, the Server plays one match at one table and
\* tells it as Table does: a refinement, for any number of connections.
THEOREM PlaysOneMatch == Spec => TableSpec
<1>1. Init => Ongoing
    BY OngoingInit
<1>2. TypeOK /\ Ongoing /\ [Next]_vars => Ongoing'
    BY OngoingStep
<1>3. TypeOK /\ Named /\ Identity /\ Ongoing /\ [Next]_vars
        => [Table!TableNext]_(Table!tableVars)
    BY TableSimulates DEF Table!tableVars, Members
<1>4. QED
    BY <1>1, <1>2, <1>3, TableStarts, TypeCorrect, IdentityKept, PTL
    DEF Spec, TableSpec, Table!TableSpec

TP == INSTANCE TableProofs WITH
    phase <- Phase,
    registered <- {p \in Players : \E s \in Conns : sessions[s] = p},
    log <- broadcast

\* The broadcasts tell the match: one Movement per turn, the players in turn,
\* a result only after the last and a Disconnect after everything, whatever
\* choices arrive when and whoever comes and goes.
THEOREM BroadcastsTell == Spec => []Transcript
<1>1. MaxTurns \in Nat /\ TP!TableSpec
        => [](TP!Transcript /\ TP!WinnerMovedLast)
    BY TP!TableTells, PlayersAssumption
<1>2. TableSpec => TP!TableSpec
    <2>1. Table!TableInit => TP!TableInit
        BY DEF Table!TableInit, TP!TableInit, Table!GameInit, TP!GameInit
    <2>2. [Table!TableNext]_(Table!tableVars) => [TP!TableNext]_(TP!tableVars)
        BY DEF Table!TableNext, TP!TableNext, Table!tableVars, TP!tableVars,
            Table!Register, TP!Register, Table!Play, TP!Play, Table!Conclude,
            TP!Conclude, Table!Abandon, TP!Abandon, Table!Close, TP!Close,
            Table!Over, TP!Over, Table!Playing, TP!Playing, Table!Move,
            TP!Move, Table!Entry, TP!Entry, Table!Result, TP!Result,
            Table!Goodbye, TP!Goodbye, Table!Opponent, TP!Opponent,
            Table!Players, TP!Players
    <2>3. QED
        BY <2>1, <2>2, PTL DEF TableSpec, Table!TableSpec, TP!TableSpec
<1>3. TP!Transcript => Transcript
    BY DEF Transcript, Table!Transcript, TP!Transcript, Table!Endings,
        TP!Endings, Table!Moves, TP!Moves, Table!Entry, TP!Entry,
        Table!Result, TP!Result, Table!Goodbye, TP!Goodbye, Table!Mover,
        TP!Mover, Table!Over, TP!Over, Table!Playing, TP!Playing
<1>4. QED
    BY <1>1, <1>2, <1>3, PlaysOneMatch, ServerAssumption, PTL

=============================================================================
