----------------------------- MODULE HearProofs -----------------------------
(***************************************************************************)
(* What a remote player hears and what the Server hears of it.  For any    *)
(* capacity of the channel: LagKeepsTheLast and HearsNoneTwice.  As long   *)
(* as no Client falls behind by more: HearsInOrder, HearsEveryMove and     *)
(* EveryoneSawTheEnd.  Of players that keep their connection and answer    *)
(* each Turn once: AnswersThisTurn.                                        *)
(***************************************************************************)
EXTENDS TurnProofs

\* No Client is so late that the channel has dropped what it reads next.  The
\* code does not ensure it: the channel keeps 32 messages and a match may be
\* of any length.
Prompt == \A c \in running : Lag(c) <= BroadcastCapacity

\* Nothing is read that was not told, and nothing is told before the match.
CursorsInLog == \A c \in Conns : cursor[c] <= Len(broadcast)

Untold == srv = "connect" => broadcast = <<>>

\* A connection that comes back to a session, not in haste, has left the first
\* one behind.
FirstLeft ==
    \A c \in Conns : session[c] \notin {c, NoConn} /\ c \notin hasty =>
        Left(session[c])

\* LagKeepsTheLast for a Client that has yet to catch up.
Latest ==
    \A c \in Conns :
        sessions[c] # NoPlayer /\ c \in running /\ c \notin closed =>
            \A n \in 1..cursor[c] :
                n > Len(broadcast) - BroadcastCapacity =>
                    \E i \in Heard(c) : Same(inbox[c][i], broadcast[n])

\* c has heard the log from a place on, up to where its Client has read.
Tells(c, missed) ==
    /\ missed + Cardinality(Heard(c)) <= Len(broadcast)
    /\ \A i \in Heard(c) : Same(inbox[c][i], broadcast[missed + Nth(c, i)])
    /\ c \in running \ closed => missed + Cardinality(Heard(c)) = cursor[c]

\* What is heard on a registered connection is the log from its beginning.
FromTheFirst == \A c \in Conns : sessions[c] # NoPlayer => Tells(c, 0)

----------------------------------------------------------------------------
\* The broadcasts in an inbox.

Broadcasts == {"Movement", "GameFinished", "Disconnect"}

LEMMA HeardFinite ==
    ASSUME TypeOK, NEW c \in Conns
    PROVE  /\ IsFiniteSet(Heard(c)) /\ Cardinality(Heard(c)) \in Nat
           /\ \A i : Nth(c, i) \in 0..Cardinality(Heard(c))
           /\ \A i \in Heard(c) : Nth(c, i) \in 1..Cardinality(Heard(c))
<1>1. Len(inbox[c]) \in Nat
    BY LenProperties DEF TypeOK, RemoteTypeOK
<1>2. IsFiniteSet(1..Len(inbox[c]))
    BY <1>1, FS_Interval
<1>3. Heard(c) \subseteq 1..Len(inbox[c])
    BY DEF Heard
<1>4. IsFiniteSet(Heard(c)) /\ Cardinality(Heard(c)) \in Nat
    BY <1>2, <1>3, FS_Subset, FS_CardinalityType
<1>5. ASSUME NEW i
      PROVE  /\ IsFiniteSet({j \in Heard(c) : j <= i})
             /\ Nth(c, i) \in 0..Cardinality(Heard(c))
    <2> DEFINE S == {j \in Heard(c) : j <= i}
    <2>1. S \subseteq Heard(c)
        OBVIOUS
    <2> HIDE DEF S
    <2>2. /\ IsFiniteSet(S) /\ Cardinality(S) \in Nat
          /\ Cardinality(S) <= Cardinality(Heard(c))
        BY <1>4, <2>1, FS_Subset, FS_CardinalityType
    <2>3. QED
        BY <1>4, <2>2 DEF Nth, S
<1>6. ASSUME NEW i \in Heard(c)
      PROVE  Nth(c, i) \in 1..Cardinality(Heard(c))
    <2> DEFINE S == {j \in Heard(c) : j <= i}
    <2>1. i \in S
        BY <1>1, <1>3
    <2> HIDE DEF S
    <2>2. IsFiniteSet(S)
        BY <1>5 DEF S
    <2>3. Cardinality(S) # 0
        BY <2>1, <2>2, FS_EmptySet
    <2>4. QED
        BY <1>4, <1>5, <2>3 DEF Nth, S
<1>7. QED
    BY <1>4, <1>5, <1>6

LEMMA HeardSame ==
    ASSUME TypeOK, NEW c \in Conns,
           \/ inbox'[c] = inbox[c]
           \/ \E m : m.type \notin Broadcasts /\ inbox'[c] = Append(inbox[c], m)
    PROVE  /\ Heard(c)' = Heard(c)
           /\ \A i \in Heard(c) :
                inbox'[c][i] = inbox[c][i] /\ Nth(c, i)' = Nth(c, i)
<1>1. inbox[c] \in Seq(RemoteOutMessages)
    BY DEF TypeOK, RemoteTypeOK
<1>2. CASE inbox'[c] = inbox[c]
    BY <1>2 DEF Heard, Nth
<1>3. ASSUME NEW m, m.type \notin Broadcasts, inbox'[c] = Append(inbox[c], m)
      PROVE  /\ Heard(c)' = Heard(c)
             /\ \A i \in Heard(c) : inbox'[c][i] = inbox[c][i]
    BY <1>1, <1>3, AppendElements DEF Heard, Broadcasts
<1>4. Heard(c)' = Heard(c)
      /\ \A i \in Heard(c) : inbox'[c][i] = inbox[c][i]
    BY <1>2, <1>3
<1>5. QED
    BY <1>4 DEF Nth

LEMMA HeardMore ==
    ASSUME TypeOK, NEW c \in Conns, NEW m, m.type \in Broadcasts,
           inbox'[c] = Append(inbox[c], m), NEW n, n = Len(inbox[c]) + 1
    PROVE  /\ Heard(c)' = Heard(c) \cup {n}
           /\ Cardinality(Heard(c))' = Cardinality(Heard(c)) + 1
           /\ inbox'[c][n] = m
           /\ Nth(c, n)' = Cardinality(Heard(c)) + 1
           /\ \A i \in Heard(c) :
                inbox'[c][i] = inbox[c][i] /\ Nth(c, i)' = Nth(c, i)
<1>1. inbox[c] \in Seq(RemoteOutMessages)
    BY DEF TypeOK, RemoteTypeOK
<1>2. /\ Len(inbox[c]) \in Nat /\ Len(inbox'[c]) = n
      /\ \A i \in 1..Len(inbox[c]) : inbox'[c][i] = inbox[c][i]
      /\ inbox'[c][n] = m
    BY <1>1, AppendElements
<1>3. Heard(c)' = Heard(c) \cup {n}
    BY <1>2 DEF Heard, Broadcasts
<1>4. /\ n \notin Heard(c)
      /\ \A i \in Heard(c) : i \in Nat /\ i < n /\ i \in 1..Len(inbox[c])
    BY <1>2 DEF Heard
<1>5. Cardinality(Heard(c) \cup {n}) = Cardinality(Heard(c)) + 1
    BY <1>4, HeardFinite, FS_AddElement
<1>6. \A i \in Heard(c) : Nth(c, i)' = Nth(c, i)
    <2>1. ASSUME NEW i \in Heard(c)
          PROVE  {j \in Heard(c)' : j <= i} = {j \in Heard(c) : j <= i}
        BY <1>2, <1>3, <1>4
    <2>2. QED
        BY <2>1 DEF Nth
<1>7. Nth(c, n)' = Cardinality(Heard(c)) + 1
    <2>1. {j \in Heard(c)' : j <= n} = Heard(c) \cup {n}
        BY <1>2, <1>3, <1>4
    <2>2. QED
        BY <1>5, <2>1 DEF Nth
<1>8. QED
    BY <1>2, <1>3, <1>4, <1>5, <1>6, <1>7

----------------------------------------------------------------------------
\* What a step does to an inbox and to the cursor that goes with it.

Answered(c) ==
    /\ hs[c] = "asked"
    /\ \/ inbox'[c] = inbox[c]
       \/ \E m : m.type \notin Broadcasts /\ inbox'[c] = Append(inbox[c], m)
    /\ \/ hs'[c] = "spawned" /\ cursor'[c] = Len(broadcast)
       \/ hs'[c] = "done" /\ cursor'[c] = cursor[c] /\ c \notin running'

ReadsTurn(c) ==
    /\ hs[c] # "asked"
    /\ \E m : m.type \notin Broadcasts /\ inbox'[c] = Append(inbox[c], m)
    /\ cursor'[c] = cursor[c]

ReadsNext(c) ==
    /\ c \in running /\ Lag(c) \in 1..BroadcastCapacity
    /\ cursor'[c] = cursor[c] + 1
    /\ inbox'[c] = IF c \in closed THEN inbox[c]
                   ELSE Append(inbox[c], NextBroadcast(c))

Skips(c) ==
    /\ c \in running /\ Lag(c) > BroadcastCapacity
    /\ cursor'[c] = Len(broadcast) - BroadcastCapacity
    /\ inbox'[c] = inbox[c]

LEMMA Reading ==
    ASSUME TypeOK, Named, [Next]_vars, NEW c \in Conns
    PROVE  \/ inbox'[c] = inbox[c] /\ cursor'[c] = cursor[c]
           \/ /\ Answered(c) \/ ReadsTurn(c) \/ ReadsNext(c) \/ Skips(c)
              /\ UNCHANGED <<serverVars, broadcast>>
<1> DEFINE Goal ==
        \/ inbox'[c] = inbox[c] /\ cursor'[c] = cursor[c]
        \/ /\ Answered(c) \/ ReadsTurn(c) \/ ReadsNext(c) \/ Skips(c)
           /\ UNCHANGED <<serverVars, broadcast>>
<1>1. CASE ServerStep
    BY <1>1 DEF ServerStep, ServerNext, AnswerFreePlayer, AnswerSession,
        Answer, Connect, IgnoreConnected, IgnoreReconnected, IgnoreNotice,
        ConnectTimeout, EndGame, StartTurn, PauseTurn, Reconnect,
        RecvDisconnect, IgnoreChoice, ApplyChoice, Stop, Drain, Shutdown,
        channelVars, remoteVars
<1>2. ASSUME NEW d \in Conns, HandshakeStep(d)
      PROVE  Goal
    <2>1. CASE Reject(d)
        <3> DEFINE m == [type |-> "Reject", player |-> NoPlayer, turn |-> 0]
        <3>1. m.type \notin Broadcasts
            BY DEF Broadcasts
        <3>2. Deliver(d, m) /\ UNCHANGED <<cursor, running, broadcast, serverVars>>
            BY <1>2, <2>1 DEF Reject, HandshakeStep
        <3> HIDE DEF m
        <3>3. inbox'[c] = IF c = d /\ c \notin closed
                          THEN Append(inbox[c], m) ELSE inbox[c]
            BY <3>2, Delivers
        <3>4. hs[d] = "asked" /\ hs'[d] = "done" /\ d \notin running
            BY <2>1 DEF Reject, TypeOK, HandshakeTypeOK, Named
        <3>5. QED
            BY <3>1, <3>2, <3>3, <3>4 DEF Answered
    <2>2. CASE Welcome(d)
        <3> DEFINE m == [type |-> "Welcome", player |-> NoPlayer, turn |-> 0]
        <3>1. m.type \notin Broadcasts
            BY DEF Broadcasts
        <3>2. Deliver(d, m) /\ UNCHANGED <<broadcast, serverVars>>
            BY <1>2, <2>2 DEF Welcome, HandshakeStep
        <3> HIDE DEF m
        <3>3. inbox'[c] = IF c = d /\ c \notin closed
                          THEN Append(inbox[c], m) ELSE inbox[c]
            BY <3>2, Delivers
        <3>4. /\ hs[d] = "asked" /\ hs'[d] = "spawned"
              /\ cursor'[c] = IF c = d THEN Len(broadcast) ELSE cursor[c]
            BY <2>2 DEF Welcome, TypeOK, HandshakeTypeOK, ChannelsTypeOK
        <3>5. QED
            BY <3>1, <3>2, <3>3, <3>4 DEF Answered
    <2>3. CASE WelcomeFails(d) \/ Notify(d)
        BY <2>3 DEF WelcomeFails, Notify, remoteVars
    <2>4. QED
        BY <1>2, <2>1, <2>2, <2>3 DEF HandshakeStep, HandshakeTask
<1>3. ASSUME NEW d \in Conns, ClientStep(d)
      PROVE  Goal
    <2>1. UNCHANGED <<serverVars, broadcast>>
        BY <1>3 DEF ClientStep, ClientTask, RecvTurn, ServerRxClosed,
            RecvBroadcast, SkipBroadcasts, RecvChoice, RecvStray, RemoteGone,
            channelVars
    <2>2. CASE RecvTurn(d)
        <3>1. TurnMessage(Head(server_rx[d])).type \notin Broadcasts
            BY DEF TurnMessage, Broadcasts
        <3>2. \/ Deliver(d, TurnMessage(Head(server_rx[d])))
              \/ UNCHANGED inbox
            BY <2>2 DEF RecvTurn, TurnMessage
        <3>3. \/ inbox'[c] = inbox[c]
              \/ /\ c = d
                 /\ inbox'[c] = Append(inbox[c], TurnMessage(Head(server_rx[c])))
            BY <3>2, Delivers
        <3>4. cursor' = cursor /\ hs[d] # "asked"
            BY <2>2 DEF RecvTurn, Named
        <3>5. QED
            BY <2>1, <3>1, <3>3, <3>4 DEF ReadsTurn
    <2>3. CASE RecvBroadcast(d)
        <3>1. d \in running /\ Lag(d) \in 1..BroadcastCapacity
            BY <2>3 DEF RecvBroadcast
        <3>2. \/ UNCHANGED <<inbox, cursor>>
              \/ /\ Deliver(d, NextBroadcast(d))
                 /\ cursor' = [cursor EXCEPT ![d] = @ + 1]
            BY <2>3 DEF RecvBroadcast, NextBroadcast
        <3>3. ASSUME Deliver(d, NextBroadcast(d)),
                     cursor' = [cursor EXCEPT ![d] = @ + 1]
              PROVE  Goal
            <4>1. inbox'[c] = IF c = d /\ c \notin closed
                              THEN Append(inbox[c], NextBroadcast(d))
                              ELSE inbox[c]
                BY <3>3, Delivers
            <4>2. cursor'[c] = IF c = d THEN cursor[c] + 1 ELSE cursor[c]
                BY <3>3 DEF TypeOK, ChannelsTypeOK
            <4>3. QED
                BY <2>1, <3>1, <4>1, <4>2 DEF ReadsNext
        <3>4. QED
            BY <3>2, <3>3
    <2>4. CASE SkipBroadcasts(d)
        BY <2>1, <2>4 DEF SkipBroadcasts, Skips, remoteVars, TypeOK,
            ChannelsTypeOK
    <2>5. QED
        BY <1>3, <2>2, <2>3, <2>4 DEF ClientStep, ClientTask, ServerRxClosed,
            RecvChoice, RecvStray, RemoteGone, channelVars
<1>4. CASE \/ \E d \in Conns : Open(d) \/ Choose(d) \/ Stray(d) \/ Close(d)
           \/ UNCHANGED vars
    BY <1>4 DEF vars, channelVars, remoteVars, Open, Request, Hello,
        AskReconnect, Ask, BadFirst, Choose, RemoteChoose, Stray, RemoteStray,
        Close, RemoteClose
<1>5. QED
    BY <1>1, <1>2, <1>3, <1>4 DEF Next

----------------------------------------------------------------------------
\* LagKeepsTheLast

LEMMA LogKept ==
    ASSUME TypeOK, [Next]_vars
    PROVE  /\ Len(broadcast) \in Nat
           /\ Len(broadcast') \in {Len(broadcast), Len(broadcast) + 1}
           /\ \A n \in 1..Len(broadcast) : broadcast'[n] = broadcast[n]
<1>1. Len(broadcast) \in Nat
    BY LenProperties DEF TypeOK, ChannelsTypeOK
<1>2. CASE broadcast' = broadcast
    BY <1>1, <1>2
<1>3. ASSUME NEW m \in ServerBroadcasts, broadcast' = Append(broadcast, m)
      PROVE  /\ Len(broadcast') \in {Len(broadcast), Len(broadcast) + 1}
             /\ \A n \in 1..Len(broadcast) : broadcast'[n] = broadcast[n]
    BY <1>3, AppendLast
<1>4. QED
    BY <1>1, <1>2, <1>3, LogGrows

\* A session is registered before the match.
LEMMA Registers ==
    ASSUME [Next]_vars, NEW c \in Conns, sessions'[c] # sessions[c]
    PROVE  srv = "connect" /\ UNCHANGED <<broadcast, cursor, inbox, running>>
<1>1. CASE Connect /\ ServerStep
    BY <1>1 DEF Connect, ServerStep, remoteVars
<1>2. CASE ~Connect \/ ~ServerStep
    BY <1>2, OthersLeaveServer DEF serverVars, ServerStep, ServerNext,
        AnswerFreePlayer, AnswerSession, Answer, IgnoreConnected,
        IgnoreReconnected, IgnoreNotice, ConnectTimeout, EndGame, StartTurn,
        PauseTurn, Reconnect, RecvDisconnect, IgnoreChoice, ApplyChoice, Stop,
        Drain, Shutdown
<1>3. QED
    BY <1>1, <1>2

LEMMA CursorsStep ==
    ASSUME TypeOK, Named, CursorsInLog, [Next]_vars
    PROVE  CursorsInLog'
<1> SUFFICES ASSUME NEW c \in Conns
             PROVE  cursor'[c] <= Len(broadcast')
    BY DEF CursorsInLog
<1>1. /\ cursor[c] \in Nat /\ cursor[c] <= Len(broadcast)
      /\ Len(broadcast) \in Nat
      /\ Len(broadcast') \in {Len(broadcast), Len(broadcast) + 1}
    BY LogKept DEF CursorsInLog, TypeOK, ChannelsTypeOK
<1>2. \/ cursor'[c] \in {cursor[c], Len(broadcast)}
      \/ Lag(c) >= 1 /\ cursor'[c] = cursor[c] + 1
      \/ cursor'[c] = Len(broadcast) - BroadcastCapacity
    BY <1>1, Reading, ChannelsAssumption
    DEF Answered, ReadsTurn, ReadsNext, Skips
<1>3. QED
    BY <1>1, <1>2, ChannelsAssumption DEF Lag

LEMMA UntoldStep ==
    ASSUME TypeOK, Untold, [Next]_vars
    PROVE  Untold'
<1>1. CASE broadcast' = broadcast /\ srv' = "connect"
    <2>1. srv = "connect"
        BY <1>1, OthersLeaveServer DEF serverVars, ServerStep, ServerNext,
            AnswerFreePlayer, AnswerSession, Answer, Connect, IgnoreConnected,
            IgnoreReconnected, IgnoreNotice, ConnectTimeout, EndGame,
            StartTurn, SendTurn, PauseTurn, Reconnect, RecvDisconnect,
            IgnoreChoice, ApplyChoice, Stop, Drain, Shutdown
    <2>2. QED
        BY <1>1, <2>1 DEF Untold
<1>2. CASE broadcast' # broadcast
    BY <1>2, OthersLeaveServer DEF Untold, ServerStep, ServerNext,
        AnswerFreePlayer, AnswerSession, Answer, Connect, IgnoreConnected,
        IgnoreReconnected, IgnoreNotice, ConnectTimeout, EndGame, StartTurn,
        PauseTurn, Reconnect, RecvDisconnect, IgnoreChoice, ApplyChoice, Stop,
        Drain, Shutdown, channelVars
<1>3. QED
    BY <1>1, <1>2 DEF Untold

LEMMA LatestStep ==
    ASSUME TypeOK, Named, Identity, CursorsInLog, Untold, Latest, [Next]_vars
    PROVE  Latest'
<1> SUFFICES ASSUME NEW c \in Conns, sessions'[c] # NoPlayer,
                    c \in running', c \notin closed',
                    NEW n \in 1..cursor'[c],
                    n > Len(broadcast') - BroadcastCapacity
             PROVE  \E i \in Heard(c)' : Same(inbox'[c][i], broadcast'[n])
    BY DEF Latest, Same
<1>1. c \notin closed
    BY ClosedGrows
<1>2. /\ cursor[c] \in Nat /\ cursor[c] <= Len(broadcast)
      /\ Len(broadcast) \in Nat
      /\ Len(broadcast') \in {Len(broadcast), Len(broadcast) + 1}
      /\ \A k \in 1..Len(broadcast) : broadcast'[k] = broadcast[k]
      /\ BroadcastCapacity \in Nat \ {0}
    BY LogKept, ChannelsAssumption DEF CursorsInLog, TypeOK, ChannelsTypeOK
<1>3. CASE sessions'[c] # sessions[c]
    <2>1. cursor'[c] = cursor[c] /\ Len(broadcast) = 0
        BY <1>3, Registers DEF Untold
    <2>2. QED
        BY <1>2, <2>1
<1>4. CASE sessions'[c] = sessions[c]
    <2>1. hs[c] = "done" /\ c \in running
        BY <1>4, StartsRunning DEF Identity, Registered
    <2>2. \A k \in 1..cursor[c] :
            k > Len(broadcast) - BroadcastCapacity =>
                \E i \in Heard(c) : Same(inbox[c][i], broadcast[k])
        BY <1>1, <1>4, <2>1 DEF Latest
    <2>3. ASSUME n \in 1..cursor[c], Heard(c) \subseteq Heard(c)',
                 \A i \in Heard(c) : inbox'[c][i] = inbox[c][i]
          PROVE  \E i \in Heard(c)' : Same(inbox'[c][i], broadcast'[n])
        <3>1. n > Len(broadcast) - BroadcastCapacity
            BY <1>2, <2>3
        <3>2. PICK i \in Heard(c) : Same(inbox[c][i], broadcast[n])
            BY <2>2, <2>3, <3>1
        <3>3. broadcast'[n] = broadcast[n]
            BY <1>2, <2>3
        <3>4. QED
            BY <2>3, <3>2, <3>3
    <2>4. CASE inbox'[c] = inbox[c] /\ cursor'[c] = cursor[c]
        BY <2>3, <2>4, HeardSame
    <2>5. CASE ReadsTurn(c)
        BY <2>3, <2>5, HeardSame DEF ReadsTurn
    <2>6. CASE ReadsNext(c) /\ UNCHANGED broadcast
        <3>1. /\ inbox'[c] = Append(inbox[c], NextBroadcast(c))
              /\ cursor'[c] = cursor[c] + 1
              /\ NextBroadcast(c).type \in Broadcasts
              /\ Same(NextBroadcast(c), broadcast[cursor[c] + 1])
            BY <1>1, <2>6, ReadsBroadcast DEF ReadsNext, Broadcasts, Same
        <3>2. PICK j, m : j = Len(inbox[c]) + 1 /\ m = NextBroadcast(c)
            OBVIOUS
        <3>3. /\ Heard(c)' = Heard(c) \cup {j}
              /\ inbox'[c][j] = NextBroadcast(c)
              /\ \A i \in Heard(c) : inbox'[c][i] = inbox[c][i]
            <4>1. m.type \in Broadcasts /\ inbox'[c] = Append(inbox[c], m)
                BY <3>1, <3>2
            <4>2. Heard(c)' = Heard(c) \cup {j}
                BY <3>2, <4>1, HeardMore
            <4>3. inbox'[c][j] = m
                BY <3>2, <4>1, HeardMore
            <4>4. \A i \in Heard(c) : inbox'[c][i] = inbox[c][i]
                BY <3>2, <4>1, HeardMore
            <4>5. QED
                BY <3>2, <4>2, <4>3, <4>4
        <3>4. CASE n = cursor[c] + 1
            <4>1. j \in Heard(c)'
                BY <3>3
            <4>2. Same(inbox'[c][j], broadcast'[n])
                BY <2>6, <3>1, <3>3, <3>4
            <4>3. QED
                BY <4>1, <4>2
        <3>5. CASE n # cursor[c] + 1
            <4>1. n \in 1..cursor[c]
                BY <1>2, <3>1, <3>5
            <4>2. QED
                BY <2>3, <3>3, <4>1
        <3>6. QED
            BY <3>4, <3>5
    <2>7. CASE Skips(c) /\ UNCHANGED broadcast
        BY <1>2, <2>7 DEF Skips
    <2>8. QED
        BY <2>1, <2>4, <2>5, <2>6, <2>7, Reading DEF Answered
<1>5. QED
    BY <1>3, <1>4

LEMMA LatestKept == Spec => [](CursorsInLog /\ Untold /\ Latest)
<1>1. Init => CursorsInLog /\ Untold /\ Latest
    BY DEF Init, ChannelsInit, CursorsInLog, Untold, Latest
<1>2. TypeOK /\ Named /\ Identity /\ CursorsInLog /\ Untold /\ Latest
        /\ [Next]_vars => CursorsInLog' /\ Untold' /\ Latest'
    BY CursorsStep, UntoldStep, LatestStep
<1>3. QED
    BY <1>1, <1>2, TypeCorrect, IdentityKept, PTL DEF Spec

\* However far its Client falls behind, a player loses the oldest broadcasts
\* only: caught up, it has been told the last BroadcastCapacity of them.
THEOREM LagLosesTheOldest == Spec => []LagKeepsTheLast
<1>1. TypeOK /\ Latest => LagKeepsTheLast
    BY DEF Latest, LagKeepsTheLast
<1>2. QED
    BY <1>1, LatestKept, TypeCorrect, PTL

----------------------------------------------------------------------------
\* HearsInOrder and HearsEveryMove

LEMMA Subscribes ==
    ASSUME TypeOK, [Next]_vars, NEW c \in Conns, c \in running', c \notin running
    PROVE  /\ hs[c] = "asked" /\ hs'[c] = "spawned"
           /\ cursor'[c] = Len(broadcast) /\ broadcast' = broadcast
<1>1. ~ServerStep
    BY DEF ServerStep, ServerNext, AnswerFreePlayer, AnswerSession, Answer,
        Connect, IgnoreConnected, IgnoreReconnected, IgnoreNotice,
        ConnectTimeout, EndGame, StartTurn, PauseTurn, Reconnect,
        RecvDisconnect, IgnoreChoice, ApplyChoice, Stop, Drain, Shutdown,
        channelVars
<1>2. ASSUME NEW d \in Conns, ~Welcome(d) PROVE ~HandshakeStep(d) \/ running' = running
    BY <1>2 DEF HandshakeStep, HandshakeTask, Reject, WelcomeFails, Notify
<1>3. \E d \in Conns : Welcome(d)
    BY <1>1, <1>2 DEF Next, vars, ClientStep, ClientTask, RecvTurn,
        ServerRxClosed, RecvBroadcast, SkipBroadcasts, RecvChoice, RecvStray,
        RemoteGone, EndTask, Open, Request, Hello, AskReconnect, Ask,
        BadFirst, Choose, RemoteChoose, Stray, RemoteStray, Close,
        RemoteClose, channelVars
<1>4. QED
    BY <1>3 DEF Welcome, TypeOK, ChannelsTypeOK, HandshakeTypeOK

\* c comes back to a session, in haste or when nothing more is delivered on
\* any connection that had it.
Resumes(c, s) ==
    /\ s \in Conns \ {c} /\ session[s] = s
    /\ c \in hasty' \/ \A d \in Conns : session[d] = s => Left(d)

\* A connection is given a session once.
LEMMA SessionChanges ==
    ASSUME TypeOK, [Next]_vars, NEW c \in Conns, session'[c] # session[c]
    PROVE  /\ hs[c] \in {"new", "asked"}
           /\ \A d \in Conns \ {c} : session'[d] = session[d]
           /\ session'[c] \notin {c, NoConn} => Resumes(c, session'[c])
<1>1. ASSUME NEW d \in Conns, Open(d)
      PROVE  /\ hs[c] \in {"new", "asked"}
             /\ \A e \in Conns \ {c} : session'[e] = session[e]
             /\ session'[c] \notin {c, NoConn} => Resumes(c, session'[c])
    <2>1. CASE Hello(d) \/ BadFirst(d)
        BY <2>1 DEF Hello, Ask, BadFirst, TypeOK, HandshakeTypeOK
    <2>2. ASSUME NEW s \in Conns \ {d}, AskReconnect(d, s)
          PROVE  /\ c = d /\ hs[c] = "new" /\ session'[c] = s
                 /\ \A e \in Conns \ {c} : session'[e] = session[e]
                 /\ Resumes(c, s)
        <3>1. c = d /\ hs[c] = "new" /\ session'[c] = s
              /\ \A e \in Conns \ {c} : session'[e] = session[e]
            BY <2>2 DEF AskReconnect, Ask, TypeOK, HandshakeTypeOK
        <3>2. session[s] = s
            BY <2>2 DEF AskReconnect
        <3>3. ASSUME ~\A e \in Conns : session[e] = s => Left(e)
              PROVE  c \in hasty'
            BY <2>2, <3>1, <3>3 DEF AskReconnect
        <3>4. QED
            BY <2>2, <3>1, <3>2, <3>3 DEF Resumes
    <2>3. QED
        BY <1>1, <2>1, <2>2 DEF Open, Request
<1>2. ASSUME NEW d \in Conns, HandshakeStep(d)
      PROVE  /\ hs[c] = "asked" /\ session'[c] = c
             /\ \A e \in Conns \ {c} : session'[e] = session[e]
    BY <1>2 DEF HandshakeStep, HandshakeTask, Reject, Welcome, WelcomeFails,
        Notify, TypeOK, HandshakeTypeOK
<1>3. CASE UNCHANGED handshakeVars
    BY <1>3 DEF handshakeVars
<1>4. QED
    BY <1>1, <1>2, <1>3 DEF Next, vars, ServerStep, ClientStep, ClientTask,
        RecvTurn, ServerRxClosed, RecvBroadcast, SkipBroadcasts, RecvChoice,
        RecvStray, RemoteGone, Choose, Stray, Close

LEMMA HastyGrows ==
    ASSUME [Next]_vars
    PROVE  hasty \subseteq hasty'
<1>1. ASSUME NEW c \in Conns, HandshakeStep(c) \/ Open(c)
      PROVE  hasty \subseteq hasty'
    BY <1>1 DEF HandshakeStep, HandshakeTask, Reject, Welcome, WelcomeFails,
        Notify, Open, Request, Hello, AskReconnect, BadFirst
<1>2. CASE UNCHANGED handshakeVars
    BY <1>2 DEF handshakeVars
<1>3. QED
    BY <1>1, <1>2 DEF Next, vars, ServerStep, ClientStep, ClientTask,
        RecvTurn, ServerRxClosed, RecvBroadcast, SkipBroadcasts, RecvChoice,
        RecvStray, RemoteGone, Choose, Stray, Close

\* Nothing more is delivered on it.
LEMMA LeftBehind ==
    ASSUME TypeOK, [Next]_vars, NEW d \in Conns, Left(d)
    PROVE  inbox'[d] = inbox[d] /\ Left(d)'
<1>1. inbox'[d] = inbox[d]
    BY InboxGrows DEF Left, Dropped, Source
<1>2. Dropped(d) => Dropped(d)'
    <2>1. ASSUME hs[d] = "done" PROVE hs'[d] = "done"
        <3>1. ASSUME NEW e \in Conns, HandshakeStep(e) \/ Open(e)
              PROVE  hs'[d] = "done"
            BY <2>1, <3>1 DEF HandshakeStep, HandshakeTask, Reject, Welcome,
                WelcomeFails, Notify, Open, Request, Hello, AskReconnect, Ask,
                BadFirst, TypeOK, HandshakeTypeOK
        <3>2. CASE UNCHANGED handshakeVars
            BY <2>1, <3>2 DEF handshakeVars
        <3>3. QED
            BY <3>1, <3>2 DEF Next, vars, ServerStep, ClientStep, ClientTask,
                RecvTurn, ServerRxClosed, RecvBroadcast, SkipBroadcasts,
                RecvChoice, RecvStray, RemoteGone, Choose, Stray, Close
    <2>2. QED
        BY <2>1, Subscribes DEF Dropped
<1>3. QED
    BY <1>1, <1>2, ClosedGrows DEF Left

LEMMA FirstLeftStep ==
    ASSUME TypeOK, FirstLeft, [Next]_vars
    PROVE  /\ FirstLeft'
           /\ \A c \in Conns :
                session'[c] \notin {c, NoConn} /\ c \notin hasty' =>
                    /\ session'[c] \in Conns
                    /\ inbox'[session'[c]] = inbox[session'[c]]
<1>1. ASSUME NEW c \in Conns, session'[c] \notin {c, NoConn},
             c \notin hasty'
      PROVE  session'[c] \in Conns /\ Left(session'[c])
    <2>1. CASE session'[c] = session[c]
        BY <1>1, <2>1, HastyGrows DEF FirstLeft, TypeOK, HandshakeTypeOK
    <2>2. CASE session'[c] # session[c]
        BY <1>1, <2>2, SessionChanges DEF Resumes
    <2>3. QED
        BY <2>1, <2>2
<1>2. ASSUME NEW c \in Conns, session'[c] \notin {c, NoConn},
             c \notin hasty'
      PROVE  /\ session'[c] \in Conns
             /\ inbox'[session'[c]] = inbox[session'[c]]
             /\ \/ session'[c] \in closed'
                \/ hs'[session'[c]] = "done" /\ session'[c] \notin running'
    <2>1. PICK s \in Conns : s = session'[c]
        BY <1>1, <1>2
    <2>2. Left(s)
        BY <1>1, <1>2, <2>1
    <2>3. inbox'[s] = inbox[s] /\ Left(s)'
        BY <2>2, LeftBehind
    <2>4. QED
        BY <2>1, <2>3 DEF Left, Dropped
<1>3. QED
    BY <1>2 DEF FirstLeft, Left, Dropped

LEMMA FirstLeftKept == Spec => []FirstLeft
<1>1. Init => FirstLeft
    BY DEF Init, HandshakeInit, FirstLeft
<1>2. TypeOK /\ FirstLeft /\ [Next]_vars => FirstLeft'
    BY FirstLeftStep
<1>3. QED
    BY <1>1, <1>2, TypeCorrect, PTL DEF Spec

\* A Client that is never late passes on one broadcast after the other.
LEMMA TellsOn ==
    ASSUME TypeOK, Named, Prompt, [Next]_vars, NEW c \in Conns,
           hs[c] \notin {"new", "asked"}, NEW missed \in Nat, Tells(c, missed)
    PROVE  Tells(c, missed)'
<1>1. /\ Len(broadcast) \in Nat
      /\ Len(broadcast') \in {Len(broadcast), Len(broadcast) + 1}
      /\ \A n \in 1..Len(broadcast) : broadcast'[n] = broadcast[n]
    BY LogKept
<1>2. /\ Cardinality(Heard(c)) \in Nat
      /\ \A i \in Heard(c) : Nth(c, i) \in 1..Cardinality(Heard(c))
    BY HeardFinite
<1>3. /\ missed + Cardinality(Heard(c)) <= Len(broadcast)
      /\ \A i \in Heard(c) : Same(inbox[c][i], broadcast[missed + Nth(c, i)])
      /\ c \in running \ closed => missed + Cardinality(Heard(c)) = cursor[c]
    BY DEF Tells
<1>4. c \in running' \ closed' => c \in running \ closed
    BY Subscribes, ClosedGrows
<1>5. \A i \in Heard(c) :
        Same(inbox[c][i], broadcast'[missed + Nth(c, i)])
    <2>1. \A i \in Heard(c) : missed + Nth(c, i) \in 1..Len(broadcast)
        BY <1>1, <1>2, <1>3
    <2>2. QED
        BY <1>1, <1>3, <2>1
<1>6. ASSUME \/ inbox'[c] = inbox[c]
             \/ \E m : m.type \notin Broadcasts /\ inbox'[c] = Append(inbox[c], m),
             c \in running' \ closed' => cursor'[c] = cursor[c]
      PROVE  Tells(c, missed)'
    <2>1. /\ Heard(c)' = Heard(c)
          /\ \A i \in Heard(c) :
                inbox'[c][i] = inbox[c][i] /\ Nth(c, i)' = Nth(c, i)
        BY <1>6, HeardSame
    <2>2. \A i \in Heard(c)' :
            Same(inbox[c][i], broadcast[missed + Nth(c, i)])'
        BY <1>5, <2>1 DEF Same
    <2>3. QED
        BY <1>1, <1>2, <1>3, <1>4, <1>6, <2>1, <2>2 DEF Tells
<1>7. CASE inbox'[c] = inbox[c] /\ cursor'[c] = cursor[c]
    BY <1>6, <1>7
<1>8. CASE ReadsTurn(c)
    BY <1>6, <1>8 DEF ReadsTurn
<1>9. CASE ReadsNext(c) /\ broadcast' = broadcast
    <2>1. CASE c \in closed
        <3>1. c \in closed' /\ inbox'[c] = inbox[c]
            BY <1>9, <2>1, ClosedGrows DEF ReadsNext
        <3>2. QED
            BY <1>6, <3>1
    <2>2. CASE c \notin closed
        <3>1. /\ c \in running \ closed
              /\ inbox'[c] = Append(inbox[c], NextBroadcast(c))
              /\ cursor'[c] = cursor[c] + 1
              /\ cursor[c] + 1 \in 1..Len(broadcast)
              /\ NextBroadcast(c).type \in Broadcasts
              /\ Same(NextBroadcast(c), broadcast[cursor[c] + 1])
            BY <1>9, <2>2, ReadsBroadcast DEF ReadsNext, Broadcasts, Same
        <3>2. PICK j, m : j = Len(inbox[c]) + 1 /\ m = NextBroadcast(c)
            OBVIOUS
        <3>3. m.type \in Broadcasts /\ inbox'[c] = Append(inbox[c], m)
            BY <3>1, <3>2
        <3>4. Heard(c)' = Heard(c) \cup {j}
            BY <3>2, <3>3, HeardMore
        <3>5. Cardinality(Heard(c))' = Cardinality(Heard(c)) + 1
            BY <3>2, <3>3, HeardMore
        <3>6. inbox'[c][j] = m /\ Nth(c, j)' = Cardinality(Heard(c)) + 1
            BY <3>2, <3>3, HeardMore
        <3>7. \A i \in Heard(c) :
                inbox'[c][i] = inbox[c][i] /\ Nth(c, i)' = Nth(c, i)
            BY <3>2, <3>3, HeardMore
        <3>8. missed + (Cardinality(Heard(c)) + 1) = cursor[c] + 1
            BY <1>2, <1>3, <3>1 DEF TypeOK, ChannelsTypeOK
        <3>9. ASSUME NEW i \in Heard(c)'
              PROVE  Same(inbox[c][i], broadcast[missed + Nth(c, i)])'
            <4>1. CASE i \in Heard(c)
                BY <1>5, <3>7, <4>1 DEF Same
            <4>2. CASE i = j
                BY <1>9, <3>1, <3>2, <3>6, <3>8, <4>2 DEF Same
            <4>3. QED
                BY <3>4, <4>1, <4>2
        <3>10. /\ (missed + Cardinality(Heard(c)) <= Len(broadcast))'
               /\ (missed + Cardinality(Heard(c)) = cursor[c])'
            BY <1>9, <3>1, <3>5, <3>8
        <3>11. QED
            BY <3>9, <3>10 DEF Tells
    <2>3. QED
        BY <2>1, <2>2
<1>10. ~Skips(c)
    <2>1. Lag(c) \in Int
        BY <1>1 DEF Lag, TypeOK, ChannelsTypeOK
    <2>2. QED
        BY <2>1, ChannelsAssumption DEF Prompt, Skips
<1>11. ~Answered(c)
    BY DEF Answered
<1>12. QED
    BY <1>7, <1>8, <1>9, <1>10, <1>11, Reading

LEMMA Ordered == HearsInOrder <=>
    \A c \in Conns : \E missed \in 0..Len(broadcast) :
        /\ Tells(c, missed)
        /\ session[c] \notin {c, NoConn} /\ c \notin hasty =>
            Cardinality(Heard(session[c])) <= missed
BY DEF HearsInOrder, Tells

LEMMA InOrderStep ==
    ASSUME TypeOK, TypeOK', Named, Quiet, FirstLeft, HearsInOrder, Prompt,
           [Next]_vars
    PROVE  HearsInOrder'
<1> SUFFICES ASSUME NEW c \in Conns
             PROVE  \E missed \in 0..Len(broadcast') :
                /\ Tells(c, missed)'
                /\ session'[c] \notin {c, NoConn} /\ c \notin hasty' =>
                    Cardinality(Heard(session[c]))' <= missed
    BY DEF HearsInOrder, Tells
<1>1. /\ Len(broadcast) \in Nat
      /\ Len(broadcast') \in {Len(broadcast), Len(broadcast) + 1}
    BY LogKept
<1>2. PICK s : s = session'[c]
    OBVIOUS
<1>3. Cardinality(Heard(session[c]))' = Cardinality(Heard(s)')
    BY <1>2 DEF Heard
<1>4. ASSUME s \notin {c, NoConn}, c \notin hasty'
      PROVE  s \in Conns /\ Heard(s)' = Heard(s)
             /\ Cardinality(Heard(s)) <= Len(broadcast)
             /\ Cardinality(Heard(s)) \in Nat
    <2>1. s \in Conns /\ inbox'[s] = inbox[s]
        BY <1>2, <1>4, FirstLeftStep
    <2>2. PICK missed \in 0..Len(broadcast) : Tells(s, missed)
        BY <2>1, Ordered
    <2>3. Cardinality(Heard(s)) \in Nat /\ Heard(s)' = Heard(s)
        BY <2>1, HeardFinite, HeardSame
    <2>4. QED
        BY <1>1, <2>1, <2>2, <2>3 DEF Tells
<1>5. CASE hs[c] \in {"new", "asked"}
    <2>1. c \notin running /\ inbox[c] = <<>>
        BY <1>5 DEF Named, Quiet
    <2>2. Heard(c) = {}
        BY <2>1 DEF Heard
    <2>3. Heard(c)' = Heard(c)
        BY <2>1, Reading, HeardSame DEF Answered, ReadsTurn, ReadsNext, Skips
    <2>4. Heard(c)' = {} /\ Cardinality(Heard(c)') = 0
        BY <2>2, <2>3, FS_EmptySet
    <2>5. c \in running' => cursor'[c] = Len(broadcast')
        BY <2>1, Subscribes
    <2>6. PICK n : n = Len(broadcast')
        OBVIOUS
    <2>7. Tells(c, n)'
        BY <1>1, <2>4, <2>5, <2>6 DEF Tells
    <2>8. n \in 0..Len(broadcast')
          /\ (s \notin {c, NoConn} /\ c \notin hasty' =>
                Cardinality(Heard(s)') <= n)
        BY <1>1, <1>4, <2>6
    <2>9. QED
        BY <1>2, <1>3, <2>7, <2>8
<1>6. CASE hs[c] \notin {"new", "asked"}
    <2>1. session'[c] = session[c]
        BY <1>6, SessionChanges
    <2>2. PICK missed \in 0..Len(broadcast) :
            /\ Tells(c, missed)
            /\ session[c] \notin {c, NoConn} /\ c \notin hasty =>
                Cardinality(Heard(session[c])) <= missed
        BY Ordered
    <2>3. missed \in Nat /\ missed \in 0..Len(broadcast')
        BY <1>1
    <2>4. Tells(c, missed)'
        BY <1>6, <2>2, <2>3, TellsOn
    <2>5. s \notin {c, NoConn} /\ c \notin hasty' =>
            Cardinality(Heard(s)') <= missed
        BY <1>2, <1>4, <2>1, <2>2, HastyGrows
    <2>6. QED
        BY <1>2, <1>3, <2>3, <2>4, <2>5
<1>7. QED
    BY <1>5, <1>6

LEMMA FromTheFirstStep ==
    ASSUME TypeOK, Named, Identity, Untold, HearsInOrder, FromTheFirst, Prompt,
           [Next]_vars
    PROVE  FromTheFirst'
<1> SUFFICES ASSUME NEW c \in Conns, sessions'[c] # NoPlayer
             PROVE  Tells(c, 0)'
    BY DEF FromTheFirst, Tells
<1>1. CASE sessions'[c] # sessions[c]
    <2>1. broadcast = <<>> /\ UNCHANGED <<broadcast, cursor, inbox, running>>
        BY <1>1, Registers DEF Untold
    <2>2. PICK missed \in 0..Len(broadcast) : Tells(c, missed)
        BY Ordered
    <2>3. Tells(c, 0)
        BY <2>1, <2>2
    <2>4. QED
        BY <2>1, <2>3, ClosedGrows DEF Tells, Heard, Nth
<1>2. CASE sessions'[c] = sessions[c]
    BY <1>2, TellsOn DEF Identity, Registered, FromTheFirst
<1>3. QED
    BY <1>1, <1>2

LEMMA InOrderKept ==
    Spec /\ []Prompt => [](HearsInOrder /\ FromTheFirst)
<1>1. Init => HearsInOrder /\ FromTheFirst
    <2> SUFFICES ASSUME Init PROVE HearsInOrder /\ FromTheFirst
        OBVIOUS
    <2>1. /\ broadcast = <<>> /\ running = {}
          /\ \A c \in Conns : /\ session[c] = NoConn /\ sessions[c] = NoPlayer
                              /\ inbox[c] = <<>>
        BY DEF Init, ChannelsInit, ServerInit, RemoteInit, HandshakeInit
    <2>2. \A c \in Conns : Heard(c) = {}
        BY <2>1 DEF Heard
    <2>3. \A c \in Conns : Cardinality(Heard(c)) = 0
        BY <2>2, FS_EmptySet
    <2>4. \A c \in Conns : Tells(c, 0)
        BY <2>1, <2>2, <2>3 DEF Tells
    <2>5. QED
        BY <2>1, <2>4, Ordered DEF FromTheFirst
<1>2. TypeOK /\ TypeOK' /\ Named /\ Identity /\ Routed /\ Untold /\ FirstLeft
        /\ HearsInOrder /\ FromTheFirst /\ Prompt /\ [Next]_vars
            => HearsInOrder' /\ FromTheFirst'
    BY InOrderStep, FromTheFirstStep DEF Routed
<1>3. QED
    BY <1>1, <1>2, TypeCorrect, IdentityKept, FirstLeftKept, RoutedKept,
        LatestKept, PTL DEF Spec

\* As long as no Client falls behind by more than the channel keeps, every
\* connection hears the broadcasts in order and without a gap, from its
\* subscription on; one that came back once the others of its session were
\* gone hears nothing that the first of them had heard.
THEOREM HeardInOrder == Spec /\ []Prompt => []HearsInOrder
BY InOrderKept, PTL

\* And whoever stays has heard each of them, from the first to the last its
\* Client has read.
THEOREM EveryMoveHeard == Spec /\ []Prompt => []HearsEveryMove
<1>1. TypeOK /\ FromTheFirst => HearsEveryMove
    <2> SUFFICES ASSUME TypeOK, NEW c \in Conns, c \in running, c \notin closed,
                        Tells(c, 0)
                 PROVE  /\ Cardinality(Heard(c)) = cursor[c]
                        /\ \A i \in Heard(c) :
                            Same(inbox[c][i], broadcast[Nth(c, i)])
        BY DEF FromTheFirst, HearsEveryMove
    <2>1. Cardinality(Heard(c)) \in Nat
          /\ \A i \in Heard(c) : Nth(c, i) \in Nat
        BY HeardFinite
    <2>2. QED
        BY <2>1 DEF Tells
<1>2. QED
    BY <1>1, InOrderKept, TypeCorrect, PTL

LEMMA Concatenated ==
    ASSUME NEW S, NEW m \in Seq(S), NEW e \in Seq(S), NEW q, q = m \o e
    PROVE  /\ Len(q) = Len(m) + Len(e)
           /\ \A k \in 1..Len(m) : q[k] = m[k]
           /\ \A k \in 1..Len(e) : q[Len(m) + k] = e[k]
<1>1. Len(m) \in Nat /\ Len(e) \in Nat
    BY LenProperties
<1>2. /\ Len(q) = Len(m) + Len(e)
      /\ \A i \in 1..Len(m) + Len(e) :
            q[i] = IF i <= Len(m) THEN m[i] ELSE e[i - Len(m)]
    BY ConcatProperties
<1>3. ASSUME NEW k \in 1..Len(e) PROVE q[Len(m) + k] = e[k]
    <2>1. /\ Len(m) + k \in 1..Len(m) + Len(e)
          /\ ~(Len(m) + k <= Len(m)) /\ (Len(m) + k) - Len(m) = k
        BY <1>1
    <2>2. QED
        BY <1>2, <2>1
<1>4. QED
    BY <1>1, <1>2, <1>3

\* The log has the moves, then at most a result and a Disconnect.
LEMMA LogOfMatch ==
    ASSUME TypeOK, Transcript, NEW n, n = status.turns
    PROVE  /\ n \in Nat /\ n <= MaxTurns
           /\ Len(broadcast) \in n..(n + 2)
           /\ \A k \in 1..n :
                broadcast[k].type = "Movement" /\ broadcast[k].turn = k - 1
           /\ \A k \in (n + 1)..Len(broadcast) : broadcast[k].type # "Movement"
           /\ Len(broadcast) = n + 2 =>
                broadcast[n + 1].type # broadcast[n + 2].type
<1>1. PICK end \in Table!Endings : broadcast = Table!Moves \o end
    BY DEF Transcript, Table!Transcript
<1>2. n \in Nat /\ n <= MaxTurns
    BY DEF Transcript, Table!Transcript, TypeOK, ServerTypeOK, Statuses
<1>3. PICK r, g :
        /\ end \in {<<>>, <<r>>, <<g>>, <<r, g>>}
        /\ r.type = "GameFinished" /\ g.type = "Disconnect"
    <2>1. Table!Result.type = "GameFinished" /\ Table!Goodbye.type = "Disconnect"
        BY DEF Table!Result, Table!Goodbye, Table!Entry
    <2>2. end \in {<<>>, <<Table!Result>>, <<Table!Goodbye>>,
                  <<Table!Result, Table!Goodbye>>}
        BY <1>1 DEF Table!Endings
    <2>3. QED
        BY <2>1, <2>2
<1>4. PICK S : /\ Table!Moves \in Seq(S) /\ Len(Table!Moves) = n
               /\ \A k \in 1..n : /\ Table!Moves[k].type = "Movement"
                                  /\ Table!Moves[k].turn = k - 1
    <2> DEFINE S == {Table!Moves[i] : i \in 1..n}
    <2>1. Table!Moves \in [1..n -> S]
        BY DEF Table!Moves
    <2>2. PICK R : R = S
        OBVIOUS
    <2>3. Table!Moves \in [1..n -> R]
        BY <2>1, <2>2
    <2>4. Table!Moves \in Seq(R) /\ Len(Table!Moves) = n
        BY <1>2, <2>3
    <2>5. \A k \in 1..n : /\ Table!Moves[k].type = "Movement"
                          /\ Table!Moves[k].turn = k - 1
        BY <1>2 DEF Table!Moves, Table!Entry
    <2>6. QED
        BY <2>4, <2>5
<1>5. PICK T : T = S \cup {r, g}
    OBVIOUS
<1>6. Table!Moves \in Seq(T)
    BY <1>4, <1>5
<1>7. /\ end \in Seq(T) /\ Len(end) \in 0..2
      /\ \A k \in 1..Len(end) : end[k].type # "Movement"
      /\ Len(end) = 2 => end[1].type # end[2].type
    <2>1. r \in T /\ g \in T
        BY <1>5
    <2>2. CASE end = <<>>
        BY <2>2
    <2>3. ASSUME NEW m, m \in {r, g}, end = <<m>>
          PROVE  /\ end \in Seq(T) /\ Len(end) = 1
                 /\ end[1].type # "Movement"
        <3>1. m \in T /\ m.type # "Movement"
            BY <1>3, <2>1, <2>3
        <3>2. QED
            BY <2>3, <3>1
    <2>4. CASE end = <<r, g>>
        <3>1. /\ end \in Seq(T) /\ Len(end) = 2
              /\ end[1] = r /\ end[2] = g
            BY <2>1, <2>4
        <3>2. QED
            BY <1>3, <3>1
    <2>5. QED
        BY <1>3, <2>2, <2>3, <2>4
<1>8. /\ Len(broadcast) = n + Len(end)
      /\ \A k \in 1..n : broadcast[k] = Table!Moves[k]
      /\ \A k \in 1..Len(end) : broadcast[n + k] = end[k]
    <2>1. PICK moves, log : moves = Table!Moves /\ log = broadcast
        OBVIOUS
    <2>2. moves \in Seq(T) /\ end \in Seq(T) /\ log = moves \o end
        BY <1>1, <1>6, <1>7, <2>1
    <2>3. /\ Len(log) = Len(moves) + Len(end)
          /\ \A k \in 1..Len(moves) : log[k] = moves[k]
          /\ \A k \in 1..Len(end) : log[Len(moves) + k] = end[k]
        BY <2>2, Concatenated
    <2>4. QED
        BY <1>4, <2>1, <2>3
<1>9. \A k \in (n + 1)..Len(broadcast) : broadcast[k].type # "Movement"
    <2> SUFFICES ASSUME NEW k \in (n + 1)..Len(broadcast)
                 PROVE  broadcast[k].type # "Movement"
        OBVIOUS
    <2>1. k - n \in 1..Len(end) /\ n + (k - n) = k
        BY <1>2, <1>7, <1>8
    <2>2. QED
        BY <1>7, <1>8, <2>1
<1>10. Len(broadcast) \in n..(n + 2)
    BY <1>2, <1>7, <1>8
<1>11. Len(broadcast) = n + 2 => broadcast[n + 1].type # broadcast[n + 2].type
    <2> SUFFICES ASSUME Len(broadcast) = n + 2
                 PROVE  broadcast[n + 1].type # broadcast[n + 2].type
        OBVIOUS
    <2>1. Len(end) = 2 /\ 1 \in 1..Len(end) /\ 2 \in 1..Len(end)
        BY <1>2, <1>7, <1>8
    <2>2. QED
        BY <1>7, <1>8, <2>1
<1>12. \A k \in 1..n :
        broadcast[k].type = "Movement" /\ broadcast[k].turn = k - 1
    BY <1>4, <1>8
<1>13. QED
    BY <1>2, <1>9, <1>10, <1>11, <1>12

\* The channel holds every broadcast of a match of few turns: its moves, the
\* result and the Disconnect.
LEMMA ShortMatch ==
    ASSUME TypeOK, Transcript, MaxTurns + 2 <= BroadcastCapacity
    PROVE  Prompt
<1>1. Len(broadcast) \in Nat /\ Len(broadcast) <= BroadcastCapacity
    BY LogOfMatch, ServerAssumption, ChannelsAssumption
<1>2. QED
    BY <1>1, ChannelsAssumption DEF Prompt, Lag, TypeOK, ChannelsTypeOK

\* A channel that holds a whole match loses nothing, whoever is slow.
THEOREM ShortMatchHeard ==
    ASSUME MaxTurns + 2 <= BroadcastCapacity
    PROVE  Spec => [](HearsInOrder /\ HearsEveryMove)
<1>1. TypeOK /\ Transcript => Prompt
    BY ShortMatch
<1>2. QED
    BY <1>1, TypeCorrect, BroadcastsTell, HeardInOrder, EveryMoveHeard, PTL

----------------------------------------------------------------------------
\* HearsNoneTwice

\* A session is named after the connection that opened it.
Rooted ==
    \A c \in Conns :
        /\ hs[c] = "new" => session[c] = NoConn
        /\ session[c] # NoConn => session[session[c]] = session[c]

\* The same connection, or two of one session, neither in haste.
Akin(c, d) ==
    \/ c = d
    \/ /\ session[c] = session[d] /\ session[c] # NoConn
       /\ {c, d} \cap hasty = {}

\* Of these connections of a session at most one is still delivered on.
Alone == \A c, d \in Conns : c # d /\ Akin(c, d) => Left(c) \/ Left(d)

\* What d has heard are broadcasts among the first n.
Among(d, n) ==
    \A j \in Heard(d) : \E k \in 1..n : Same(inbox[d][j], broadcast[k])

\* Nothing is heard that was not told; nor, on the connections of a session,
\* what the one that is up has yet to read.
Logged == \A d \in Conns : Among(d, Len(broadcast))

Behind ==
    \A c \in running \ closed : \A d \in Conns :
        Akin(c, d) => Among(d, cursor[c])

LEMMA StaysNew ==
    ASSUME TypeOK, [Next]_vars, NEW c \in Conns, hs'[c] = "new"
    PROVE  hs[c] = "new" /\ session'[c] = session[c]
<1>1. ASSUME NEW d \in Conns, HandshakeStep(d) \/ Open(d)
      PROVE  hs[c] = "new" /\ session'[c] = session[c]
    BY <1>1 DEF HandshakeStep, HandshakeTask, Reject, Welcome, WelcomeFails,
        Notify, Open, Request, Hello, AskReconnect, Ask, BadFirst, TypeOK,
        HandshakeTypeOK
<1>2. CASE UNCHANGED handshakeVars
    BY <1>2 DEF handshakeVars
<1>3. QED
    BY <1>1, <1>2 DEF Next, vars, ServerStep, ClientStep, ClientTask, RecvTurn,
        ServerRxClosed, RecvBroadcast, SkipBroadcasts, RecvChoice, RecvStray,
        RemoteGone, Choose, Stray, Close

\* A connection that has opened a session keeps it.
LEMMA OpenedStays ==
    ASSUME TypeOK, Identity, Rooted, [Next]_vars, NEW s \in Conns,
           session[s] = s
    PROVE  session'[s] = s
<1>1. hs[s] \notin {"new", "asked"}
    BY ChannelsAssumption DEF Identity, ComesBack, Rooted
<1>2. QED
    BY <1>1, SessionChanges

LEMMA RootedStep ==
    ASSUME TypeOK, Identity, Rooted, [Next]_vars
    PROVE  Rooted'
<1>1. ASSUME NEW c \in Conns, hs'[c] = "new"
      PROVE  session'[c] = NoConn
    BY <1>1, StaysNew DEF Rooted
<1>2. ASSUME NEW c \in Conns, session'[c] # NoConn
      PROVE  session'[session'[c]] = session'[c]
    <2>1. PICK s : s = session'[c]
        OBVIOUS
    <2>2. s = c \/ (s \in Conns /\ session[s] = s)
        <3>1. CASE session'[c] = session[c]
            BY <1>2, <2>1, <3>1 DEF Rooted, TypeOK, HandshakeTypeOK
        <3>2. CASE session'[c] # session[c]
            BY <1>2, <2>1, <3>2, SessionChanges DEF Resumes
        <3>3. QED
            BY <3>1, <3>2
    <2>3. QED
        BY <2>1, <2>2, OpenedStays
<1>3. QED
    BY <1>1, <1>2 DEF Rooted

LEMMA AloneStep ==
    ASSUME TypeOK, Rooted, Alone, [Next]_vars
    PROVE  Alone'
<1>1. ASSUME NEW c \in Conns, NEW d \in Conns, c # d,
             session'[c] = session'[d], session'[c] # NoConn,
             session'[c] # session[c], c \notin hasty'
      PROVE  Left(d)
    <2>1. session[d] = session'[c]
        BY <1>1, SessionChanges
    <2>2. session'[c] # c
        BY <1>1, <2>1 DEF Rooted
    <2>3. QED
        BY <1>1, <2>1, <2>2, SessionChanges DEF Resumes
<1> SUFFICES ASSUME NEW c \in Conns, NEW d \in Conns, c # d,
                    session'[c] = session'[d], session'[c] # NoConn,
                    c \notin hasty', d \notin hasty'
             PROVE  Left(c)' \/ Left(d)'
    BY DEF Alone, Akin, Left, Dropped
<1>2. Left(c) \/ Left(d)
    <2>1. CASE session'[c] = session[c] /\ session'[d] = session[d]
        BY <2>1, HastyGrows DEF Alone, Akin
    <2>2. CASE session'[c] # session[c] \/ session'[d] # session[d]
        BY <1>1, <2>2
    <2>3. QED
        BY <2>1, <2>2
<1>3. QED
    BY <1>2, LeftBehind

LEMMA RootedKept == Spec => [](Rooted /\ Alone)
<1>1. Init => Rooted /\ Alone
    BY DEF Init, HandshakeInit, Rooted, Alone, Akin
<1>2. TypeOK /\ Named /\ Identity /\ Rooted /\ Alone /\ [Next]_vars
        => Rooted' /\ Alone'
    BY RootedStep, AloneStep
<1>3. QED
    BY <1>1, <1>2, TypeCorrect, IdentityKept, PTL DEF Spec

\* A message more is the next one of the log for its reader, and it comes
\* after all that was heard.
HearsNext(d, j) ==
    /\ d \in running \ closed /\ broadcast' = broadcast
    /\ cursor[d] + 1 \in 1..Len(broadcast) /\ cursor'[d] = cursor[d] + 1
    /\ \A i \in Heard(d) : i < j
    /\ Heard(d)' = Heard(d) \cup {j}
    /\ Same(inbox'[d][j], broadcast[cursor[d] + 1])

LEMMA HeardGrows ==
    ASSUME TypeOK, Named, [Next]_vars, NEW d \in Conns
    PROVE  /\ Heard(d)' = Heard(d) \/ \E j : HearsNext(d, j)
           /\ \A i \in Heard(d) : inbox'[d][i] = inbox[d][i]
<1>1. CASE \/ inbox'[d] = inbox[d]
           \/ \E m : m.type \notin Broadcasts /\ inbox'[d] = Append(inbox[d], m)
    BY <1>1, HeardSame
<1>2. CASE ReadsNext(d) /\ d \notin closed /\ UNCHANGED broadcast
    <2>1. /\ cursor[d] + 1 \in 1..Len(broadcast)
          /\ NextBroadcast(d).type \in Broadcasts
          /\ Same(NextBroadcast(d), broadcast[cursor[d] + 1])
        BY <1>2, ReadsBroadcast DEF ReadsNext, Broadcasts, Same
    <2>2. PICK j, m : j = Len(inbox[d]) + 1 /\ m = NextBroadcast(d)
        OBVIOUS
    <2>3. m.type \in Broadcasts /\ inbox'[d] = Append(inbox[d], m)
        BY <1>2, <2>1, <2>2 DEF ReadsNext
    <2>4. /\ Heard(d)' = Heard(d) \cup {j} /\ inbox'[d][j] = m
          /\ \A i \in Heard(d) : inbox'[d][i] = inbox[d][i]
        <3>1. Heard(d)' = Heard(d) \cup {j}
            BY <2>2, <2>3, HeardMore
        <3>2. inbox'[d][j] = m
            BY <2>2, <2>3, HeardMore
        <3>3. \A i \in Heard(d) : inbox'[d][i] = inbox[d][i]
            BY <2>2, <2>3, HeardMore
        <3>4. QED
            BY <3>1, <3>2, <3>3
    <2>5. Len(inbox[d]) \in Nat
        BY LenProperties DEF TypeOK, RemoteTypeOK
    <2>6. \A i \in Heard(d) : i < j
        BY <2>2, <2>5 DEF Heard
    <2>7. HearsNext(d, j)
        BY <1>2, <2>1, <2>2, <2>4, <2>6 DEF HearsNext, ReadsNext
    <2>8. QED
        BY <2>4, <2>7
<1>3. QED
    BY <1>1, <1>2, Reading DEF Answered, ReadsTurn, ReadsNext, Skips

LEMMA AmongMore ==
    ASSUME TypeOK, [Next]_vars, NEW d \in Conns,
           NEW n \in 0..Len(broadcast), Among(d, n),
           NEW k \in Nat, n <= k,
           Heard(d)' = Heard(d),
           \A i \in Heard(d) : inbox'[d][i] = inbox[d][i]
    PROVE  Among(d, k)'
<1> SUFFICES ASSUME NEW j \in Heard(d)
             PROVE  \E l \in 1..k : Same(inbox'[d][j], broadcast'[l])
    BY DEF Among, Same
<1>1. PICK l \in 1..n : Same(inbox[d][j], broadcast[l])
    BY DEF Among
<1>2. l \in 1..k /\ broadcast'[l] = broadcast[l]
    BY LogKept
<1>3. QED
    BY <1>1, <1>2

\* What c hears next is among what it has read then.
LEMMA AmongNext ==
    ASSUME TypeOK, [Next]_vars, NEW d \in Conns, NEW j, HearsNext(d, j),
           Among(d, cursor[d]), NEW k \in Nat, cursor[d] + 1 <= k,
           \A i \in Heard(d) : inbox'[d][i] = inbox[d][i]
    PROVE  Among(d, k)'
<1> SUFFICES ASSUME NEW i \in Heard(d) \cup {j}
             PROVE  \E l \in 1..k : Same(inbox'[d][i], broadcast[l])
    BY DEF Among, Same, HearsNext
<1>1. cursor[d] \in Nat
    BY DEF TypeOK, ChannelsTypeOK
<1>2. CASE i \in Heard(d)
    <2>1. PICK l \in 1..cursor[d] : Same(inbox[d][i], broadcast[l])
        BY <1>2 DEF Among
    <2>2. QED
        BY <1>1, <1>2, <2>1
<1>3. CASE i = j
    BY <1>1, <1>3 DEF HearsNext
<1>4. QED
    BY <1>2, <1>3

LEMMA CursorGrows ==
    ASSUME TypeOK, Named, [Next]_vars, NEW c \in running
    PROVE  cursor'[c] >= cursor[c]
<1>1. c \in Conns /\ cursor[c] \in Nat /\ Len(broadcast) \in Nat
    BY LenProperties DEF TypeOK, ChannelsTypeOK
<1>2. ~Answered(c)
    BY <1>1 DEF Answered, Named
<1>3. Skips(c) => cursor'[c] >= cursor[c]
    BY <1>1, ChannelsAssumption DEF Skips, Lag
<1>4. QED
    BY <1>1, <1>2, <1>3, Reading DEF ReadsTurn, ReadsNext

LEMMA LoggedStep ==
    ASSUME TypeOK, TypeOK', Named, CursorsInLog, Logged, Behind, [Next]_vars
    PROVE  Logged'
<1> SUFFICES ASSUME NEW d \in Conns, NEW k, k = Len(broadcast')
             PROVE  Among(d, k)'
    BY DEF Logged, Among
<1>1. PICK n : n = Len(broadcast)
    OBVIOUS
<1>2. n \in Nat /\ k \in Nat /\ n <= k
    BY <1>1, LogKept
<1>3. CASE Heard(d)' = Heard(d)
    <2>1. Among(d, n)
        BY <1>1 DEF Logged
    <2>2. QED
        BY <1>1, <1>2, <1>3, <2>1, AmongMore, HeardGrows
<1>4. ASSUME NEW j, HearsNext(d, j)
      PROVE  Among(d, k)'
    <2>1. Among(d, cursor[d]) /\ cursor[d] + 1 <= k
        BY <1>1, <1>4 DEF HearsNext, Behind, Akin
    <2>2. QED
        BY <1>2, <1>4, <2>1, AmongNext, HeardGrows
<1>5. QED
    BY <1>1, <1>3, <1>4, HeardGrows

\* A connection that has yet to be answered hears no broadcast.
LEMMA HearsNothingYet ==
    ASSUME TypeOK, Named, Quiet, [Next]_vars, NEW d \in Conns,
           hs[d] \in {"new", "asked"}
    PROVE  Heard(d)' = {}
<1>1. d \notin running /\ inbox[d] = <<>>
    BY DEF Named, Quiet
<1>2. Heard(d) = {}
    BY <1>1 DEF Heard
<1>3. QED
    BY <1>1, <1>2, HeardGrows DEF HearsNext

LEMMA BehindStep ==
    ASSUME TypeOK, TypeOK', Named, Quiet, CursorsInLog, Alone, Logged, Logged',
           Behind, [Next]_vars
    PROVE  Behind'
<1> SUFFICES ASSUME NEW c \in Conns, c \in running', c \notin closed',
                    NEW d \in Conns,
                    \/ c = d
                    \/ /\ session'[c] = session'[d] /\ session'[c] # NoConn
                       /\ c \notin hasty' /\ d \notin hasty',
                    NEW k, k = cursor'[c]
             PROVE  Among(d, k)'
    BY DEF Behind, Akin, Among, TypeOK, ChannelsTypeOK
<1>1. k \in Nat /\ cursor[c] \in 0..Len(broadcast)
    BY DEF TypeOK, ChannelsTypeOK, CursorsInLog
<1>3. CASE c \notin running
    <2>1. k = Len(broadcast)'
        BY <1>3, Subscribes
    <2>2. QED
        BY <2>1 DEF Logged, Among
<1>4. CASE c \in running
    <2>1. cursor[c] <= k
        BY <1>4, CursorGrows
    <2>2. c \in running \ closed
        BY <1>4, ClosedGrows
    <2>3. CASE Heard(d)' = Heard(d) /\ Akin(c, d)
        <3>1. Among(d, cursor[c])
            BY <2>2, <2>3 DEF Behind
        <3>2. QED
            BY <1>1, <2>1, <2>3, <3>1, AmongMore, HeardGrows
    <2>4. ASSUME NEW j, HearsNext(c, j), c = d
          PROVE  Among(d, k)'
        <3>1. Among(d, cursor[c]) /\ cursor[c] + 1 <= k
            BY <1>1, <2>2, <2>4 DEF Behind, Akin, HearsNext
        <3>2. QED
            BY <1>1, <2>4, <3>1, AmongNext, HeardGrows
    <2>5. CASE c # d /\ session'[d] # session[d]
        BY <2>5, SessionChanges, HearsNothingYet DEF Among
    <2>6. CASE c # d /\ session'[d] = session[d]
        <3>1. session'[c] = session[c]
            BY <1>4, SessionChanges DEF Named
        <3>2. Akin(c, d)
            BY <2>6, <3>1, HastyGrows DEF Akin
        <3>3. Left(d)
            BY <2>2, <2>6, <3>2 DEF Alone, Left, Dropped
        <3>4. Heard(d)' = Heard(d)
            BY <3>3, LeftBehind, HeardSame
        <3>5. QED
            BY <2>3, <3>2, <3>4
    <2>7. QED
        BY <2>3, <2>4, <2>5, <2>6, HeardGrows DEF Akin
<1>5. QED
    BY <1>3, <1>4

\* Each broadcast of a match is told once.
LEMMA ToldOnce ==
    ASSUME TypeOK, Transcript, NEW k \in 1..Len(broadcast),
           NEW l \in 1..Len(broadcast), k < l
    PROVE  ~Same(broadcast[k], broadcast[l])
<1>1. PICK n : n = status.turns
    OBVIOUS
<1>2. /\ n \in Nat /\ Len(broadcast) \in n..(n + 2)
      /\ \A i \in 1..n :
            broadcast[i].type = "Movement" /\ broadcast[i].turn = i - 1
      /\ \A i \in (n + 1)..Len(broadcast) : broadcast[i].type # "Movement"
      /\ Len(broadcast) = n + 2 =>
            broadcast[n + 1].type # broadcast[n + 2].type
    BY <1>1, LogOfMatch
<1>3. CASE l <= n
    <2>1. broadcast[k].turn = k - 1 /\ broadcast[l].turn = l - 1
        BY <1>2, <1>3
    <2>2. QED
        BY <2>1 DEF Same
<1>4. CASE k <= n /\ l > n
    <2>1. k \in 1..n /\ l \in (n + 1)..Len(broadcast)
        BY <1>2, <1>4
    <2>2. QED
        BY <1>2, <2>1 DEF Same
<1>5. CASE k > n
    <2>1. k = n + 1 /\ l = n + 2 /\ Len(broadcast) = n + 2
        BY <1>2, <1>5
    <2>2. QED
        BY <1>2, <2>1 DEF Same
<1>6. QED
    BY <1>2, <1>3, <1>4, <1>5

\* What d hears next comes after all that the connections of its session have
\* heard.
LEMMA HearsAfter ==
    ASSUME TypeOK, Behind, NEW d \in Conns, NEW j, HearsNext(d, j),
           NEW c \in Conns, Akin(d, c), NEW i \in Heard(c)
    PROVE  \E k, l \in 1..Len(broadcast) :
                /\ k < l /\ Same(inbox[c][i], broadcast[k])
                /\ Same(inbox'[d][j], broadcast[l])
<1>1. PICK k \in 1..cursor[d] : Same(inbox[c][i], broadcast[k])
    BY DEF Behind, Among, HearsNext
<1>2. cursor[d] \in Nat
    BY DEF TypeOK, ChannelsTypeOK
<1>3. /\ k \in 1..Len(broadcast) /\ k < cursor[d] + 1
      /\ cursor[d] + 1 \in 1..Len(broadcast)
      /\ Same(inbox'[d][j], broadcast[cursor[d] + 1])
    BY <1>2 DEF HearsNext
<1>4. QED
    BY <1>1, <1>3

LEMMA PrecedesStep ==
    ASSUME TypeOK, Named, HearsNoneTwice, Behind, [Next]_vars,
           NEW c \in Conns, NEW i \in Heard(c)', NEW j \in Heard(c)', i < j
    PROVE  Precedes(inbox[c][i], inbox[c][j])'
<1>1. \A n \in Heard(c) : inbox'[c][n] = inbox[c][n]
    BY HeardGrows
<1>2. /\ Len(broadcast') >= Len(broadcast) /\ Len(broadcast) \in Nat
      /\ Len(broadcast') \in Nat
      /\ \A n \in 1..Len(broadcast) : broadcast'[n] = broadcast[n]
    BY LogKept
<1>3. ASSUME NEW k \in 1..Len(broadcast), NEW l \in 1..Len(broadcast), k < l,
             Same(inbox'[c][i], broadcast[k]), Same(inbox'[c][j], broadcast[l])
      PROVE  Precedes(inbox[c][i], inbox[c][j])'
    <2>1. /\ k \in 1..Len(broadcast') /\ broadcast'[k] = broadcast[k]
          /\ l \in 1..Len(broadcast') /\ broadcast'[l] = broadcast[l]
        BY <1>2
    <2>2. QED
        BY <1>3, <2>1 DEF Precedes, Same
<1>4. CASE i \in Heard(c) /\ j \in Heard(c)
    <2>1. PICK k, l \in 1..Len(broadcast) :
            /\ k < l
            /\ Same(inbox[c][i], broadcast[k]) /\ Same(inbox[c][j], broadcast[l])
        BY <1>4 DEF HearsNoneTwice, Precedes
    <2>2. QED
        BY <1>1, <1>3, <1>4, <2>1
<1>5. ASSUME NEW n, HearsNext(c, n), i \notin Heard(c) \/ j \notin Heard(c)
      PROVE  Precedes(inbox[c][i], inbox[c][j])'
    <2>1. \A m \in Heard(c) : m < n /\ m \in Nat
        BY <1>5, LenProperties DEF HearsNext, Heard, TypeOK, RemoteTypeOK
    <2>2. n \in Nat
        BY <1>5 DEF HearsNext, Heard
    <2>3. i \in Heard(c) /\ j = n
        BY <1>5, <2>1, <2>2 DEF HearsNext
    <2>4. PICK k, l \in 1..Len(broadcast) :
            /\ k < l
            /\ Same(inbox[c][i], broadcast[k]) /\ Same(inbox'[c][j], broadcast[l])
        BY <1>5, <2>3, HearsAfter DEF Akin
    <2>5. QED
        BY <1>1, <1>3, <2>3, <2>4
<1>6. QED
    BY <1>4, <1>5, HeardGrows

LEMMA NotTwiceStep ==
    ASSUME TypeOK, Named, Quiet, Transcript, Alone, HearsNoneTwice, Behind,
           [Next]_vars, NEW c \in Conns, NEW d \in Conns, c # d,
           session'[c] = session'[d], session'[c] # NoConn,
           {c, d} \cap hasty' = {}, NEW i \in Heard(c)', NEW j \in Heard(d)'
    PROVE  ~Same(inbox'[c][i], inbox'[d][j])
<1>1. session'[c] = session[c] /\ session'[d] = session[d]
    BY SessionChanges, HearsNothingYet
<1>2. Akin(c, d) /\ Akin(d, c)
    BY <1>1, HastyGrows DEF Akin
<1>3. /\ \A n \in Heard(c) : inbox'[c][n] = inbox[c][n]
      /\ \A n \in Heard(d) : inbox'[d][n] = inbox[d][n]
    BY HeardGrows
<1>4. CASE i \in Heard(c) /\ j \in Heard(d)
    BY <1>1, <1>2, <1>3, <1>4 DEF HearsNoneTwice, Akin
<1>5. i \in Heard(c) \/ j \in Heard(d)
    BY <1>2, LeftBehind, HeardSame DEF Alone
<1>6. CASE i \in Heard(c) /\ j \notin Heard(d)
    <2>1. HearsNext(d, j)
        BY <1>6, HeardGrows DEF HearsNext
    <2>2. QED
        BY <1>2, <1>3, <1>6, <2>1, HearsAfter, ToldOnce DEF Same
<1>7. CASE j \in Heard(d) /\ i \notin Heard(c)
    <2>1. HearsNext(c, i)
        BY <1>7, HeardGrows DEF HearsNext
    <2>2. QED
        BY <1>2, <1>3, <1>7, <2>1, HearsAfter, ToldOnce DEF Same
<1>8. QED
    BY <1>4, <1>5, <1>6, <1>7

\* Whoever is late and however often it comes back: what a player hears on a
\* connection is in the order it was told and no part of it comes twice, nor
\* on two connections of its session, unless one of them was asked for while
\* another was up.  The channel may be of any capacity.
THEOREM HeardOnce == Spec => []HearsNoneTwice
<1> DEFINE Inv == Logged /\ Behind /\ HearsNoneTwice
<1>1. Init => Inv
    <2> SUFFICES ASSUME Init PROVE Inv
        OBVIOUS
    <2>1. running = {} /\ \A c \in Conns : inbox[c] = <<>>
        BY DEF Init, ChannelsInit, RemoteInit
    <2>2. \A c \in Conns : Heard(c) = {}
        BY <2>1 DEF Heard
    <2>3. QED
        BY <2>1, <2>2 DEF Logged, Behind, Among, HearsNoneTwice
<1>2. TypeOK /\ TypeOK' /\ Named /\ Routed /\ CursorsInLog /\ Alone /\ Transcript
        /\ Inv /\ [Next]_vars => Inv'
    <2> SUFFICES ASSUME TypeOK, TypeOK', Named, Routed, CursorsInLog, Alone,
                        Transcript, Inv, [Next]_vars
                 PROVE  Inv'
        OBVIOUS
    <2>1. Logged' /\ Behind'
        BY LoggedStep, BehindStep DEF Routed
    <2>2. HearsNoneTwice'
        <3>1. ASSUME NEW c \in Conns, NEW i \in Heard(c)', NEW j \in Heard(c)',
                     i < j
              PROVE  Precedes(inbox[c][i], inbox[c][j])'
            BY <3>1, PrecedesStep
        <3>2. ASSUME NEW c \in Conns, NEW d \in Conns, c # d,
                     session'[c] = session'[d], session'[c] # NoConn,
                     {c, d} \cap hasty' = {},
                     NEW i \in Heard(c)', NEW j \in Heard(d)'
              PROVE  ~Same(inbox[c][i], inbox[d][j])'
            BY <3>2, NotTwiceStep DEF Same, Routed
        <3>3. QED
            BY <3>1, <3>2 DEF HearsNoneTwice
    <2>3. QED
        BY <2>1, <2>2
<1>3. QED
    BY <1>1, <1>2, TypeCorrect, IdentityKept, RoutedKept, LatestKept,
        RootedKept, BroadcastsTell, PTL DEF Spec

----------------------------------------------------------------------------
\* EveryoneSawTheEnd

Parted(c) == Received(c, "Disconnect")

\* The Disconnect is the last thing told, and heard only after it is told.
LastWord ==
    /\ \A n \in 1..Len(broadcast) : broadcast[n].type = "Disconnect" =>
        n = Len(broadcast) /\ srv \in {"drain", "done"}
    /\ \A c \in Conns : Parted(c) => srv \in {"drain", "done"}

\* The far end has left, or a frame under way will end the stream.
Breaks(c, frames) ==
    \E i \in 1..Len(frames) :
        \/ frames[i].type = "Eof"
        \/ frames[i].type = "Garbled" /\ c \in Tcp

Leaves(c) == c \in closed \/ Breaks(c, to_server[c])

\* c has heard the end or, if players may leave before, has left.
Excused(c) == Parted(c) \/ (~Reliable /\ MayHaveEnded(c))

Faithful == \A c \in Conns : Leaves(c) => Excused(c)

\* Someone welcomed as p may have left.
Given(p) ==
    \E c \in Conns :
        hs[c] \in {"spawned", "done"} /\ player[c] = p /\ Excused(c)

\* The Server hears of no other departures.
Quits ==
    /\ \A p \in disconnected : Given(p)
    /\ \A i \in 1..Len(clients_rx) :
        clients_rx[i].type = "Disconnect" => Given(clients_rx[i].player)

\* The connection of a Hello keeps its seat until then.
Vacated ==
    \A s \in Conns : sessions[s] # NoPlayer =>
        clients_tx[sessions[s]] = s \/ Given(sessions[s])

AllGone == srv = "done" => \A p \in Players : ~Seated(p)

\* The inductive invariant, beside those above.
Loyal == LastWord /\ Faithful /\ Quits /\ Vacated /\ AllGone

\* Frames under way do not come to break a stream by themselves.
LEMMA BreaksRest ==
    ASSUME NEW c \in Conns, NEW q \in Seq(Frames), q # <<>>
    PROVE  /\ Breaks(c, Tail(q)) => Breaks(c, q)
           /\ Head(q).type = "Eof" => Breaks(c, q)
           /\ Head(q).type = "Garbled" /\ c \in Tcp => Breaks(c, q)
BY TailElements DEF Breaks

LEMMA BreaksMore ==
    ASSUME NEW c \in Conns, NEW q \in Seq(Frames), NEW f,
           Breaks(c, Append(q, f))
    PROVE  Breaks(c, q) \/ f.type = "Eof" \/ (f.type = "Garbled" /\ c \in Tcp)
BY AppendElements DEF Breaks

LEMMA LeavesWhenTold ==
    ASSUME TypeOK, [Next]_vars, NEW c \in Conns, Leaves(c)'
    PROVE  Leaves(c) \/ Parted(c) \/ (~Reliable /\ Excused(c)')
<1> USE DEF Leaves
<1>1. to_server[c] \in Seq(Frames)
    BY DEF TypeOK, RemoteTypeOK
<1>2. CASE UNCHANGED <<to_server, closed>>
    BY <1>2 DEF Breaks
<1>3. ASSUME NEW d \in Conns, EndTask(d), UNCHANGED closed
      PROVE  Leaves(c)
    <2>1. to_server'[c] = IF c = d THEN <<>> ELSE to_server[c]
        BY <1>3 DEF EndTask, TypeOK, RemoteTypeOK
    <2>2. QED
        BY <1>3, <2>1 DEF Breaks
<1>4. ASSUME NEW d \in Conns, RecvChoice(d)
      PROVE  Leaves(c)
    <2>1. /\ to_server'[c] = IF c = d THEN Tail(to_server[c]) ELSE to_server[c]
          /\ to_server[d] # <<>> /\ UNCHANGED closed
        BY <1>4 DEF RecvChoice, Arrived, TypeOK, RemoteTypeOK
    <2>2. QED
        BY <1>1, <2>1, BreaksRest
<1>5. ASSUME NEW d \in Conns, RecvStray(d)
      PROVE  Leaves(c)
    <2>1. /\ to_server'[c] = IF c # d THEN to_server[c]
                             ELSE IF Head(to_server[c]).type = "Garbled"
                             THEN AfterError(c, Tail(to_server[c]))
                             ELSE Tail(to_server[c])
          /\ to_server[d] # <<>> /\ UNCHANGED closed
        BY <1>5 DEF RecvStray, Arrived, TypeOK, RemoteTypeOK
    <2>2. QED
        BY <1>1, <2>1, BreaksRest DEF AfterError
<1>6. ASSUME NEW d \in Conns, RemoteChoose(d)
      PROVE  Leaves(c)
    <2>1. PICK t : to_server' = [to_server EXCEPT ![d] = Append(@, Choice(t))]
        BY <1>6 DEF RemoteChoose
    <2>2. /\ \/ to_server'[c] = to_server[c]
             \/ to_server'[c] = Append(to_server[c], Choice(t))
          /\ UNCHANGED closed
        BY <1>6, <2>1 DEF RemoteChoose, TypeOK, RemoteTypeOK
    <2>3. Choice(t).type = "Choice"
        BY DEF Choice
    <2>4. CASE to_server'[c] = to_server[c]
        BY <2>2, <2>4
    <2>5. CASE to_server'[c] = Append(to_server[c], Choice(t))
        BY <1>1, <2>2, <2>3, <2>5, BreaksMore
    <2>6. QED
        BY <2>2, <2>4, <2>5
<1>7. ASSUME NEW d \in Conns, RemoteStray(d)
      PROVE  Leaves(c) \/ Parted(c) \/ (~Reliable /\ Excused(c)')
    <2>1. PICK type \in {"Other", "Garbled"} :
            /\ Reliable /\ d \in Tcp /\ type = "Garbled" => Parted(d)
            /\ to_server' = [to_server EXCEPT ![d] = Append(@, Frame(type))]
        BY <1>7 DEF RemoteStray, Parted
    <2>2. /\ \/ to_server'[c] = to_server[c]
             \/ c = d /\ to_server'[c] = Append(to_server[c], Frame(type))
          /\ UNCHANGED closed /\ stray' = stray \cup {d}
        BY <1>7, <2>1 DEF RemoteStray, TypeOK, RemoteTypeOK
    <2>3. Leaves(c) \/ (c = d /\ type = "Garbled" /\ c \in Tcp)
        BY <1>1, <2>1, <2>2, BreaksMore DEF Frame
    <2>4. QED
        BY <2>1, <2>2, <2>3 DEF Excused, MayHaveEnded
<1>8. ASSUME NEW d \in Conns, RemoteClose(d)
      PROVE  Leaves(c) \/ Parted(c) \/ (~Reliable /\ Excused(c)')
    <2>1. PICK n \in 0..Len(to_server[d]) :
            to_server' = [to_server EXCEPT ![d] = SubSeq(@, 1, n)]
        BY <1>8 DEF RemoteClose
    <2>2. /\ c # d => to_server'[c] = to_server[c]
          /\ closed' = closed \cup {d} /\ (Reliable => Parted(d))
        BY <1>8, <2>1 DEF RemoteClose, Parted, TypeOK, RemoteTypeOK
    <2>3. CASE c = d
        BY <2>2, <2>3 DEF Excused, MayHaveEnded
    <2>4. CASE c # d
        BY <2>2, <2>4 DEF Breaks
    <2>5. QED
        BY <2>3, <2>4
<1>9. CASE ServerStep \/ UNCHANGED vars
    BY <1>2, <1>9 DEF ServerStep, vars, remoteVars
<1>10. ASSUME NEW d \in Conns, HandshakeStep(d) \/ Open(d)
       PROVE  Leaves(c)
    BY <1>2, <1>10 DEF HandshakeStep, HandshakeTask, Reject, Welcome,
        WelcomeFails, Notify, Open, Request, Hello, AskReconnect, Ask,
        BadFirst, remoteVars
<1>11. ASSUME NEW d \in Conns, ClientStep(d)
       PROVE  Leaves(c)
    <2>1. CASE RecvTurn(d) \/ RecvBroadcast(d)
        BY <1>2, <1>3, <2>1 DEF RecvTurn, RecvBroadcast
    <2>2. CASE ServerRxClosed(d) \/ RemoteGone(d)
        BY <1>3, <2>2 DEF ServerRxClosed, RemoteGone
    <2>3. CASE SkipBroadcasts(d)
        BY <1>2, <2>3 DEF SkipBroadcasts, remoteVars
    <2>4. QED
        BY <1>4, <1>5, <1>11, <2>1, <2>2, <2>3 DEF ClientStep, ClientTask
<1>12. QED
    BY <1>6, <1>7, <1>8, <1>9, <1>10, <1>11
    DEF Next, Choose, Stray, Close

LEMMA PartedStays ==
    ASSUME TypeOK, [Next]_vars, NEW c \in Conns, Parted(c)
    PROVE  Parted(c)'
<1>1. PICK i : i \in Got(c, "Disconnect")
    BY DEF Parted, Received
<1>2. i \in Got(c, "Disconnect")'
    BY <1>1, GotKept
<1>3. QED
    BY <1>2 DEF Parted, Received

LEMMA ExcusedStays ==
    ASSUME TypeOK, [Next]_vars, NEW c \in Conns, Excused(c)
    PROVE  Excused(c)'
<1>1. stray \subseteq stray'
    BY DEF Next, vars, remoteVars, ServerStep, ClientStep, ClientTask,
        RecvTurn, ServerRxClosed, RecvBroadcast, SkipBroadcasts, RecvChoice,
        RecvStray, RemoteGone, HandshakeStep, HandshakeTask, Reject, Welcome,
        WelcomeFails, Notify, Open, Request, Hello, AskReconnect, Ask,
        BadFirst, Choose, RemoteChoose, Stray, RemoteStray, Close, RemoteClose
<1>2. QED
    BY <1>1, ClosedGrows, PartedStays DEF Excused, MayHaveEnded

LEMMA FaithfulStep ==
    ASSUME TypeOK, Faithful, [Next]_vars
    PROVE  Faithful'
<1>1. ASSUME NEW c \in Conns, Leaves(c)'
      PROVE  Excused(c)'
    <2>1. Excused(c) \/ Excused(c)'
        BY <1>1, LeavesWhenTold DEF Faithful, Excused
    <2>2. QED
        BY <2>1, ExcusedStays
<1>2. QED
    BY <1>1 DEF Faithful

\* The Disconnect is told last: nothing is told, or registered, after it.
LEMMA SrvOver ==
    ASSUME [Next]_vars, srv \in {"drain", "done"}
    PROVE  /\ srv' \in {"drain", "done"}
           /\ UNCHANGED <<broadcast, sessions, disconnected>>
BY OthersLeaveServer DEF serverVars, ServerStep, ServerNext, AnswerFreePlayer,
    AnswerSession, Answer, ReadsMain, Connect, IgnoreConnected,
    IgnoreReconnected, IgnoreNotice, ConnectTimeout, EndGame, StartTurn,
    PauseTurn, Reconnect, RecvDisconnect, IgnoreChoice, ApplyChoice,
    ReadsClients, Stop, Drain, Shutdown, channelVars

LEMMA LastWordStep ==
    ASSUME TypeOK, LastWord, [Next]_vars
    PROVE  LastWord'
<1>1. ASSUME NEW c \in Conns, Parted(c)'
      PROVE  srv \in {"drain", "done"}
    <2>1. PICK i : i \in Got(c, "Disconnect")'
        BY <1>1 DEF Parted, Received
    <2>2. CASE i \in Got(c, "Disconnect")
        BY <2>2 DEF LastWord, Parted, Received
    <2>3. CASE Source(c, inbox'[c][i])
        <3>1. inbox'[c][i].type = "Disconnect"
            BY <2>1 DEF Got
        <3>2. /\ Lag(c) \in 1..BroadcastCapacity
              /\ inbox'[c][i] = NextBroadcast(c)
            BY <2>3, <3>1 DEF Source, TurnMessage
        <3>3. /\ cursor[c] + 1 \in 1..Len(broadcast)
              /\ broadcast[cursor[c] + 1].type = "Disconnect"
            BY <3>1, <3>2, ReadsBroadcast
        <3>4. QED
            BY <3>3 DEF LastWord
    <2>4. QED
        BY <2>1, <2>2, <2>3, GotMore
<1>2. \A c \in Conns : Parted(c)' => srv' \in {"drain", "done"}
    BY <1>1, SrvOver
<1>3. CASE srv \in {"drain", "done"}
    BY <1>2, <1>3, SrvOver DEF LastWord
<1>4. CASE srv \notin {"drain", "done"}
    <2>1. \A n \in 1..Len(broadcast) : broadcast[n].type # "Disconnect"
        BY <1>4 DEF LastWord
    <2>2. CASE broadcast' = broadcast
        BY <1>2, <2>1, <2>2 DEF LastWord
    <2>3. ASSUME NEW m \in ServerBroadcasts, broadcast' = Append(broadcast, m),
                 m.type = "Disconnect" => srv' = "drain"
          PROVE  LastWord'
        <3>1. /\ Len(broadcast) \in Nat /\ Len(broadcast') = Len(broadcast) + 1
              /\ broadcast'[Len(broadcast')] = m
              /\ \A n \in 1..Len(broadcast) : broadcast'[n] = broadcast[n]
            BY <2>3, AppendElements DEF TypeOK, ChannelsTypeOK
        <3>2. ASSUME NEW n \in 1..Len(broadcast'),
                     broadcast'[n].type = "Disconnect"
              PROVE  n = Len(broadcast') /\ srv' \in {"drain", "done"}
            BY <2>1, <2>3, <3>1, <3>2
        <3>3. QED
            BY <1>2, <3>2 DEF LastWord
    <2>4. QED
        BY <2>2, <2>3, LogGrows
<1>5. QED
    BY <1>3, <1>4

\* A session is registered once, as its connection is seated.
LEMMA Joins ==
    ASSUME TypeOK, Named, Identity, [Next]_vars, NEW s \in Conns,
           sessions'[s] # sessions[s]
    PROVE  /\ srv = "connect" /\ sessions[s] = NoPlayer
           /\ sessions'[s] \in Players
           /\ clients_tx'[sessions'[s]] = s
<1> DEFINE m == Head(main_rx)
<1>1. Connect
    BY OthersLeaveServer DEF serverVars, ServerStep, ServerNext,
        AnswerFreePlayer, AnswerSession, Answer, Connect, IgnoreConnected,
        IgnoreReconnected, IgnoreNotice, ConnectTimeout, EndGame, StartTurn,
        PauseTurn, Reconnect, RecvDisconnect, IgnoreChoice, ApplyChoice, Stop,
        Drain, Shutdown
<1>2. /\ srv = "connect" /\ main_rx # <<>> /\ m.type = "ClientConnected"
      /\ ~Seated(m.player)
    BY <1>1 DEF Connect
<1>3. m \in Held /\ m \in MainThreadMessages
    BY <1>2, Heads, HeldTyped DEF Held, TypeOK, ChannelsTypeOK
<1>4. /\ m.player \in Players /\ m.conn \in Conns /\ m.session = m.conn
      /\ player[m.conn] = m.player
    BY <1>2, <1>3, NoticeFields DEF Identity, Notices
<1>5. s = m.conn /\ sessions'[s] = m.player
    BY <1>1, <1>4 DEF Connect, TypeOK, ServerTypeOK
<1>6. sessions[s] = NoPlayer
    BY <1>2, <1>4, <1>5 DEF Identity, Registered
<1>7. clients_tx'[m.player] = s
    BY <1>1, <1>4, <1>5 DEF Connect, TypeOK, ChannelsTypeOK
<1>8. QED
    BY <1>2, <1>4, <1>5, <1>6, <1>7

LEMMA GivenStays ==
    ASSUME TypeOK, [Next]_vars, NEW p \in Players, Given(p)
    PROVE  Given(p)'
<1>1. PICK c \in Conns :
        hs[c] \in {"spawned", "done"} /\ player[c] = p /\ Excused(c)
    BY DEF Given
<1>2. player'[c] = p /\ hs'[c] \in {"spawned", "done"}
    BY <1>1, OnePlayer
<1>3. QED
    BY <1>1, <1>2, ExcusedStays DEF Given

LEMMA BreaksAtEnd ==
    ASSUME TypeOK, NEW d \in Conns, StreamEnds(d)
    PROVE  Leaves(d)
<1>1. CASE d \in closed
    BY <1>1 DEF Leaves
<1>2. CASE Arrived(d, {"Eof"})
    <2>1. to_server[d] \in Seq(Frames) /\ to_server[d] # <<>>
        BY <1>2 DEF Arrived, TypeOK, RemoteTypeOK
    <2>2. QED
        BY <1>2, <2>1, BreaksRest DEF Arrived, Leaves
<1>3. QED
    BY <1>1, <1>2 DEF StreamEnds

\* What the Server is told: what it was told before, the end of a stream, or
\* a choice.
LEMMA Reports ==
    ASSUME TypeOK, [Next]_vars, NEW i \in 1..Len(clients_rx')
    PROVE  \/ \E j \in 1..Len(clients_rx) : clients_rx'[i] = clients_rx[j]
           \/ clients_rx'[i].type = "Choice"
           \/ \E d \in Conns : /\ d \in running /\ StreamEnds(d)
                               /\ clients_rx'[i].player = player[d]
<1> DEFINE Goal ==
           \/ \E j \in 1..Len(clients_rx) : clients_rx'[i] = clients_rx[j]
           \/ clients_rx'[i].type = "Choice"
           \/ \E d \in Conns : /\ d \in running /\ StreamEnds(d)
                               /\ clients_rx'[i].player = player[d]
<1>1. clients_rx \in Seq(ClientMessages)
    BY DEF TypeOK, ChannelsTypeOK
<1>2. CASE clients_rx' = clients_rx
    BY <1>2
<1>3. CASE clients_rx # <<>> /\ clients_rx' = Tail(clients_rx)
    BY <1>1, <1>3, TailElements
<1>4. ASSUME NEW d \in Conns, NEW m, clients_rx' = Append(clients_rx, m),
             \/ m.type = "Choice"
             \/ d \in running /\ StreamEnds(d) /\ m.player = player[d]
      PROVE  Goal
    <2>1. /\ Len(clients_rx) \in Nat /\ i \in 1..(Len(clients_rx) + 1)
          /\ \A j \in 1..Len(clients_rx) : clients_rx'[j] = clients_rx[j]
          /\ clients_rx'[Len(clients_rx) + 1] = m
        BY <1>1, <1>4, AppendElements
    <2>2. CASE i = Len(clients_rx) + 1
        BY <1>4, <2>1, <2>2
    <2>3. CASE i # Len(clients_rx) + 1
        <3>1. i \in 1..Len(clients_rx)
            BY <2>1, <2>3
        <3>2. QED
            BY <2>1, <3>1
    <2>4. QED
        BY <2>2, <2>3
<1>5. ASSUME NEW d \in Conns, ClientStep(d)
      PROVE  Goal
    <2>1. CASE RecvChoice(d)
        <3>1. PICK m : clients_rx' = Append(clients_rx, m) /\ m.type = "Choice"
            BY <2>1 DEF RecvChoice
        <3>2. QED
            BY <1>4, <3>1
    <2>2. CASE RemoteGone(d)
        <3>1. PICK m : /\ clients_rx' = Append(clients_rx, m)
                       /\ d \in running /\ StreamEnds(d) /\ m.player = player[d]
            BY <2>2 DEF RemoteGone
        <3>2. QED
            BY <1>4, <3>1
    <2>3. QED
        BY <1>2, <1>5, <2>1, <2>2 DEF ClientStep, ClientTask, RecvTurn,
            ServerRxClosed, RecvBroadcast, SkipBroadcasts, RecvStray,
            channelVars
<1>6. CASE ServerStep
    BY <1>2, <1>3, <1>6 DEF ServerStep, ServerNext, AnswerFreePlayer,
        AnswerSession, Answer, Connect, IgnoreConnected, IgnoreReconnected,
        IgnoreNotice, ConnectTimeout, EndGame, StartTurn, PauseTurn,
        Reconnect, RecvDisconnect, IgnoreChoice, ReadsClients, ApplyChoice,
        Stop, Drain, Shutdown, channelVars
<1>7. ASSUME NEW d \in Conns, HandshakeStep(d) \/ Open(d)
      PROVE  Goal
    BY <1>2, <1>7 DEF HandshakeStep, HandshakeTask, Reject, Welcome,
        WelcomeFails, Notify, Open, Request, Hello, AskReconnect, Ask,
        BadFirst, channelVars
<1>8. QED
    BY <1>2, <1>5, <1>6, <1>7 DEF Next, vars, channelVars, Choose,
        RemoteChoose, Stray, RemoteStray, Close, RemoteClose

\* The departure the Server reads next.
LEMMA HeadGives ==
    ASSUME TypeOK, Quits, clients_rx # <<>>,
           Head(clients_rx).type = "Disconnect"
    PROVE  Head(clients_rx).player \in Players /\ Given(Head(clients_rx).player)
<1>1. clients_rx \in Seq(ClientMessages)
    BY DEF TypeOK, ChannelsTypeOK
<1>2. /\ 1 \in 1..Len(clients_rx) /\ clients_rx[1] = Head(clients_rx)
      /\ clients_rx[1] \in ClientMessages
    BY <1>1, TailElements
<1>3. QED
    BY <1>2 DEF Quits, ClientMessages

LEMMA QuitsStep ==
    ASSUME TypeOK, TypeOK', Named, Loyal, [Next]_vars
    PROVE  Quits'
<1> USE DEF Loyal
<1>1. ASSUME NEW p \in disconnected' PROVE Given(p)
    <2>1. CASE RecvDisconnect
        <3>1. /\ p \in disconnected \/ p = Head(clients_rx).player
              /\ clients_rx # <<>> /\ Head(clients_rx).type = "Disconnect"
            BY <1>1, <2>1 DEF RecvDisconnect, ReadsClients
        <3>2. QED
            BY <3>1, HeadGives DEF Quits
    <2>2. ~RecvDisconnect => p \in disconnected
        BY <1>1, OthersLeaveServer DEF serverVars, ServerStep, ServerNext,
            AnswerFreePlayer, AnswerSession, Answer, Connect, IgnoreConnected,
            IgnoreReconnected, IgnoreNotice, ConnectTimeout, EndGame,
            StartTurn, PauseTurn, Reconnect, IgnoreChoice, ApplyChoice, Stop,
            Drain, Shutdown
    <2>3. QED
        BY <2>1, <2>2 DEF Quits
<1>2. ASSUME NEW i \in 1..Len(clients_rx'), clients_rx'[i].type = "Disconnect"
      PROVE  Given(clients_rx'[i].player)
    <2>1. ASSUME NEW d \in Conns, d \in running, StreamEnds(d),
                 clients_rx'[i].player = player[d]
          PROVE  Given(clients_rx'[i].player)
        BY <2>1, BreaksAtEnd DEF Faithful, Given, Named
    <2>2. QED
        BY <1>2, <2>1, Reports DEF Quits
<1>3. /\ \A p \in disconnected' : p \in Players
      /\ \A i \in 1..Len(clients_rx') : clients_rx'[i].player \in Players
    <2>1. ASSUME NEW i \in 1..Len(clients_rx')
          PROVE  clients_rx'[i] \in ClientMessages
        BY ElementOfSeq DEF TypeOK, ChannelsTypeOK
    <2>2. QED
        BY <2>1 DEF ClientMessages, TypeOK, ServerTypeOK
<1>4. \A p \in disconnected' : Given(p)'
    BY <1>1, <1>3, GivenStays
<1>5. \A i \in 1..Len(clients_rx'), p \in Players :
        clients_rx'[i].type = "Disconnect" /\ p = clients_rx'[i].player =>
            Given(p)'
    BY <1>2, GivenStays
<1>6. QED
    BY <1>3, <1>4, <1>5 DEF Quits, Given

LEMMA VacatedStep ==
    ASSUME TypeOK, SeatOrAway, Named, Identity, Loyal, [Next]_vars
    PROVE  Vacated'
<1> USE DEF Loyal
<1> SUFFICES ASSUME NEW s \in Conns, sessions'[s] # NoPlayer,
                    ~Given(sessions[s])'
             PROVE  clients_tx'[sessions'[s]] = s
    BY DEF Vacated, Given
<1>1. CASE sessions'[s] # sessions[s]
    BY <1>1, Joins
<1>2. CASE sessions'[s] = sessions[s]
    <2>1. PICK p \in Players : p = sessions[s]
        BY <1>2 DEF TypeOK, ServerTypeOK
    <2>2. ~Given(p)
        BY <1>2, <2>1, GivenStays DEF Given
    <2>3. clients_tx[p] = s /\ Seated(p)
        BY <1>2, <2>1, <2>2, ChannelsAssumption DEF Vacated, Seated
    <2>4. clients_tx'[p] \in {s, NoConn}
        BY <2>3, SeatVacated
    <2>5. CASE Drain \/ RecvDisconnect
        <3>1. clients_rx # <<>>
            BY <2>5 DEF Drain, RecvDisconnect, ReadsClients
        <3>2. Head(clients_rx).type = "Disconnect" =>
                Head(clients_rx).player # p
            BY <2>2, <3>1, HeadGives
        <3>3. clients_tx'[p] = clients_tx[p]
            BY <2>5, <3>2 DEF Drain, RecvDisconnect, TypeOK, ChannelsTypeOK
        <3>4. QED
            BY <1>2, <2>1, <2>3, <3>3
    <2>6. CASE Connect \/ Reconnect
        <3>1. main_rx # <<>> /\ Head(main_rx).conn \in Conns
            BY <2>6, Heads, NoticeFields
            DEF Connect, Reconnect, TypeOK, ChannelsTypeOK
        <3>2. clients_tx'[p] \in {clients_tx[p], Head(main_rx).conn}
            BY <2>6 DEF Connect, Reconnect, TypeOK, ChannelsTypeOK
        <3>3. QED
            BY <1>2, <2>1, <2>3, <2>4, <3>1, <3>2, ChannelsAssumption
    <2>7. CASE ~(Drain \/ RecvDisconnect \/ Connect \/ Reconnect)
        <3>1. clients_tx' = clients_tx
            BY <2>7, OthersLeaveServer DEF ServerStep, ServerNext,
                AnswerFreePlayer, AnswerSession, Answer, IgnoreConnected,
                IgnoreReconnected, IgnoreNotice, ConnectTimeout, EndGame,
                StartTurn, PauseTurn, IgnoreChoice, ApplyChoice, Stop,
                Shutdown, channelVars
        <3>2. QED
            BY <1>2, <2>1, <2>3, <3>1
    <2>8. QED
        BY <2>5, <2>6, <2>7
<1>3. QED
    BY <1>1, <1>2

LEMMA AllGoneStep ==
    ASSUME AllGone, [Next]_vars
    PROVE  AllGone'
BY OthersLeaveServer DEF AllGone, Seated, serverVars, ServerStep, ServerNext,
    AnswerFreePlayer, AnswerSession, Answer, ReadsMain, Connect,
    IgnoreConnected, IgnoreReconnected, IgnoreNotice, ConnectTimeout, EndGame,
    StartTurn, SendTurn, PauseTurn, Reconnect, RecvDisconnect, IgnoreChoice,
    ApplyChoice, ReadsClients, Stop, Drain, Shutdown, channelVars

LEMMA LoyalKept == Spec => []Loyal
<1>1. Init => Loyal
    <2> SUFFICES ASSUME Init PROVE Loyal
        OBVIOUS
    <2>1. /\ srv = "connect" /\ broadcast = <<>>
          /\ clients_rx = <<>> /\ disconnected = {} /\ closed = {}
          /\ \A c \in Conns : /\ sessions[c] = NoPlayer
                              /\ inbox[c] = <<>> /\ to_server[c] = <<>>
        BY DEF Init, ChannelsInit, ServerInit, RemoteInit
    <2>2. \A c \in Conns : ~Parted(c) /\ ~Leaves(c)
        BY <2>1 DEF Parted, Received, Got, Leaves, Breaks
    <2>3. QED
        BY <2>1, <2>2 DEF Loyal, LastWord, Faithful, Quits, Vacated, AllGone
<1>2. TypeOK /\ TypeOK' /\ SeatOrAway /\ Named /\ Identity /\ Loyal
        /\ [Next]_vars => Loyal'
    <2> SUFFICES ASSUME TypeOK, TypeOK', SeatOrAway, Named, Identity, Loyal,
                        [Next]_vars
                 PROVE  Loyal'
        OBVIOUS
    <2>1. LastWord' /\ Faithful' /\ AllGone'
        BY LastWordStep, FaithfulStep, AllGoneStep DEF Loyal
    <2>2. Quits' /\ Vacated'
        BY QuitsStep, VacatedStep
    <2>3. QED
        BY <2>1, <2>2 DEF Loyal
<1>3. QED
    BY <1>1, <1>2, TypeCorrect, SeatsKept, IdentityKept, PTL DEF Spec

\* When the process exits, a player that has stayed connected has been told
\* everything, up to the Disconnect, if no other connection was welcomed as it;
\* whatever the connections of the other player do.  Each player hears of the
\* end through a Client of its own, and the Server only counts who has left:
\* it must not take a departure for that of a player who has yet to read.
THEOREM EndSeen == Spec /\ []Prompt => []EveryoneSawTheEnd
<1>1. TypeOK /\ FromTheFirst /\ Loyal => EveryoneSawTheEnd
    <2> SUFFICES ASSUME TypeOK, FromTheFirst, Loyal, srv = "done",
                        NEW s \in Conns, sessions[s] # NoPlayer, Stays(s),
                        Only(s, sessions[s])
                 PROVE  HeardToTheEnd(s)
        BY DEF EveryoneSawTheEnd
    <2>1. clients_tx[sessions[s]] = NoConn
        BY DEF Loyal, AllGone, Seated, TypeOK, ServerTypeOK
    <2>2. Excused(s)
        BY <2>1, ChannelsAssumption DEF Loyal, Vacated, Given, Only
    <2>3. Parted(s)
        BY <2>2 DEF Excused, Stays, Parted
    <2>4. PICK i \in Got(s, "Disconnect") : TRUE
        BY <2>3 DEF Parted, Received
    <2>5. i \in Heard(s) /\ inbox[s][i].type = "Disconnect"
        BY DEF Got, Heard
    <2>6. /\ Cardinality(Heard(s)) <= Len(broadcast)
          /\ broadcast[Nth(s, i)].type = "Disconnect"
          /\ Nth(s, i) \in 1..Cardinality(Heard(s))
          /\ Cardinality(Heard(s)) \in Nat /\ Len(broadcast) \in Nat
        BY <2>5, HeardFinite
        DEF FromTheFirst, Tells, Same, TypeOK, ChannelsTypeOK
    <2>7. Nth(s, i) = Len(broadcast)
        BY <2>6 DEF Loyal, LastWord
    <2>8. QED
        BY <2>5, <2>6, <2>7 DEF HeardToTheEnd
<1>2. QED
    BY <1>1, LoyalKept, InOrderKept, TypeCorrect, PTL

\* In particular of a match the channel holds whole.
THEOREM ShortMatchSeen ==
    ASSUME MaxTurns + 2 <= BroadcastCapacity
    PROVE  Spec => []EveryoneSawTheEnd
<1>1. TypeOK /\ Transcript => Prompt
    BY ShortMatch
<1>2. Spec /\ []Prompt => []EveryoneSawTheEnd
    BY EndSeen
<1>3. QED
    BY <1>1, <1>2, TypeCorrect, BroadcastsTell, PTL

----------------------------------------------------------------------------
\* AnswersThisTurn

Choices(frames) == {i \in 1..Len(frames) : frames[i].type = "Choice"}

\* The remote player of c has yet to answer a Turn.
Owes(c) == chosen[c] = 0 /\ Received(c, "Turn")

\* The turn offered, in the queue of c, before its player, among the frames
\* c has under way or in clients_rx, is nowhere else.
OnlyAt(place, c) ==
    /\ \A d \in Conns :
        /\ server_rx[d] = <<>> \/ (place = "queue" /\ d = c)
        /\ ~Owes(d) \/ (place = "player" /\ d = c)
        /\ Choices(to_server[d]) = {} \/ (place = "frames" /\ d = c)
    /\ Choices(clients_rx) = {} \/ place = "server"

Places == {"queue", "player", "frames", "server"}

\* An offered turn is in one place, once, and it is the turn being played.
OneAnswer ==
    /\ \E place \in Places, c \in Conns \cup {NoConn} : OnlyAt(place, c)
    /\ srv # "select" => OnlyAt("nowhere", NoConn)
    /\ \A c \in Conns :
        /\ server_rx[c] \in {<<>>, <<status.turns>>}
        /\ \A i \in Got(c, "Turn") :
            chosen[c] = 0 /\ (\A j \in Got(c, "Turn") : j <= i) =>
                inbox[c][i].turn = status.turns
        /\ \A i \in Choices(to_server[c]) : to_server[c][i].turn = status.turns
        /\ \A i, j \in Choices(to_server[c]) : i = j
    /\ \A i \in Choices(clients_rx) : clients_rx[i].turn = status.turns
    /\ \A i, j \in Choices(clients_rx) : i = j

\* r has no choice that q does not have, and has each once for each in q.
Fewer(q, r) ==
    \E k \in {0, 1} : \A i \in Choices(r) : i + k \in Choices(q) /\ r[i] = q[i + k]

LEMMA FewerChoices ==
    ASSUME NEW q, NEW r, Fewer(q, r)
    PROVE  /\ Choices(q) = {} => Choices(r) = {}
           /\ \A n : (\A i \in Choices(q) : q[i].turn = n) =>
                     (\A i \in Choices(r) : r[i].turn = n)
           /\ (\A i, j \in Choices(q) : i = j) => \A i, j \in Choices(r) : i = j
<1>1. PICK k \in {0, 1} :
        \A i \in Choices(r) : i + k \in Choices(q) /\ r[i] = q[i + k]
    BY DEF Fewer
<1>2. \A i \in Choices(r) : i \in Int
    BY DEF Choices
<1>3. QED
    BY <1>1, <1>2

LEMMA FewerTail ==
    ASSUME NEW S, NEW q \in Seq(S), q # <<>>
    PROVE  /\ Fewer(q, Tail(q))
           /\ Head(q).type = "Choice" => 1 \in Choices(q) /\ q[1] = Head(q)
<1>1. /\ Len(q) \in Nat \ {0} /\ Len(Tail(q)) = Len(q) - 1 /\ Head(q) = q[1]
      /\ \A i \in 1..Len(Tail(q)) :
            i + 1 \in 1..Len(q) /\ Tail(q)[i] = q[i + 1]
    BY TailElements
<1>2. \A i \in Choices(Tail(q)) : i + 1 \in Choices(q) /\ Tail(q)[i] = q[i + 1]
    BY <1>1 DEF Choices
<1>3. QED
    BY <1>1, <1>2 DEF Fewer, Choices

LEMMA FewerAppend ==
    ASSUME NEW S, NEW q \in Seq(S), NEW f
    PROVE  /\ f.type # "Choice" => Fewer(q, Append(q, f))
           /\ f.type = "Choice" =>
                Choices(Append(q, f)) = Choices(q) \cup {Len(q) + 1}
           /\ Append(q, f)[Len(q) + 1] = f
<1>1. /\ Len(q) \in Nat /\ Len(Append(q, f)) = Len(q) + 1
      /\ \A i \in 1..Len(q) : Append(q, f)[i] = q[i]
      /\ Append(q, f)[Len(q) + 1] = f
    BY AppendElements
<1>2. f.type = "Choice" => Choices(Append(q, f)) = Choices(q) \cup {Len(q) + 1}
    BY <1>1 DEF Choices
<1>3. ASSUME f.type # "Choice"
      PROVE  Fewer(q, Append(q, f))
    <2>1. \A i \in Choices(Append(q, f)) :
            i + 0 \in Choices(q) /\ Append(q, f)[i] = q[i + 0]
        BY <1>1, <1>3 DEF Choices
    <2>2. QED
        BY <2>1 DEF Fewer
<1>4. QED
    BY <1>1, <1>2, <1>3

LEMMA FewerPart ==
    ASSUME NEW S, NEW q \in Seq(S)
    PROVE  /\ \A n \in 0..Len(q) : Fewer(q, SubSeq(q, 1, n))
           /\ \A r : Choices(r) = {} => Fewer(q, r)
           /\ Fewer(q, q)
<1>1. Len(q) \in Nat
    BY LenProperties
<1>2. ASSUME NEW n \in 0..Len(q)
      PROVE  Fewer(q, SubSeq(q, 1, n))
    <2>1. /\ Len(SubSeq(q, 1, n)) = n
          /\ \A i \in 1..n : SubSeq(q, 1, n)[i] = q[i]
        BY <1>1
    <2>2. \A i \in Choices(SubSeq(q, 1, n)) :
            i + 0 \in Choices(q) /\ SubSeq(q, 1, n)[i] = q[i + 0]
        BY <1>1, <2>1 DEF Choices
    <2>3. QED
        BY <2>2 DEF Fewer
<1>3. \A i \in Choices(q) : i + 0 = i
    BY DEF Choices
<1>4. QED
    BY <1>2, <1>3 DEF Fewer

\* A step that passes no turn on, for what c holds.
Fades(c) ==
    /\ server_rx'[c] \in {server_rx[c], <<>>}
    /\ chosen'[c] = chosen[c] /\ Got(c, "Turn")' = Got(c, "Turn")
    /\ \A i \in Got(c, "Turn") : inbox'[c][i] = inbox[c][i]
    /\ Fewer(to_server[c], to_server'[c])

LEMMA OneAnswerFades ==
    ASSUME OneAnswer, \A c \in Conns : Fades(c), Fewer(clients_rx, clients_rx'),
           status' = status, srv = "select" => srv' = "select"
    PROVE  OneAnswer'
<1>1. ASSUME NEW place, NEW c, OnlyAt(place, c)
      PROVE  OnlyAt(place, c)'
    BY <1>1, FewerChoices DEF Fades, OnlyAt, Owes, Received
<1>2. \A c \in Conns :
        /\ server_rx'[c] \in {<<>>, <<status'.turns>>}
        /\ \A i \in Got(c, "Turn")' :
            chosen'[c] = 0 /\ (\A j \in Got(c, "Turn")' : j <= i) =>
                inbox'[c][i].turn = status'.turns
    BY DEF OneAnswer, Fades
<1>3. ASSUME NEW c \in Conns
      PROVE  /\ \A i \in Choices(to_server'[c]) :
                    to_server'[c][i].turn = status'.turns
             /\ \A i, j \in Choices(to_server'[c]) : i = j
    <2>1. PICK q, r, n :
            q = to_server[c] /\ r = to_server'[c] /\ n = status.turns
        OBVIOUS
    <2>2. /\ Fewer(q, r) /\ \A i \in Choices(q) : q[i].turn = n
          /\ \A i, j \in Choices(q) : i = j
        BY <2>1 DEF OneAnswer, Fades
    <2>3. \A i \in Choices(r) : r[i].turn = n
        BY <2>2, FewerChoices
    <2>4. \A i, j \in Choices(r) : i = j
        BY <2>2, FewerChoices
    <2>5. QED
        BY <2>1, <2>3, <2>4
<1>4. /\ \A i \in Choices(clients_rx') : clients_rx'[i].turn = status'.turns
      /\ \A i, j \in Choices(clients_rx') : i = j
    BY FewerChoices DEF OneAnswer
<1>5. QED
    BY <1>1, <1>2, <1>3, <1>4 DEF OneAnswer

\* Whoever holds the turn is the only one.
LEMMA OnlyPlace ==
    ASSUME OneAnswer
    PROVE  /\ \A c \in Conns :
                /\ server_rx[c] # <<>> => OnlyAt("queue", c)
                /\ Owes(c) => OnlyAt("player", c)
                /\ Choices(to_server[c]) # {} => OnlyAt("frames", c)
           /\ Choices(clients_rx) # {} => OnlyAt("server", NoConn)
BY DEF OneAnswer, OnlyAt

LEMMA FadesSame ==
    ASSUME TypeOK, NEW c \in Conns, server_rx'[c] = server_rx[c],
           inbox'[c] = inbox[c], chosen'[c] = chosen[c],
           to_server'[c] = to_server[c]
    PROVE  Fades(c)
BY FewerPart DEF Fades, Got, TypeOK, RemoteTypeOK

LEMMA FadesEnd ==
    ASSUME TypeOK, NEW d \in Conns, EndTask(d), UNCHANGED <<inbox, chosen>>,
           NEW c \in Conns
    PROVE  Fades(c)
<1>1. CASE c # d
    BY <1>1, FadesSame DEF EndTask, TypeOK, ChannelsTypeOK, RemoteTypeOK
<1>2. CASE c = d
    <2>1. server_rx'[c] = <<>> /\ to_server'[c] = <<>>
        BY <1>2 DEF EndTask, TypeOK, ChannelsTypeOK, RemoteTypeOK
    <2>2. Choices(<<>>) = {}
        BY DEF Choices
    <2>3. Fewer(to_server[c], to_server'[c])
        BY <2>1, <2>2, FewerPart DEF TypeOK, RemoteTypeOK
    <2>4. QED
        BY <2>1, <2>3 DEF Fades, Got
<1>3. QED
    BY <1>1, <1>2

LEMMA FadesDeliver ==
    ASSUME TypeOK, NEW d \in Conns, NEW m, Deliver(d, m), m.type # "Turn",
           UNCHANGED <<server_rx, to_server>>, NEW c \in Conns
    PROVE  Fades(c)
<1>1. chosen' = chosen
    BY DEF Deliver
<1>2. inbox'[c] \in {inbox[c], Append(inbox[c], m)}
    BY Delivers
<1>3. CASE inbox'[c] = inbox[c]
    BY <1>1, <1>3, FadesSame
<1>4. CASE inbox'[c] = Append(inbox[c], m)
    <2>1. /\ Len(inbox[c]) \in Nat /\ Len(inbox'[c]) = Len(inbox[c]) + 1
          /\ \A i \in 1..Len(inbox[c]) : inbox'[c][i] = inbox[c][i]
          /\ inbox'[c][Len(inbox[c]) + 1] = m
        BY <1>4, AppendElements DEF TypeOK, RemoteTypeOK
    <2>2. Got(c, "Turn")' = Got(c, "Turn")
        BY <2>1 DEF Got
    <2>3. \A i \in Got(c, "Turn") : inbox'[c][i] = inbox[c][i]
        BY <2>1 DEF Got
    <2>4. Fewer(to_server[c], to_server'[c])
        BY FewerPart DEF TypeOK, RemoteTypeOK
    <2>5. QED
        BY <1>1, <2>2, <2>3, <2>4 DEF Fades
<1>5. QED
    BY <1>2, <1>3, <1>4

\* The five steps that pass a turn on.

LEMMA OneAnswerStartTurn ==
    ASSUME TypeOK, OneAnswer, StartTurn, UNCHANGED remoteVars
    PROVE  OneAnswer'
<1>1. OnlyAt("nowhere", NoConn)
    BY DEF OneAnswer, StartTurn
<1>2. \A c \in Conns : /\ server_rx[c] = <<>> /\ ~Owes(c)
                       /\ Choices(to_server[c]) = {}
    BY <1>1 DEF OnlyAt
<1>3. Choices(clients_rx) = {}
    BY <1>1 DEF OnlyAt
<1>4. UNCHANGED <<to_server, inbox, chosen, clients_rx, status>>
    BY DEF StartTurn, remoteVars
<1>5. CASE server_rx' = server_rx
    <2>1. \A c \in Conns : Fades(c)
        BY <1>4, <1>5, FadesSame
    <2>2. Fewer(clients_rx, clients_rx')
        BY <1>4, FewerPart DEF TypeOK, ChannelsTypeOK
    <2>3. srv # "select"
        BY DEF StartTurn
    <2>4. QED
        BY <1>4, <2>1, <2>2, <2>3, OneAnswerFades
<1>6. ASSUME NEW d \in Conns, srv' = "select",
             server_rx' = [server_rx EXCEPT ![d] = Append(@, status.turns)]
      PROVE  OneAnswer'
    <2>1. \A c \in Conns :
            server_rx'[c] = IF c = d THEN <<status.turns>> ELSE <<>>
        <3>1. \A c \in Conns : server_rx'[c] =
                IF c = d THEN Append(server_rx[c], status.turns)
                ELSE server_rx[c]
            BY <1>6 DEF TypeOK, ChannelsTypeOK
        <3>2. Append(<<>>, status.turns) = <<status.turns>>
            OBVIOUS
        <3>3. QED
            BY <1>2, <3>1, <3>2
    <2>2. OnlyAt("queue", d)'
        BY <1>2, <1>3, <1>4, <2>1 DEF OnlyAt, Owes, Received, Got
    <2>3. \A c \in Conns :
            /\ server_rx'[c] \in {<<>>, <<status'.turns>>}
            /\ \A i \in Got(c, "Turn")' : chosen'[c] # 0
            /\ Choices(to_server'[c]) = {}
        BY <1>2, <1>4, <2>1 DEF Owes, Received, Got
    <2>4. QED
        BY <1>3, <1>4, <1>6, <2>2, <2>3 DEF OneAnswer, Places
<1>7. QED
    BY <1>5, <1>6 DEF StartTurn, SendTurn, Current, TypeOK, ChannelsTypeOK

LEMMA OneAnswerApply ==
    ASSUME TypeOK, OneAnswer, ApplyChoice, UNCHANGED remoteVars
    PROVE  OneAnswer' /\ Head(clients_rx).turn = status.turns
<1>1. /\ clients_rx \in Seq(ClientMessages) /\ clients_rx # <<>>
      /\ Head(clients_rx).type = "Choice" /\ clients_rx' = Tail(clients_rx)
    BY DEF ApplyChoice, ReadsClients, TypeOK, ChannelsTypeOK
<1>2. 1 \in Choices(clients_rx) /\ clients_rx[1] = Head(clients_rx)
    BY <1>1, FewerTail
<1>3. OnlyAt("server", NoConn)
    BY <1>2, OnlyPlace
<1>4. Choices(clients_rx') = {}
    <2>1. \A i \in Choices(clients_rx') :
            i \in 1..Len(Tail(clients_rx)) /\ i + 1 \in Choices(clients_rx)
        BY <1>1, TailElements DEF Choices
    <2>2. \A i \in Choices(clients_rx) : i = 1
        BY <1>2 DEF OneAnswer
    <2>3. \A i \in 1..Len(Tail(clients_rx)) : i + 1 # 1
        OBVIOUS
    <2>4. QED
        BY <2>1, <2>2, <2>3
<1>5. UNCHANGED <<to_server, inbox, chosen, server_rx>> /\ srv' # "select"
    BY DEF ApplyChoice, remoteVars
<1>6. \A c \in Conns : /\ server_rx'[c] = <<>> /\ ~Owes(c)'
                       /\ Choices(to_server'[c]) = {}
    BY <1>3, <1>5 DEF OnlyAt, Owes, Received, Got
<1>7. OnlyAt("nowhere", NoConn)' /\ OnlyAt("server", NoConn)'
    BY <1>4, <1>6 DEF OnlyAt
<1>8. \A c \in Conns : \A i \in Got(c, "Turn")' : chosen'[c] # 0
    BY <1>6 DEF Owes, Received
<1>9. OneAnswer'
    BY <1>4, <1>6, <1>7, <1>8 DEF OneAnswer, Places
<1>10. QED
    BY <1>2, <1>9 DEF OneAnswer

LEMMA OneAnswerRecvTurn ==
    ASSUME TypeOK, OneAnswer, NEW d \in Conns, RecvTurn(d),
           UNCHANGED <<status, srv>>
    PROVE  OneAnswer'
<1>1. CASE EndTask(d) /\ UNCHANGED <<inbox, chosen>>
    <2>1. \A c \in Conns : Fades(c)
        BY <1>1, FadesEnd
    <2>2. Fewer(clients_rx, clients_rx')
        BY FewerPart DEF RecvTurn, TypeOK, ChannelsTypeOK
    <2>3. QED
        BY <2>1, <2>2, OneAnswerFades
<1>2. CASE /\ Deliver(d, TurnMessage(Head(server_rx[d])))
           /\ server_rx' = [server_rx EXCEPT ![d] = Tail(@)]
           /\ UNCHANGED to_server
    <2>1. OnlyAt("queue", d)
        BY OnlyPlace DEF RecvTurn
    <2>2. server_rx[d] = <<status.turns>>
        BY DEF OneAnswer, RecvTurn
    <2>3. Head(server_rx[d]) = status.turns /\ Tail(server_rx[d]) = <<>>
        BY <2>2
    <2>4. \A c \in Conns : /\ server_rx'[c] = <<>> /\ ~Owes(c)
                           /\ Choices(to_server[c]) = {}
        BY <1>2, <2>1, <2>3 DEF OnlyAt, TypeOK, ChannelsTypeOK
    <2>5. Choices(clients_rx') = {} /\ UNCHANGED clients_rx
        BY <2>1 DEF OnlyAt, RecvTurn
    <2>6. CASE d \in closed
        <3>1. UNCHANGED <<inbox, chosen>>
            BY <1>2, <2>6 DEF Deliver
        <3>2. \A c \in Conns : Fades(c)
            BY <1>2, <2>4, <3>1, FewerPart
            DEF Fades, Got, TypeOK, RemoteTypeOK
        <3>3. Fewer(clients_rx, clients_rx')
            BY <2>5, FewerPart DEF TypeOK, ChannelsTypeOK
        <3>4. QED
            BY <3>2, <3>3, OneAnswerFades
    <2>7. CASE d \notin closed
        <3>1. TurnMessage(status.turns).type = "Turn"
              /\ TurnMessage(status.turns).turn = status.turns
            BY DEF TurnMessage
        <3>2. /\ inbox'[d] = Append(inbox[d], TurnMessage(status.turns))
              /\ \A c \in Conns : c # d =>
                    inbox'[c] = inbox[c] /\ chosen'[c] = chosen[c]
            BY <1>2, <2>3, <2>7, <3>1
            DEF Deliver, TypeOK, RemoteTypeOK
        <3>3. /\ Len(inbox[d]) \in Nat /\ Len(inbox'[d]) = Len(inbox[d]) + 1
              /\ inbox'[d][Len(inbox[d]) + 1] = TurnMessage(status.turns)
            BY <3>2, AppendElements DEF TypeOK, RemoteTypeOK
        <3>4. Len(inbox[d]) + 1 \in Got(d, "Turn")'
            BY <3>1, <3>3 DEF Got
        <3>5. \A i \in Got(d, "Turn")' :
                (\A j \in Got(d, "Turn")' : j <= i) =>
                    inbox'[d][i].turn = status'.turns
            <4>1. \A i \in Got(d, "Turn")' :
                    i \in Nat /\ i <= Len(inbox[d]) + 1
                BY <3>3 DEF Got
            <4>2. \A i \in Got(d, "Turn")' : Len(inbox[d]) + 1 <= i =>
                    i = Len(inbox[d]) + 1
                BY <3>3, <4>1
            <4>3. QED
                BY <3>1, <3>3, <3>4, <4>2
        <3>6. \A c \in Conns : c # d =>
                ~Owes(c)' /\ \A i \in Got(c, "Turn")' : chosen'[c] # 0
            BY <2>4, <3>2 DEF Owes, Received, Got
        <3>7. OnlyAt("player", d)'
            BY <1>2, <2>4, <2>5, <3>6 DEF OnlyAt
        <3>8. srv = "select"
            BY <2>1, <2>2 DEF OneAnswer, OnlyAt
        <3>9. \A c \in Conns : /\ server_rx'[c] = <<>>
                               /\ Choices(to_server'[c]) = {}
            BY <1>2, <2>4
        <3>10. QED
            BY <2>5, <3>5, <3>6, <3>7, <3>8, <3>9 DEF OneAnswer, Places
    <2>8. QED
        BY <2>6, <2>7
<1>3. QED
    BY <1>1, <1>2 DEF RecvTurn, TurnMessage

LEMMA OneAnswerChoose ==
    ASSUME TypeOK, OneAnswer, ChoicesPerTurn = 1, NEW d \in Conns,
           RemoteChoose(d), UNCHANGED <<status, srv>>
    PROVE  OneAnswer'
<1>1. PICK n \in Got(d, "Turn") :
        /\ \A j \in Got(d, "Turn") : j <= n
        /\ to_server' = [to_server EXCEPT ![d] =
                            Append(@, Choice(inbox[d][n].turn))]
    BY DEF RemoteChoose
<1>2. /\ chosen[d] = 0
      /\ \A c \in Conns : chosen'[c] = IF c = d THEN 1 ELSE chosen[c]
    <2>1. /\ chosen \in [Conns -> Nat] /\ chosen[d] < 1
          /\ chosen' = [chosen EXCEPT ![d] = @ + 1]
        BY DEF RemoteChoose, TypeOK, RemoteTypeOK
    <2>2. chosen[d] = 0
        BY <2>1
    <2>3. QED
        BY <2>1, <2>2
<1>3. OnlyAt("player", d) /\ srv = "select"
    <2>1. OnlyAt("player", d)
        BY <1>1, <1>2, OnlyPlace DEF Owes, Received
    <2>2. QED
        BY <1>1, <1>2, <2>1 DEF OneAnswer, OnlyAt, Owes, Received
<1>4. inbox[d][n].turn = status.turns
    BY <1>1, <1>2 DEF OneAnswer
<1>5. UNCHANGED <<inbox, clients_rx, server_rx>>
    BY DEF RemoteChoose, channelVars
<1>6. \A c \in Conns : /\ server_rx'[c] = <<>> /\ ~Owes(c)'
                       /\ \A i \in Got(c, "Turn")' : chosen'[c] # 0
    <2>1. ASSUME NEW c \in Conns
          PROVE  ~Owes(c)' /\ \A i \in Got(c, "Turn")' : chosen'[c] # 0
        <3>1. CASE c = d
            BY <1>2, <3>1 DEF Owes
        <3>2. CASE c # d
            BY <1>2, <1>3, <1>5, <3>2 DEF OnlyAt, Owes, Received, Got
        <3>3. QED
            BY <3>1, <3>2
    <2>2. QED
        BY <1>3, <1>5, <2>1 DEF OnlyAt
<1>7. \A c \in Conns : c # d => Choices(to_server'[c]) = {}
    BY <1>1, <1>3 DEF OnlyAt, TypeOK, RemoteTypeOK
<1>8. Choice(status.turns).type = "Choice"
      /\ Choice(status.turns).turn = status.turns
    BY DEF Choice
<1>9. /\ Choices(to_server'[d]) = {Len(to_server[d]) + 1}
      /\ to_server'[d][Len(to_server[d]) + 1] = Choice(status.turns)
    <2>1. PICK q : q = to_server[d] /\ q \in Seq(Frames)
        BY DEF TypeOK, RemoteTypeOK
    <2>2. to_server'[d] = Append(q, Choice(status.turns)) /\ Choices(q) = {}
        BY <1>1, <1>3, <1>4, <2>1 DEF OnlyAt, TypeOK, RemoteTypeOK
    <2>3. PICK f : f = Choice(status.turns)
        OBVIOUS
    <2>4. /\ Choices(Append(q, f)) = Choices(q) \cup {Len(q) + 1}
          /\ Append(q, f)[Len(q) + 1] = f
        BY <1>8, <2>1, <2>3, FewerAppend
    <2>5. QED
        BY <2>1, <2>2, <2>3, <2>4
<1>10. Choices(clients_rx') = {}
    BY <1>3, <1>5 DEF OnlyAt
<1>11. OnlyAt("frames", d)'
    BY <1>6, <1>7, <1>10 DEF OnlyAt
<1>12. \A c \in Conns :
        /\ \A i \in Choices(to_server'[c]) :
            to_server'[c][i].turn = status'.turns
        /\ \A i, j \in Choices(to_server'[c]) : i = j
    <2>1. status' = status
        OBVIOUS
    <2>2. \A i \in Choices(to_server'[d]) : i = Len(to_server[d]) + 1
        BY <1>9
    <2>3. \A i \in Choices(to_server'[d]) :
            to_server'[d][i].turn = status'.turns
        BY <1>8, <1>9, <2>1, <2>2
    <2>4. QED
        BY <1>7, <2>2, <2>3
<1>13. QED
    BY <1>3, <1>6, <1>10, <1>11, <1>12 DEF OneAnswer, Places

LEMMA OneAnswerRecvChoice ==
    ASSUME TypeOK, OneAnswer, NEW d \in Conns, RecvChoice(d),
           UNCHANGED <<status, srv>>
    PROVE  OneAnswer'
<1> DEFINE m == [type |-> "Choice", player |-> player[d],
                 turn |-> Head(to_server[d]).turn]
<1>1. /\ to_server[d] \in Seq(Frames) /\ to_server[d] # <<>>
      /\ Head(to_server[d]).type = "Choice"
      /\ to_server'[d] = Tail(to_server[d])
      /\ clients_rx' = Append(clients_rx, m)
      /\ \A c \in Conns : c # d => to_server'[c] = to_server[c]
    BY DEF RecvChoice, Arrived, TypeOK, RemoteTypeOK
<1>2. 1 \in Choices(to_server[d]) /\ to_server[d][1] = Head(to_server[d])
    BY <1>1, FewerTail
<1>3. OnlyAt("frames", d) /\ srv = "select"
    <2>1. OnlyAt("frames", d)
        BY <1>2, OnlyPlace
    <2>2. QED
        BY <1>2, <2>1 DEF OneAnswer, OnlyAt
<1>4. m.type = "Choice" /\ m.turn = status.turns
    BY <1>2 DEF OneAnswer
<1>5. Choices(to_server'[d]) = {}
    <2>1. \A i \in Choices(to_server'[d]) :
            /\ i \in 1..Len(Tail(to_server[d]))
            /\ i + 1 \in Choices(to_server[d])
        BY <1>1, TailElements DEF Choices
    <2>2. \A i \in Choices(to_server[d]) : i = 1
        BY <1>2 DEF OneAnswer
    <2>3. \A i \in 1..Len(Tail(to_server[d])) : i + 1 # 1
        OBVIOUS
    <2>4. QED
        BY <2>1, <2>2, <2>3
<1>6. UNCHANGED <<inbox, chosen, server_rx>>
    BY DEF RecvChoice
<1>7. \A c \in Conns : /\ server_rx'[c] = <<>> /\ ~Owes(c)'
                       /\ \A i \in Got(c, "Turn")' : chosen'[c] # 0
                       /\ Choices(to_server'[c]) = {}
    BY <1>1, <1>3, <1>5, <1>6 DEF OnlyAt, Owes, Received, Got
<1>8. /\ Choices(clients_rx') = {Len(clients_rx) + 1}
      /\ clients_rx'[Len(clients_rx) + 1] = m
    <2>1. PICK q : q = clients_rx /\ q \in Seq(ClientMessages)
        BY DEF TypeOK, ChannelsTypeOK
    <2>2. PICK f : f = m
        OBVIOUS
    <2>3. /\ Choices(Append(q, f)) = Choices(q) \cup {Len(q) + 1}
          /\ Append(q, f)[Len(q) + 1] = f
        BY <1>4, <2>1, <2>2, FewerAppend
    <2>4. Choices(q) = {}
        BY <1>3, <2>1 DEF OnlyAt
    <2>5. QED
        BY <1>1, <2>1, <2>2, <2>3, <2>4
<1>9. OnlyAt("server", NoConn)'
    BY <1>7 DEF OnlyAt
<1>10. QED
    BY <1>3, <1>4, <1>7, <1>8, <1>9 DEF OneAnswer, Places

\* The others do not.
LEMMA OneAnswerServer ==
    ASSUME TypeOK, disconnected = {}, OneAnswer, ServerStep
    PROVE  OneAnswer'
<1>1. UNCHANGED remoteVars
    BY DEF ServerStep
<1>2. CASE StartTurn \/ ApplyChoice
    BY <1>1, <1>2, OneAnswerStartTurn, OneAnswerApply
<1>3. CASE ~StartTurn /\ ~ApplyChoice
    <2>1. ~Reconnect
        BY DEF Reconnect
    <2>2. UNCHANGED <<server_rx, status>>
        BY <1>3, <2>1 DEF ServerStep, ServerNext, AnswerFreePlayer,
            AnswerSession, Answer, Connect, IgnoreConnected,
            IgnoreReconnected, IgnoreNotice, ConnectTimeout, EndGame,
            PauseTurn, RecvDisconnect, IgnoreChoice, Stop, Drain, Shutdown,
            channelVars, serverVars
    <2>3. srv = "select" => srv' = "select"
        BY <1>3, <2>1 DEF ServerStep, ServerNext, AnswerFreePlayer,
            AnswerSession, Answer, Connect, IgnoreConnected,
            IgnoreReconnected, IgnoreNotice, ConnectTimeout, EndGame,
            PauseTurn, RecvDisconnect, IgnoreChoice, Stop, Drain, Shutdown,
            serverVars
    <2>4. \/ clients_rx' = clients_rx
          \/ clients_rx # <<>> /\ clients_rx' = Tail(clients_rx)
        BY <1>3, <2>1 DEF ServerStep, ServerNext, AnswerFreePlayer,
            AnswerSession, Answer, Connect, IgnoreConnected,
            IgnoreReconnected, IgnoreNotice, ConnectTimeout, EndGame,
            PauseTurn, RecvDisconnect, IgnoreChoice, Stop, Drain, Shutdown,
            ReadsClients, channelVars
    <2>5. Fewer(clients_rx, clients_rx')
        BY <2>4, FewerTail, FewerPart DEF TypeOK, ChannelsTypeOK
    <2>6. \A c \in Conns : Fades(c)
        BY <1>1, <2>2, FadesSame DEF remoteVars
    <2>7. QED
        BY <2>2, <2>3, <2>5, <2>6, OneAnswerFades
<1>4. QED
    BY <1>2, <1>3

LEMMA OneAnswerClient ==
    ASSUME TypeOK, OneAnswer, NEW d \in Conns, ClientStep(d)
    PROVE  OneAnswer'
<1>1. UNCHANGED <<status, srv>>
    BY DEF ClientStep, serverVars
<1>2. ASSUME \A c \in Conns : Fades(c), Fewer(clients_rx, clients_rx')
      PROVE  OneAnswer'
    BY <1>1, <1>2, OneAnswerFades
<1>3. Fewer(clients_rx, clients_rx)
    BY FewerPart DEF TypeOK, ChannelsTypeOK
<1>4. CASE RecvTurn(d) \/ RecvChoice(d)
    BY <1>1, <1>4, OneAnswerRecvTurn, OneAnswerRecvChoice
<1>5. CASE ServerRxClosed(d)
    BY <1>2, <1>3, <1>5, FadesEnd DEF ServerRxClosed
<1>6. CASE RemoteGone(d)
    <2>1. \A c \in Conns : Fades(c)
        BY <1>6, FadesEnd DEF RemoteGone
    <2>2. PICK q, m : /\ q = clients_rx /\ q \in Seq(ClientMessages)
                      /\ m = [type |-> "Disconnect", player |-> player[d],
                              turn |-> 0]
        BY DEF TypeOK, ChannelsTypeOK
    <2>3. m.type # "Choice"
        BY <2>2
    <2>4. Fewer(q, Append(q, m))
        BY <2>2, <2>3, FewerAppend
    <2>5. QED
        BY <1>2, <1>6, <2>1, <2>2, <2>4 DEF RemoteGone
<1>7. CASE RecvBroadcast(d)
    <2>1. UNCHANGED clients_rx
        BY <1>7 DEF RecvBroadcast
    <2>2. CASE EndTask(d) /\ UNCHANGED <<inbox, chosen>>
        BY <1>2, <1>3, <2>1, <2>2, FadesEnd
    <2>3. CASE Deliver(d, NextBroadcast(d)) /\ UNCHANGED <<server_rx, to_server>>
        <3>1. NextBroadcast(d).type # "Turn"
            BY <1>7, ReadsBroadcast DEF RecvBroadcast, ServerBroadcasts
        <3>2. \A c \in Conns : Fades(c)
            BY <2>3, <3>1, FadesDeliver
        <3>3. QED
            BY <1>2, <1>3, <2>1, <3>2
    <2>4. QED
        BY <1>7, <2>2, <2>3 DEF RecvBroadcast, NextBroadcast
<1>8. CASE SkipBroadcasts(d)
    <2>1. \A c \in Conns : Fades(c)
        BY <1>8, FadesSame DEF SkipBroadcasts, remoteVars
    <2>2. QED
        BY <1>2, <1>3, <1>8, <2>1 DEF SkipBroadcasts
<1>9. CASE RecvStray(d)
    <2>1. UNCHANGED <<clients_rx, server_rx, inbox, chosen>>
        BY <1>9 DEF RecvStray, channelVars
    <2>2. PICK q : q = to_server[d] /\ q \in Seq(Frames) /\ q # <<>>
        BY <1>9 DEF RecvStray, Arrived, TypeOK, RemoteTypeOK
    <2>3. \A c \in Conns : c # d => Fades(c)
        BY <1>9, <2>1, FadesSame DEF RecvStray, TypeOK, RemoteTypeOK
    <2>4. to_server'[d] \in {Tail(q), <<Frame("Eof")>>}
        BY <1>9, <2>2 DEF RecvStray, AfterError, TypeOK, RemoteTypeOK
    <2>5. Choices(<<Frame("Eof")>>) = {}
        BY DEF Choices, Frame
    <2>6. Fewer(q, Tail(q)) /\ Fewer(q, <<Frame("Eof")>>)
        BY <2>2, <2>5, FewerTail, FewerPart
    <2>7. Fewer(to_server[d], to_server'[d])
        BY <2>2, <2>4, <2>6
    <2>8. Fades(d)
        BY <2>1, <2>7 DEF Fades, Got
    <2>9. QED
        BY <1>2, <1>3, <2>1, <2>3, <2>8
<1>10. QED
    BY <1>4, <1>5, <1>6, <1>7, <1>8, <1>9 DEF ClientStep, ClientTask

LEMMA OneAnswerRemote ==
    ASSUME TypeOK, OneAnswer, NEW d \in Conns,
           HandshakeStep(d) \/ Open(d) \/ Stray(d) \/ Close(d)
    PROVE  OneAnswer'
<1>1. UNCHANGED <<status, srv, clients_rx, server_rx>>
    BY DEF HandshakeStep, HandshakeTask, Reject, Welcome, WelcomeFails, Notify,
        Open, Request, Hello, AskReconnect, Ask, BadFirst, Stray, RemoteStray,
        Close, RemoteClose, serverVars, channelVars
<1>2. ASSUME \A c \in Conns : Fades(c)
      PROVE  OneAnswer'
    BY <1>1, <1>2, OneAnswerFades, FewerPart DEF TypeOK, ChannelsTypeOK
<1>3. CASE Stray(d) \/ Close(d)
    <2>1. UNCHANGED <<inbox, chosen>>
        BY <1>3 DEF Stray, RemoteStray, Close, RemoteClose
    <2>2. \A c \in Conns : c # d => to_server'[c] = to_server[c]
        BY <1>3 DEF Stray, RemoteStray, Close, RemoteClose, TypeOK, RemoteTypeOK
    <2>3. PICK q : q = to_server[d] /\ q \in Seq(Frames)
        BY DEF TypeOK, RemoteTypeOK
    <2>4. \/ \E type \in {"Other", "Garbled"} :
                to_server'[d] = Append(q, Frame(type))
          \/ \E n \in 0..Len(q) : to_server'[d] = SubSeq(q, 1, n)
        BY <1>3, <2>3
        DEF Stray, RemoteStray, Close, RemoteClose, TypeOK, RemoteTypeOK
    <2>5. ASSUME NEW type \in {"Other", "Garbled"}
          PROVE  Fewer(q, Append(q, Frame(type)))
        <3>1. PICK f : f = Frame(type)
            OBVIOUS
        <3>2. f.type # "Choice"
            BY <3>1 DEF Frame
        <3>3. QED
            BY <2>3, <3>1, <3>2, FewerAppend
    <2>6. Fewer(to_server[d], to_server'[d])
        BY <2>3, <2>4, <2>5, FewerPart
    <2>7. Fades(d)
        BY <1>1, <2>1, <2>6 DEF Fades, Got
    <2>8. QED
        BY <1>1, <1>2, <2>1, <2>2, <2>7, FadesSame
<1>4. CASE Reject(d) \/ Welcome(d)
    <2>1. PICK m : Deliver(d, m) /\ m.type # "Turn"
        BY <1>4 DEF Reject, Welcome
    <2>2. UNCHANGED to_server
        BY <1>4 DEF Reject, Welcome
    <2>3. QED
        BY <1>1, <1>2, <2>1, <2>2, FadesDeliver
<1>5. CASE WelcomeFails(d) \/ Notify(d) \/ Open(d)
    <2>1. UNCHANGED <<inbox, chosen, to_server>>
        BY <1>5 DEF WelcomeFails, Notify, Open, Request, Hello, AskReconnect,
            Ask, BadFirst, remoteVars
    <2>2. QED
        BY <1>1, <1>2, <2>1, FadesSame
<1>6. QED
    BY <1>3, <1>4, <1>5 DEF HandshakeStep, HandshakeTask

\* Reliable players stay until the end is told, so nobody ever has to resume.
Steadfast ==
    /\ disconnected = {}
    /\ \A i \in 1..Len(clients_rx) :
        clients_rx[i].type = "Disconnect" => srv \in {"drain", "done"}

LEMMA SteadfastStep ==
    ASSUME Reliable, TypeOK, Faithful, LastWord, Steadfast, [Next]_vars
    PROVE  Steadfast'
<1>1. ASSUME NEW i \in 1..Len(clients_rx'), clients_rx'[i].type = "Disconnect"
      PROVE  srv' \in {"drain", "done"}
    <2>1. \A d \in Conns : StreamEnds(d) => srv \in {"drain", "done"}
        BY BreaksAtEnd DEF Faithful, LastWord, Excused
    <2>2. srv \in {"drain", "done"}
        BY <1>1, <2>1, Reports DEF Steadfast
    <2>3. QED
        BY <2>2, SrvOver
<1>2. ~RecvDisconnect
    <2> SUFFICES ASSUME RecvDisconnect PROVE FALSE
        OBVIOUS
    <2>1. /\ clients_rx \in Seq(ClientMessages) /\ clients_rx # <<>>
          /\ Head(clients_rx).type = "Disconnect" /\ srv = "select"
        BY DEF RecvDisconnect, ReadsClients, TypeOK, ChannelsTypeOK
    <2>2. 1 \in 1..Len(clients_rx) /\ clients_rx[1] = Head(clients_rx)
        BY <2>1, TailElements
    <2>3. QED
        BY <2>1, <2>2 DEF Steadfast
<1>3. disconnected' = {}
    BY <1>2, OthersLeaveServer DEF Steadfast, serverVars, ServerStep,
        ServerNext, AnswerFreePlayer, AnswerSession, Answer, Connect,
        IgnoreConnected, IgnoreReconnected, IgnoreNotice, ConnectTimeout,
        EndGame, StartTurn, PauseTurn, Reconnect, IgnoreChoice, ApplyChoice,
        Stop, Drain, Shutdown
<1>4. QED
    BY <1>1, <1>3 DEF Steadfast

LEMMA OneAnswerKept ==
    ASSUME Reliable, ChoicesPerTurn = 1
    PROVE  Spec => [](Steadfast /\ OneAnswer)
<1>1. Init => Steadfast /\ OneAnswer
    <2> SUFFICES ASSUME Init PROVE Steadfast /\ OneAnswer
        OBVIOUS
    <2>1. /\ clients_rx = <<>> /\ disconnected = {}
          /\ \A c \in Conns : /\ server_rx[c] = <<>> /\ inbox[c] = <<>>
                              /\ to_server[c] = <<>>
        BY DEF Init, ChannelsInit, ServerInit, RemoteInit
    <2>2. /\ Choices(<<>>) = {}
          /\ \A c \in Conns : Got(c, "Turn") = {}
        BY <2>1 DEF Choices, Got
    <2>3. OnlyAt("nowhere", NoConn) /\ OnlyAt("server", NoConn)
        BY <2>1, <2>2 DEF OnlyAt, Owes, Received
    <2>4. QED
        BY <2>1, <2>2, <2>3 DEF Steadfast, OneAnswer, Places
<1>2. TypeOK /\ Steadfast /\ OneAnswer /\ [Next]_vars => OneAnswer'
    <2> SUFFICES ASSUME TypeOK, disconnected = {}, OneAnswer, [Next]_vars
                 PROVE  OneAnswer'
        BY DEF Steadfast
    <2>1. ASSUME NEW c \in Conns, Choose(c)
          PROVE  OneAnswer'
        BY <2>1, OneAnswerChoose DEF Choose, serverVars
    <2>2. CASE UNCHANGED vars
        BY <2>2, FadesSame, FewerPart, OneAnswerFades
        DEF vars, channelVars, serverVars, remoteVars, TypeOK, ChannelsTypeOK
    <2>3. QED
        BY <2>1, <2>2, OneAnswerServer, OneAnswerClient, OneAnswerRemote
        DEF Next
<1>3. TypeOK /\ Loyal /\ Steadfast /\ [Next]_vars => Steadfast'
    BY SteadfastStep DEF Loyal
<1>4. QED
    BY <1>1, <1>2, <1>3, TypeCorrect, LoyalKept, PTL DEF Spec

\* A choice carries an index and no turn, so the Server applies whatever comes
\* next from the player to move.  Of players that stay and answer each Turn
\* once, it is the answer to the Turn being played: an offered turn, its
\* answer, and the choice made of it are never two at a time.
THEOREM AnswersApplied ==
    ASSUME Reliable, ChoicesPerTurn = 1
    PROVE  Spec => AnswersThisTurn
<1>1. TypeOK /\ OneAnswer /\ [Next]_vars =>
        [status' # status => Head(clients_rx).turn = status.turns]_vars
    <2> SUFFICES ASSUME TypeOK, OneAnswer, [Next]_vars, status' # status
                 PROVE  Head(clients_rx).turn = status.turns
        OBVIOUS
    <2>1. ServerStep /\ ApplyChoice
        BY OthersLeaveServer DEF ServerStep, ServerNext,
            AnswerFreePlayer, AnswerSession, Answer, Connect, IgnoreConnected,
            IgnoreReconnected, IgnoreNotice, ConnectTimeout, EndGame,
            StartTurn, PauseTurn, Reconnect, RecvDisconnect, IgnoreChoice,
            Stop, Drain, Shutdown, serverVars
    <2>2. QED
        BY <2>1, OneAnswerApply DEF ServerStep
<1>2. QED
    BY <1>1, TypeCorrect, OneAnswerKept, PTL DEF Spec, AnswersThisTurn

=============================================================================
