------------------------------- MODULE Server -------------------------------
(***************************************************************************)
(* The Server task (server/mod.rs): it seats the players, runs the match,  *)
(* survives disconnections and reconnections, and drains its clients at    *)
(* the end.  srv says at which of its awaits the task is:                  *)
(*                                                                         *)
(*   connect   wait_players_connect, on main_rx                            *)
(*   turn      game_loop, about to examine the status and send the Turn    *)
(*   select    handle_turn's loop, on main_rx or clients_rx                *)
(*   stop      try_run, about to broadcast Disconnect                      *)
(*   drain     disconnect_players, on clients_rx                           *)
(*   done      try_run has returned: main returns, the process exits       *)
(***************************************************************************)
EXTENDS Channels, TurnGame

CONSTANT MaxTurns       \* --max-turns

ASSUME ServerAssumption == MaxTurns \in Nat

VARIABLES
    srv,
    sessions,           \* session id -> player, NoPlayer if not registered
    disconnected        \* players who dropped off and may come back

serverVars == <<srv, sessions, disconnected, status>>

ServerInit ==
    /\ srv = "connect"
    /\ sessions = [s \in Conns |-> NoPlayer]
    /\ disconnected = {}
    /\ GameInit

ServerTypeOK ==
    /\ srv \in {"connect", "turn", "select", "stop", "drain", "done"}
    /\ sessions \in [Conns -> Players \cup {NoPlayer}]
    /\ disconnected \in SUBSET Players
    /\ status \in Statuses

----------------------------------------------------------------------------
\* Requests of the handshakes.  main_rx is read in two places only.

Seated(p) == clients_tx[p] # NoConn

\* Mutant of ReadsMain: the loop of a turn listens to the clients only.
ReadsMainBeforeMatch == srv = "connect" /\ main_rx # <<>>

ReadsMain == srv \in {"connect", "select"} /\ main_rx # <<>>

\* The first player without a channel, None if there is none.
FreePlayer == IF ~Seated(Player1) THEN Player1
              ELSE IF ~Seated(Player2) THEN Player2
              ELSE NoPlayer

Answer(c, p) ==
    /\ reply' = [reply EXCEPT ![c] = <<p>>]
    /\ main_rx' = Tail(main_rx)
    /\ UNCHANGED <<clients_rx, clients_tx, server_rx, broadcast, cursor,
                   running, serverVars>>

AnswerFreePlayer ==
    /\ ReadsMain
    /\ Head(main_rx).type = "RequestFreePlayer"
    /\ Answer(Head(main_rx).conn, FreePlayer)

\* Mutant of AnswerSession: an unknown session gets no answer.
AnswerKnownSession ==
    /\ ReadsMain
    /\ Head(main_rx).type = "ClientReconnectedHandle"
    /\ LET m == Head(main_rx) IN
        reply' = IF sessions[m.session] = NoPlayer THEN reply
                 ELSE [reply EXCEPT ![m.conn] = <<sessions[m.session]>>]
    /\ main_rx' = Tail(main_rx)
    /\ UNCHANGED <<clients_rx, clients_tx, server_rx, broadcast, cursor,
                   running, serverVars>>

AnswerSession ==
    /\ ReadsMain
    /\ Head(main_rx).type = "ClientReconnectedHandle"
    /\ Answer(Head(main_rx).conn, sessions[Head(main_rx).session])

\* The message is dropped, and with it the sender half of the connection's
\* server_rx that it carried.
IgnoreNotice ==
    /\ main_rx' = Tail(main_rx)
    /\ UNCHANGED <<clients_rx, clients_tx, server_rx, broadcast, cursor,
                   reply, running, serverVars>>

----------------------------------------------------------------------------
\* wait_players_connect

\* Mutant of Connect: the slot is not checked.
ConnectAnyway ==
    /\ srv = "connect" /\ main_rx # <<>>
    /\ LET m == Head(main_rx) IN
        /\ m.type = "ClientConnected"
        /\ clients_tx' = [clients_tx EXCEPT ![m.player] = m.conn]
        /\ sessions' = [sessions EXCEPT ![m.session] = m.player]
        /\ srv' = IF Seated(Opponent(m.player)) THEN "turn" ELSE "connect"
    /\ main_rx' = Tail(main_rx)
    /\ UNCHANGED <<clients_rx, server_rx, broadcast, cursor, reply, running,
                   disconnected, status>>

\* The slot is vacant: the player is seated and its session registered.
Connect ==
    /\ srv = "connect" /\ main_rx # <<>>
    /\ LET m == Head(main_rx) IN
        /\ m.type = "ClientConnected"
        /\ ~Seated(m.player)
        /\ clients_tx' = [clients_tx EXCEPT ![m.player] = m.conn]
        /\ sessions' = [sessions EXCEPT ![m.session] = m.player]
        /\ srv' = IF Seated(Opponent(m.player)) THEN "turn" ELSE "connect"
    /\ main_rx' = Tail(main_rx)
    /\ UNCHANGED <<clients_rx, server_rx, broadcast, cursor, reply, running,
                   disconnected, status>>

\* The slot is taken, or the game has begun.
IgnoreConnected ==
    /\ ReadsMain
    /\ Head(main_rx).type = "ClientConnected"
    /\ srv = "connect" => Seated(Head(main_rx).player)
    /\ IgnoreNotice

\* tokio::time::timeout around wait_players_connect.  Real time is not
\* modelled: the timer may fire at any point of the wait.
ConnectTimeout ==
    /\ srv = "connect"
    /\ srv' = "stop"
    /\ UNCHANGED <<channelVars, sessions, disconnected, status>>

----------------------------------------------------------------------------
\* game_loop, and handle_turn up to its loop

Current == status.player

\* Mutant of GameOver: one turn too many.
GameOverLate == ~Playing \/ status.turns > MaxTurns

GameOver == ~Playing \/ status.turns >= MaxTurns

\* run: broadcast the result.  The broadcast cannot fail, main holds a
\* receiver until the process exits.
EndGame ==
    /\ srv = "turn" /\ GameOver
    /\ broadcast' = Append(broadcast,
          [type   |-> "GameFinished",
           player |-> IF Playing THEN NoPlayer ELSE status.player,
           turn   |-> status.turns])
    /\ srv' = "stop"
    /\ UNCHANGED <<main_rx, clients_rx, clients_tx, server_rx, cursor, reply,
                   running, sessions, disconnected, status>>

\* The Turn goes to connection c unless its task, hence its receiver, is
\* gone (or there is no connection): then handle_turn fails, and run with it.
SendTurn(c) ==
    IF c \in running
    THEN /\ HasRoom(server_rx[c])
         /\ server_rx' = [server_rx EXCEPT ![c] = Append(@, status.turns)]
         /\ srv' = "select"
    ELSE /\ srv' = "stop"
         /\ UNCHANGED server_rx

StartTurn ==
    /\ srv = "turn" /\ ~GameOver
    /\ Current \notin disconnected
    /\ SendTurn(clients_tx[Current])
    /\ UNCHANGED <<main_rx, clients_rx, clients_tx, broadcast, cursor, reply,
                   running, sessions, disconnected, status>>

\* Nobody to tell: the turn waits for the player to come back.
PauseTurn ==
    /\ srv = "turn" /\ ~GameOver
    /\ Current \in disconnected
    /\ srv' = "select"
    /\ UNCHANGED <<channelVars, sessions, disconnected, status>>

----------------------------------------------------------------------------
\* handle_turn's loop, messages from the main thread

\* Mutant of Reconnect: the Turn is not sent again.
ReconnectSilently ==
    /\ srv = "select" /\ main_rx # <<>>
    /\ LET m == Head(main_rx) IN
        /\ m.type = "ClientReconnected"
        /\ m.player \in disconnected
        /\ disconnected' = disconnected \ {m.player}
        /\ clients_tx' = [clients_tx EXCEPT ![m.player] = m.conn]
        /\ UNCHANGED <<server_rx, srv>>
    /\ main_rx' = Tail(main_rx)
    /\ UNCHANGED <<clients_rx, broadcast, cursor, reply, running, sessions,
                   status>>

\* Mutant of Reconnect: whoever comes back is sent the Turn.
ReconnectWithTurn ==
    /\ srv = "select" /\ main_rx # <<>>
    /\ LET m == Head(main_rx) IN
        /\ m.type = "ClientReconnected"
        /\ m.player \in disconnected
        /\ disconnected' = disconnected \ {m.player}
        /\ clients_tx' = [clients_tx EXCEPT ![m.player] = m.conn]
        /\ SendTurn(m.conn)
    /\ main_rx' = Tail(main_rx)
    /\ UNCHANGED <<clients_rx, broadcast, cursor, reply, running, sessions,
                   status>>

\* Mutant of Reconnect: the player need not have dropped off.
ReconnectAnyway ==
    /\ srv = "select" /\ main_rx # <<>>
    /\ LET m == Head(main_rx) IN
        /\ m.type = "ClientReconnected"
        /\ disconnected' = disconnected \ {m.player}
        /\ clients_tx' = [clients_tx EXCEPT ![m.player] = m.conn]
        /\ IF m.player = Current
           THEN SendTurn(m.conn)
           ELSE UNCHANGED <<server_rx, srv>>
    /\ main_rx' = Tail(main_rx)
    /\ UNCHANGED <<clients_rx, broadcast, cursor, reply, running, sessions,
                   status>>

\* The player resumes; if the turn is theirs the Turn is sent again.
Reconnect ==
    /\ srv = "select" /\ main_rx # <<>>
    /\ LET m == Head(main_rx) IN
        /\ m.type = "ClientReconnected"
        /\ m.player \in disconnected
        /\ disconnected' = disconnected \ {m.player}
        /\ clients_tx' = [clients_tx EXCEPT ![m.player] = m.conn]
        /\ IF m.player = Current
           THEN SendTurn(m.conn)
           ELSE UNCHANGED <<server_rx, srv>>
    /\ main_rx' = Tail(main_rx)
    /\ UNCHANGED <<clients_rx, broadcast, cursor, reply, running, sessions,
                   status>>

\* Not marked as disconnected, or still in the connection phase.
IgnoreReconnected ==
    /\ ReadsMain
    /\ Head(main_rx).type = "ClientReconnected"
    /\ srv = "select" => Head(main_rx).player \notin disconnected
    /\ IgnoreNotice

----------------------------------------------------------------------------
\* handle_turn's loop, messages from the clients

ReadsClients == srv = "select" /\ clients_rx # <<>>

\* Mutant of RecvDisconnect: the player is not marked.
RecvDisconnectForgets ==
    /\ ReadsClients
    /\ LET m == Head(clients_rx) IN
        /\ m.type = "Disconnect"
        /\ clients_tx' = [clients_tx EXCEPT ![m.player] = NoConn]
    /\ clients_rx' = Tail(clients_rx)
    /\ UNCHANGED <<main_rx, server_rx, broadcast, cursor, reply, running, srv,
                   sessions, disconnected, status>>

RecvDisconnect ==
    /\ ReadsClients
    /\ LET m == Head(clients_rx) IN
        /\ m.type = "Disconnect"
        /\ clients_tx' = [clients_tx EXCEPT ![m.player] = NoConn]
        /\ disconnected' = disconnected \cup {m.player}
    /\ clients_rx' = Tail(clients_rx)
    /\ UNCHANGED <<main_rx, server_rx, broadcast, cursor, reply, running, srv,
                   sessions, status>>

\* Out of turn, or the index is not in the list of this turn.  A remote
\* client picks from the list of the Turn it answers, so only the list of
\* another turn can put it out of bounds.
IgnoreChoice ==
    /\ ReadsClients
    /\ LET m == Head(clients_rx) IN
        /\ m.type = "Choice"
        /\ m.player # Current \/ m.turn # status.turns
    /\ clients_rx' = Tail(clients_rx)
    /\ UNCHANGED <<main_rx, clients_tx, server_rx, broadcast, cursor, reply,
                   running, serverVars>>

\* Mutant of ApplyChoice: a choice out of turn is applied.
ApplyAnyChoice ==
    /\ ReadsClients
    /\ Head(clients_rx).type = "Choice"
    /\ Move
    /\ broadcast' = Append(broadcast,
          [type   |-> "Movement",
           player |-> Head(clients_rx).player,
           turn   |-> status.turns])
    /\ srv' = "turn"
    /\ clients_rx' = Tail(clients_rx)
    /\ UNCHANGED <<main_rx, clients_tx, server_rx, cursor, reply, running,
                   sessions, disconnected>>

\* The chosen movement is applied and broadcast before the next await.
\* An index picked from another list that is in bounds is applied too.
ApplyChoice ==
    /\ ReadsClients
    /\ Head(clients_rx).type = "Choice"
    /\ Head(clients_rx).player = Current
    /\ Move
    /\ broadcast' = Append(broadcast,
          [type   |-> "Movement",
           player |-> Head(clients_rx).player,
           turn   |-> status.turns])
    /\ srv' = "turn"
    /\ clients_rx' = Tail(clients_rx)
    /\ UNCHANGED <<main_rx, clients_tx, server_rx, cursor, reply, running,
                   sessions, disconnected>>

----------------------------------------------------------------------------
\* disconnect_players: main_rx is no longer read.

Stop ==
    /\ srv = "stop"
    /\ broadcast' = Append(broadcast, [type |-> "Disconnect",
                                       player |-> NoPlayer, turn |-> 0])
    /\ srv' = "drain"
    /\ UNCHANGED <<main_rx, clients_rx, clients_tx, server_rx, cursor, reply,
                   running, sessions, disconnected, status>>

Drain ==
    /\ srv = "drain" /\ clients_rx # <<>>
    /\ \E p \in Players : Seated(p)
    /\ LET m == Head(clients_rx) IN
        clients_tx' = IF m.type = "Disconnect"
                      THEN [clients_tx EXCEPT ![m.player] = NoConn]
                      ELSE clients_tx
    /\ clients_rx' = Tail(clients_rx)
    /\ UNCHANGED <<main_rx, server_rx, broadcast, cursor, reply, running,
                   serverVars>>

\* Mutant of Shutdown: nobody is waited for.
ShutdownAtOnce ==
    /\ srv = "drain"
    /\ srv' = "done"
    /\ UNCHANGED <<channelVars, sessions, disconnected, status>>

Shutdown ==
    /\ srv = "drain"
    /\ \A p \in Players : ~Seated(p)
    /\ srv' = "done"
    /\ UNCHANGED <<channelVars, sessions, disconnected, status>>

ServerNext ==
    \/ AnswerFreePlayer \/ AnswerSession
    \/ Connect \/ IgnoreConnected \/ ConnectTimeout
    \/ EndGame \/ StartTurn \/ PauseTurn
    \/ Reconnect \/ IgnoreReconnected
    \/ RecvDisconnect \/ IgnoreChoice \/ ApplyChoice
    \/ Stop \/ Drain \/ Shutdown

=============================================================================
