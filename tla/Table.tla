-------------------------------- MODULE Table --------------------------------
(***************************************************************************)
(* What the server promises its players, all channels and tasks forgotten: *)
(* two players register, play a match in turn until one wins or the turns  *)
(* run out, and are told everything in one log.  The server may give up at *)
(* any time, but then without a result.  Session.tla implements it.        *)
(***************************************************************************)
EXTENDS TurnGame, Sequences

CONSTANT MaxTurns

VARIABLES
    phase,          \* gathering, playing, concluded, abandoned or closed
    registered,     \* players who have joined
    log             \* what all players are told

tableVars == <<status, phase, registered, log>>

TableInit ==
    /\ GameInit
    /\ phase = "gathering"
    /\ registered = {}
    /\ log = <<>>

Entry(type, p, n) == [type |-> type, player |-> p, turn |-> n]

\* The outcome of the match, once over: NoPlayer if the turns have run out.
Over == ~Playing \/ status.turns >= MaxTurns

Result == Entry("GameFinished", IF Playing THEN NoPlayer ELSE status.player,
                status.turns)

Goodbye == Entry("Disconnect", NoPlayer, 0)

\* A player registers once; the second one begins the match.
Register ==
    /\ phase = "gathering"
    /\ \E p \in Players \ registered :
        /\ registered' = registered \cup {p}
        /\ phase' = IF Opponent(p) \in registered THEN "playing" ELSE phase
    /\ UNCHANGED <<status, log>>

\* A move of the player whose turn it is, announced at once.
Play ==
    /\ phase = "playing" /\ ~Over
    /\ Move
    /\ log' = Append(log, Entry("Movement", status.player, status.turns))
    /\ UNCHANGED <<phase, registered>>

Conclude ==
    /\ phase = "playing" /\ Over
    /\ log' = Append(log, Result)
    /\ phase' = "concluded"
    /\ UNCHANGED <<status, registered>>

\* Not enough players, or one who cannot be reached.
Abandon ==
    /\ \/ phase = "gathering"
       \/ phase = "playing" /\ ~Over
    /\ phase' = "abandoned"
    /\ UNCHANGED <<status, registered, log>>

Close ==
    /\ phase \in {"concluded", "abandoned"}
    /\ log' = Append(log, Goodbye)
    /\ phase' = "closed"
    /\ UNCHANGED <<status, registered>>

TableNext == Register \/ Play \/ Conclude \/ Abandon \/ Close

TableSpec == TableInit /\ [][TableNext]_tableVars

----------------------------------------------------------------------------
\* The moves of the match so far.
Moves == [i \in 1..status.turns |-> Entry("Movement", Mover(i - 1), i - 1)]

\* How the log may end, after them.
Endings ==
    {end \in {<<>>, <<Result>>, <<Goodbye>>, <<Result, Goodbye>>} :
        \/ phase \in {"gathering", "playing", "abandoned"} /\ end = <<>>
        \/ phase = "concluded" /\ end = <<Result>>
        \/ phase = "closed" /\ end = <<Goodbye>>
        \/ phase = "closed" /\ Over /\ end = <<Result, Goodbye>>}

\* The log tells the match: one Movement per turn, the players in turn, at
\* most one GameFinished after the last, naming the last mover if anyone won,
\* and one Disconnect after everything else.
Transcript ==
    /\ status.turns <= MaxTurns
    /\ \E end \in Endings : log = Moves \o end

\* Who wins has made the last move.
WinnerMovedLast == ~Playing => status.player = Mover(status.turns - 1)

=============================================================================
