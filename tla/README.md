# TLA+ models of sternhalma-server

These modules model the server process of `sternhalma-server`: the tasks that
seat two players and run a match over channels and sockets, and the game they
play. TLC checks them on small instances; TLAPS proves the invariants, and the two
refinements, for all.
Paths below are relative to the repository root; `mod.rs` alone is
`src/server/mod.rs`.

## 1. The system

| component | state | operations | interacts by |
|---|---|---|---|
| Server task (`server/mod.rs`) | `clients_tx`, `sessions`, `disconnected`, the `Game`, where it awaits | seat players, run turns, survive disconnections, announce the result, drain | reads `main_rx` and `clients_rx`; sends `Turn` per client, broadcasts, oneshot answers |
| Handshake (`server/handshake.rs`), one task per connection | none shared; the oneshot it waits on | `Hello`, `Reconnect`, `Welcome`, `Reject`, spawn of the Client | two messages to the Server, one answer between them |
| Client (`server/client.rs`), one task per connection | `player`, its receivers | a `select!` over `server_rx`, `broadcast_rx`, the stream | forwards Turns and broadcasts out, Choices in, one `Disconnect` at the end of the stream |
| Channels, process (`bin/sternhalma-server.rs`, `server/messages.rs`) | queues of 32 messages, a broadcast ring of 32 | | the process exits when the Server task does |
| Codecs (`server/protocol.rs`), WebSocket adapter (`server/ws.rs`) | | turn frames into a stream of messages and errors | read by the handshake, then by the Client |
| Remote clients, network | what they received, what they have under way | answer a Turn, leave, come back, send what nobody asked for | external |
| Game (`sternhalma/mod.rs`) | board, status with player, turns, scores, history | `apply_movement`, `apply_movement_unchecked`, `next_status` | called by `handle_turn` and the playground |
| Board, movements (`sternhalma/board/`) | one flat array of positions | neighbours, generator, validation, winner, scores, distance | called by Game |
| Look-up tables (`board/lut.rs`) | the cells of the star, the starting cells | | constants of Board |
| Playground (`bin/playground.rs`) | a Game | two agents play up to 1024 turns | calls `apply_movement_unchecked` |
| Timer (`sternhalma/timing.rs`) | | | not modelled, see section 7 |

What is hard, and what must hold:

* **Server and handshake.** A player is *found free*, *welcomed* and *seated* in
  three steps of two tasks, with other handshakes in between. Seats must keep
  one owner (`SeatOwner`, `SeatsEmptyFirst`), no request may get lost or be
  answered twice (`OneExchange`, `HandshakesAnswered`).
* **Server and Client.** Two queues with no order between them carry a
  connection's end and its successor's beginning. A player must be seated or
  away (`SeatOrAway`); a paused turn must be offered again to the one who
  comes back (`TurnOnItsWay`, `ReturnEndsPause`) and to no other
  (`TurnRouting`).
* **Client.** Two channels read in any order, one of which drops its oldest
  messages. Players hear every move (`HearsEveryMove`), those who come back
  go on where they left off (`HearsInOrder`), in their own perspective
  (`Perspective`). A late Client loses moves, but never the end
  (`LagKeepsTheLast`), nor does it tell anything twice or out of order
  (`HearsNoneTwice`). A Client without a seat must end
  (`OrphansEnd`). A session may be asked for while it is in use: its
  connections then hear the same moves, and a Disconnect, which names a player
  only, of the one is taken for the other's (section 5); the seat and its Turns
  must not suffer.
* **Stream.** An error item is passed over; what follows it depends on the
  transport. A Ping from a WebSocket player must not end its match, a broken
  frame from a TCP player must free its seat.
* **The match.** A Choice is a bare index. The transcript must be a legal
  alternation with its result and its end (`Transcript`), each answer must meet
  its own turn (`AnswersThisTurn`), the match must end (`TurnsAdvance`,
  `Terminates`) and everybody who has stayed know (`EveryoneSawTheEnd`). All in all the server
  plays one match at a table of two (`TableSpec`).
* **The game.** Scores are kept by increments in an unsigned type, movements are
  applied unchecked, the generator searches paths depth first
  (`ScoresMatch`, `PiecesConserved`, `FinishedWhenWon`, `GeneratorFollowsRules`,
  `RotatedTurnMakesSense`). The checked path must accept what the
  generator lists (`CheckedPathAgrees`) and do no harm with what else it accepts;
  the history must replay (`HistoryReplays`).
* **The array.** The end of a row is next to the start of the following one, and
  six functions guard against it by hand (`GridIsTheBoard`); distances need
  three axes (`DistanceIsSteps`).

`PROJECT.json` lists each hazard at its line, with the properties aimed at it.

## 2. The modules

    Players -- TurnGame -- Table ----------------- (abstract) --+
       |            \                                          |
       |             +------------- Server --+                  |
       |                           /         +-- Session -------+-- Promises -- MCSession
       +-- Channels --------------+          |
       |      \-- Transport -- Remote -- Handshake -- Client
       |
       +-- Board -- Validation -- Game --+
              \            \             +-- Rules -- MCGame, MCStar
               \-- Grid ---- Movement ---+         (Game implements TurnGame)

    SessionProofs -- SeatProofs -- SessionTable -- TurnProofs -- HearProofs
                       TableProofs --/                  about Session and Table
    MovementProofs -- GameProofs                        about Grid, Movement, Game, Rules

| module | models | how |
|---|---|---|
| `Players` | `player.rs` | `Players`, `Opponent`; `Mover(n)` is the reference for whose move number *n* is |
| `TurnGame` | `GameStatus` | the abstract match: players alternate until a move wins for its mover |
| `Table` | what players are promised | the abstract server: register, play, conclude or abandon, close, and one log; `Session` implements it |
| `Channels` | the channels | `main_rx`, `clients_rx`, `server_rx[c]` are bounded FIFO queues; `broadcast` is the log of all broadcasts and `cursor[c]` how far `c` has read; `reply[c]` the oneshot; `running` the living Client tasks, that is, the receivers that exist |
| `Server` | `server/mod.rs` | `srv` is the await the task is at; one action per message it can read there, plus the steps that read none |
| `Transport` | `protocol.rs`, `ws.rs` | the kinds of items a stream yields, and what comes after an error |
| `Handshake` | `handshake.rs` | `hs[c]`, one action per await; `hasty` is a history variable: the connections that asked for a session while another connection of it was up. No guard reads it, only properties do |
| `Client` | `client.rs` | one action per branch of the `select!` and outcome |
| `Remote` | far ends | `inbox[c]` all that was delivered; `to_server[c]` frames under way; `closed`; `stray` |
| `Session` | the process | composes the tasks; properties; the mapping to `Table` |
| `Promises` | | statements of the docs, comments and tests that the code does not keep |
| `Board` | `board/mod.rs`, `lut.rs` | the board as a function from cells to players |
| `Grid` | `board/mod.rs` | the board as the program stores it: a flat array of slots, `Index`, the checked steps to the neighbours, `div` and `mod` back; `ToGrid` relates the two |
| `Validation` | `movement.rs` | `validate_movement` |
| `Movement` | `movement.rs` | the generator, as sets of paths; `Longer` is one round of its loop, the recursion a function on paths |
| `Game` | `sternhalma/mod.rs`, `playground.rs` | `Turn` takes a movement of the list unchecked, `Apply` any movement that `apply_movement` accepts |
| `Rules` | | composes `Game` and `Movement`; the rules of the README's first section as an independent definition |
| `MCSession`, `MCGame`, `MCStar` | | instances for TLC; `MCStar` has the board of `lut.rs` |
| `SessionProofs`, `SeatProofs`, `TurnProofs`, `HearProofs` | | theorems about the session: types; seats and handshakes; Turns; what players hear and answer |
| `TableProofs`, `SessionTable` | | theorems about the table, and that the session implements it |
| `MovementProofs`, `GameProofs` | | theorems about the array and the generator, and about the match and the rules |

Choices of abstraction:

* A connection is a member of `Conns` and is used once. The session id of a new
  session is the connection of its Hello: `Uuid::new_v4` gives fresh names.
* What the Server does between two awaits is one action. An `mpsc` send awaits
  when the queue is full: it is guarded by `HasRoom`. A send to a receiver that
  is gone is an error, and the error path is part of the action (`SendTurn`).
* A `Choice` is named by the turn whose list it was picked from. Whether an
  index from another list is in bounds is left open (`IgnoreChoice` and
  `ApplyChoice` are both possible). The player to move always has a movement.
* Which move wins is left open in `TurnGame`; `Game` shows that the board does
  nothing else.
* A `Reconnect` may name any session that was announced in a Welcome, whether or not
  a connection of it is still up: `handshake.rs:126` checks nothing of the kind.
* `sink.send` completes at once. In the code it awaits room in the socket for as long
  as an open far end does not read, and the task with it (`client.rs:109`). So far ends are
  taken to read what they are sent, if late, or to close. Safety does not depend on it (a task
  that never goes on is a behaviour of `Spec`); the liveness properties do.
* Real time is not modelled: the connection timeout may fire at any point.
* The network delivers in order and loses a suffix in each direction when the
  connection closes. A sink fails only on a closed connection, but need not.
* A frame is what it is to its reader: a `Choice`, another message, no message
  at all, the end. On raw TCP (`Tcp`) the codec's `Framed` ends the stream after an
  error; the WebSocket adapter maps each message alone and goes on.
  Up to `MaxStray` connections send one frame nobody asked for. A
  reliable player on TCP does not break its own framing before it is told to
  leave.
* The errors of `validate_movement` are one, as `apply_movement` wraps them all in
  `GameError::Movement`. (The one for an invalid `to` of a Move names `from`,
  `movement.rs:180`.) Neither looks at the geometry of the path.
* A Welcome and the subscription after it are one step. A broadcast in between
  is missed by a player who comes back; the same happens when it is sent just
  before the Welcome.

## 3. The runs

The runs of `MCSession` use `Capacity = 4` (32 in the code): a match of two
players then never fills a queue. In `MCImpatient` it is 2, and senders do wait.
`BroadcastCapacity` is 8, more than the broadcasts of a match of the bound, except
in `MCImpatient`, where 2 makes Clients lag.

| run | instance | shows |
|---|---|---|
| `MCSession` | 3 connections, one may close at any time, 2 turns, `Reliable = FALSE`; symmetry; 1,028,715 states | types, seats, sessions, turns, transcript, perspective, handshakes; what those hear who stay and those who return. Three connections are needed for a third Hello between two Welcomes, for a player who drops off and comes back during a match, and for one who asks for its session a second time while it plays; two turns let both players be the one who is away |
| `MCReliable` | 2 connections that stay, one TCP and one WebSocket, one stray frame, up to 4 turns; 82,079 states | the match ends, and all know |
| `MCReturn` | 2 players and a third connection that only comes back, one of the three may break, 1 turn, `TaskFairness` only; connections open in a fixed order; 144,359 states | what a player who returns is owed, and what the server owes any far end that reads or closes: answers to its handshake, the end of a Client without a seat; the refinement of `Table`. (The latter was checked once on the instance of `MCSession` too, in 2 turns.) One turn is enough for a pause and its end |
| `MCImpatient` | 2 connections, 2 answers per Turn, broadcast ring of 2, 3 turns; symmetry; 954,532 states | late and repeated Choices; lag: what is lost, and that the rest is heard once and in order |
| `MCGame` | 3 by 3 rhombus without a corner, 2 pieces each, 8 turns; 2,311 positions | the game; matches are won from turn 4 on. `apply_movement` is given every Move and every hop path of up to three cells, the missing corner among them |
| `MCStar` | the star of the program, 2 turns; 507 states | the rotation and the distance on the real geometry |

In `MCReliable` both players keep their connection and the match ends with both seats
taken: `EveryoneSawTheEnd` is then about the two of them. That it holds in a match in
which connections break, and more than one Disconnect is sent, was checked once on a larger
instance, too large to be kept: three connections of which two may close, 1 turn, with all the
properties of `MCSession` and `TableSpec` (1,948,947 states). `HearsNoneTwice`, `LagKeepsTheLast` and
`Transcript` were likewise checked with three connections, one of which comes back after its
player has left the other, and a ring of 2 (218,267 states).

In `MCGame` states that differ in their history only are one (`VIEW MCView`): the
history has no influence on what happens next. `HistoryReplays` is thus checked
for one way into each position at each turn; `HistoryTells` (section 4) proves it
for all. `DistanceIsSteps` is about constants, and looked at in the first state.
In `MCStar`, `ASSUME StarOfFour` and `ASSUME StarSymmetric` evaluate what
`DistancesOnStar` and `TurnSeenAcross` (section 4) ask of the cells and of where the
players start, so that the theorems apply to the tables of `lut.rs`.

`MaxTurns` is `--max-turns` of the program; `MaxClosed` bounds how many
connections close, `MaxStray` how many send something out of place,
`ChoicesPerTurn` how often a player answers a Turn. Deadlock
is not checked: a process that has exited, a match that waits for a player who
never returns, and a game at its bound all stop by design.

Symmetry is used only in runs without liveness; in `MCReturn` connections, which
differ in name only, open in a fixed order instead (`InOrder`). `SeatsEmptyFirst`
is about single steps, for which the permutation of connections is sound.

**Fairness.** `TaskFairness` is weak fairness of the Server task, of each Client and
of each handshake: the tokio runtime polls every task whose await is ready, and a
ready await stays ready until the task takes it. As `sink.send` is taken to complete
(section 2), it holds one assumption about the far ends: they read what they are sent, if
late, or close. `MCReturn` assumes this and no more.
A Client is weakly fair as a whole, not branch by branch: `select!` may favour one
branch for as long as it stays ready, and the properties hold all the same. The
connection timeout fires in the end, since it is the one step a Server that is
never asked anything can take. `LiveSpec` adds `RemoteFairness`: a remote player
answers its Turns, and leaves once it has been sent a `Disconnect`, as
`docs/protocol.md` lets it expect ("Server is closing the connection"); the server
itself never closes one that is still seated. Nobody is obliged to connect, to come back or to
stay.

The six remaining runs each look for a counterexample to one statement of the
repository; see section 5.

## 4. The proofs

All theorems hold for every value of the constants under the named assumptions
(`PlayersAssumption`, `ChannelsAssumption`, `ServerAssumption`,
`TransportAssumption`, `RemoteAssumption`, `BoardAssumption`, `GridAssumption`,
`GameAssumption`): any set of connections, any capacity and bound.

* `SessionProofs!TypeCorrect`: `Spec => []TypeOK`. `TypeOK` is not inductive:
  a Client writes its `player` into its messages, and the type of `player` allows
  for none. The invariant adds `Named`: a handshake that has spawned its Client,
  and a Client that runs, have a player and a session. One lemma per task, one
  step per action.
* `SeatProofs!SeatsKept`: `Spec => []SeatOrAway`, with `BeforeMatch`: nobody is
  marked as disconnected while the Server still waits for players.
* `SeatProofs!SeatsPassEmpty`: `Spec => SeatsEmptyFirst`, an action property, from
  the invariants above.
* `SeatProofs!SeatsOwned`: `Spec => []SeatOwner`. The claim about a seat is only as
  good as the message that asked for it, so the invariant follows the identity
  of a connection through its life (`Identity`): one that has not spoken has no
  message and no answer under way (`Fresh`); a request asks for the session its
  handshake waits for (`Requests`); a notice carries the player and session of its
  connection (`Notices`); an answer to a `Reconnect` is the player of that session
  (`ComesBack`); a registered session is the connection its player first came by,
  whose seat was taken at the same time (`Registered`); a seat is given only when
  the handshake is over (`Settled`).
* `SeatProofs!AskedOnce`: `Spec => []OneExchange`, from the invariant that counts
  the requests of a connection in `main_rx` by their places.
* `TurnProofs!TurnsRouted`, `TurnsSent`, `MovesInPerspective`: `TurnRouting`,
  `TurnOnItsWay`, `Perspective`. One invariant for the three, as each needs the
  others: a Turn is queued for the seat of the player to move, whose connection is
  that player's (from `SeatsOwned`), so it is offered to no other; and while the Server waits for
  a seated player, the Turn has been queued for the very connection that holds the
  seat now.
* `HearProofs` follows the cursor of each Client through the log.
  `LagLosesTheOldest` (`LagKeepsTheLast`) holds of any Client, however late.
  `HeardInOrder` and `EveryMoveHeard` are about Clients that lose nothing: their
  hypothesis `[]Prompt` says that no Client is further behind than the broadcast
  channel keeps. The code does not ensure it (32 messages, and a match of any
  length unless `--max-turns` is given), so it is a hypothesis and not an
  invariant; the runs keep it with a large `BroadcastCapacity`. `ShortMatchHeard` replaces it
  by a condition on constants: a match of at most `BroadcastCapacity - 2` turns
  has no more broadcasts than the channel keeps. What `HearsInOrder` says of a single
  connection holds of each. What it says of the connection of a Hello and one that comes
  back holds if the latter was asked for when no other of the session was up (it is not
  in `hasty`), since the former is then heard on no more (`FirstLeft`); a session asked for
  while it is in use has two Clients that pass the same moves on.
* `HearProofs!HeardOnce`: `Spec => []HearsNoneTwice`, without `Prompt` and for any
  capacity. Places in the log no longer follow from how much was heard, so the
  property speaks of the broadcasts themselves: an earlier one heard is an
  earlier one told. On one connection it has no exception; of two of a
  session it speaks if neither is in `hasty`. The invariant says that connections of a session
  are named after the first of them (`Rooted`) and only one of those not in `hasty` is still
  delivered on (`Alone`), that nothing is heard that was not told (`Logged`), and that nothing
  heard on these is beyond the cursor of the Client that runs (`Behind`). So
  what comes next is new to all of them; and as no broadcast of a match is
  told twice (`ToldOnce`, from `Transcript`), it is not heard twice either.
* `HearProofs!EndSeen`, `ShortMatchSeen`: `EveryoneSawTheEnd` under `[]Prompt`, or
  for a match short enough to have it. It is a statement about each player that
  stays (`Stays`) and that no other connection was welcomed as (`Only`); nothing is
  assumed of the connections of the other player: they may close, come back in haste or not, be
  evicted, and break their framing. The invariant (`Loyal`) says why who stays is not left
  out: a stream ends only if somebody has left (`Faithful`), each Disconnect on
  its way to the Server names a player welcomed on a connection that has (`Quits`),
  and a seat is given up only then (`Vacated`); the Server leaves
  `drain` only when every seat is given up (`AllGone`). What a Disconnect does not tell is
  which connection has left, hence `Only`: without it the statement is false
  (`GracefulShutdown`, section 5).
* `HearProofs!AnswersApplied`: `Spec => AnswersThisTurn`, for players that keep their
  connection (`Reliable`) and answer each Turn once. Such players never have to
  resume (`Steadfast`). The invariant (`OneAnswer`) is that the turn being played is
  in one place at a time: in the queue of the mover's Client, with the player,
  among the frames, or back with the Server; and nowhere while the
  Server is not waiting. With two answers per Turn the property fails
  (TLC finds the second one applied to a later turn on the instance of
  `MCImpatient`), so the hypothesis is needed.
* `SessionTable!PlaysOneMatch`: `Spec => TableSpec`. The mapping (`Phase` in
  `Session`) forgets the tasks, queues and connections and keeps who is registered, the
  match and the broadcasts. Only the Server's steps touch those
  (`OthersLeaveTable`); each is one step of the table or none. Besides the
  identity of sessions, needed to see that the second registration is that of the
  other player, the invariant (`Ongoing`) says that no result has been broadcast
  while the match is on, so that "concluded" and "abandoned" can be told apart by
  the log.
* `TableProofs!TableTells`: at the table, the log is at all times the moves
  of one legal match and an ending that fits the phase, and a winner has made the
  last move. With the refinement it gives `SessionTable!BroadcastsTell`:
  `Spec => []Transcript`.
* `GameProofs!GameTyped`, `GameCounts`, `PiecesKept`, `GameEnds`, `GameRefines`: on
  any finite board, with any list of movements that is legal on it
  (`LegalMoves(Boards)`) and whatever movements `apply_movement` is given, the incremental scores are the
  cells occupied, pieces are conserved, the match is finished exactly when won,
  and the game with its board forgotten is `TurnGame`. The inductive
  invariant (`Count`) states the scores as integers equal to the cells occupied;
  that none underflows follows, since they are cardinalities. Only the mover can
  win: the opponent had not before, and a movement puts down no piece of theirs.
  `Validated` says what validation is worth: an accepted movement takes a piece of
  its player to an empty cell, or back to where it was (a hop sequence of
  one cell), which is all the invariant needs. `GeneratorLegal` discharges
  `LegalMoves(Boards)` for the list the program makes.
* `MovementProofs!ArrayIsBoard`, `ArrayOfNew`, `ArrayMoves`: for any length of the rows and
  any cells that fit, the array stands for the board: neighbours, the cells
  of a player's pieces, the board of the first turn, a movement. All rest on
  `Slotted`, that slots and indices correspond. `GameProofs!ArrayIsTheBoard` says so of
  every position of a match.
* `MovementProofs!DistanceSteps` and `GameProofs!DistancesOnStar`: `hex_distance` counts
  steps in the plane, and on a board the steps must stay on its cells, which
  depends on its shape. On a star of any size (`StarShaped`: two triangles
  laid one over the other) they do: any cell but the goal has a neighbour on the star
  one step nearer. `MCStar` evaluates that the cells of `lut.rs` are a star of size 4.
* `MovementProofs!GeneratedMovements` and `GameProofs!GeneratorRight`,
  `CheckedPathAccepts`, `TurnSeenAcross`: the depth-first search of the generator, on any
  board, finds just the destinations of the rules; `apply_movement` agrees with it;
  and half a turn of a board that is `Symmetric` takes the movements of one player to
  those of the other, and the pieces one has in its goal to those of the other. These need induction over data. `LeastNatural` (a set of naturals that is not
  empty has a least element, from the well-foundedness of `<`) gives it: the
  generator is a recursive function whose path leaves fewer cells at each hop
  (`LongerRank`), so such a function exists (`SolvedBelow`), the generator obeys its own
  equation (`Collected`), and the paths are the least set closed under one more hop
  (`PathsClosed`, `PathsLeast`). The closure of the rules is treated alike (`ClosureLeast`).
  The two differ in that the generator leaves the moving piece on its cell: no
  hop passes over that cell, as it lies an even number of cells away in both
  coordinates from wherever hops lead (`OddStep`), and a path that would end on it or
  cross itself has a shorter one to the same place (`ReachedByPath`).
* `GameProofs!HistoryTells`: `HistoryReplays`, by the same kind of induction for the
  fold over the history (`ReplayMore`) and `ArrayMoves` for its step.

Only model-checked: the five properties that need fairness (`Terminates`,
`TurnsAdvance`, `HandshakesAnswered`, `OrphansEnd`, `ReturnEndsPause`), which are beyond
TLAPS, and the six statements that do not hold.

## 5. Where documents and code part

| run | statement | what happens |
|---|---|---|
| `ExcessRejected` | `tests/connection.rs:76`, "Should receive Reject" | a third Hello read between a Welcome and its ClientConnected is welcomed, then dropped |
| `MovementBeforeTurn` | `docs/protocol.md:36-39`, `tests/gameplay.rs:53-90` | the Turn may overtake the Movement it follows from |
| `WelcomedResumes` | `README.md:159` | a player that had its Turn and left is welcomed back and dropped, if the old Disconnect is still queued (`mod.rs:254`) |
| `DisconnectOnlyPauses` | `mod.rs:292`, "We continue waiting ..." | a Turn sent to a Client that just ended ends the match |
| `GracefulShutdown` | `mod.rs:153`, "waiting for clients to acknowledge/close" | a Disconnect of another connection of the player is taken for the one of its seat, and the process exits before the player is told |
| `ShutsDown` | `bin/sternhalma-server.rs:79` | a Client that ends on a sink error leaves the shutdown waiting for ever |

Two connections are welcomed as one player when its slot is given away twice
(`ExcessRejected`) or its session asked for while it is in use. Only one of them has the seat, but
a `Disconnect` names the player: read during the match, the one of the other empties the
seat (the player waits for a Turn that goes to whoever comes back), read in
`disconnect_players` it stands for the player's own (`GracefulShutdown`). `EveryoneSawTheEnd`
is therefore about players that only one connection was welcomed as.

`ReturnEndsPause` does not promise the Turn to every connection that asks to resume: the
pause may end otherwise, when a second connection of the session is given the seat or when
a choice made before the pause is applied, and the Reconnect that comes then is dropped, as
in `WelcomedResumes`. It also excepts a session that is announced in the Welcome and used
before `ClientConnected` has registered it: that Reconnect is refused, and the client has to
try again.

## 6. Plan

Done: the session, the game on the board, the checked path and the history, the
transport, the array, the abstract table and its refinement; proofs of every
invariant and action property the runs check.

Left: four connections with evictions and returns, for stale choices of an old
connection and for several that return to one session; the state space needs a coarser
`Remote` first. Far ends that stay open and do not read, with a bound on what a sink
takes in.

## 7. Not modelled

* The bytes: serialisation and framing are the work of libraries. A partial
  frame is one that has not arrived yet. `ClientCodec` serves the tests.
* `timing.rs`: statistics for the log, of real time.
* The random choices of the playground's agents, printing, `dist_euclidean` (unused).
* `Board::index` of coordinates beyond the array: it panics, or, in a release
  build and for a column that is too large, reads a position of another row. Only a caller of
  `apply_movement` could name such an index; none exists.
* `iter_available_moves` of a finished match is `todo!()`; both loops ask only
  while the match is on.
* A player to move without a movement. Its turn would never end (`mod.rs:307`; in
  the playground, `unwrap_unchecked` of nothing). With fifteen pieces each it
  cannot come up: to block fifteen pieces on the star takes more pieces of
  the opponent than there are. This was counted with a constraint solver outside of
  these modules; here, the player to move always has a movement (`TurnGame`), and
  `Game` stops if it has none.
