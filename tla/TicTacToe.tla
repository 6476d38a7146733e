----------------------------- MODULE TicTacToe ------------------------------
(* The game server and its clients (networks/partA), over TCP and over     *)
(* UDP, where anybody may send: clients that do not play as well.          *)
(*                                                                         *)
(* Of the server's messages only those are kept that a client tells apart: *)
(* "turn", "again", "agreed" and "end".  A TCP client may receive several  *)
(* of them at once; over UDP a datagram comes alone, and may be lost.      *)
EXTENDS Integers, FiniteSets, Sequences, SequencesExt

CONSTANTS
    Clients,
    Transports,     \* "tcp", "udp"
    Moves,          \* bound: the cells each client chooses from
    MaxGames,       \* bound: games until the players no longer agree
    MaxLost         \* bound: datagrams lost

Symbols == <<"X", "O">>         \* of player 1 and of player 2
Cells == (0..2) \X (0..2)
Bad == <<"bad">>                \* a line that is no move
Yes == <<"yes">>
Join == <<"join">>

VARIABLES
    transport,
    pc,         \* where the server is
    board, current, player,     \* players in the order they came
    answers,    \* the answers it has received
    toServer,   \* pairs of a client and its message, in the order sent
    inbox, cl,  \* what is under way to a client, and where it is
    games, lost

serverVars == <<pc, board, current, player, answers, games>>
vars == <<transport, serverVars, toServer, inbox, cl, lost>>

EmptyBoard == [c \in Cells |-> " "]

Init ==
    /\ transport \in Transports
    /\ pc = "join" /\ board = EmptyBoard /\ current = 1 /\ player = <<>> /\ answers = <<>>
    /\ toServer = <<>> /\ inbox = [c \in Clients |-> <<>>] /\ cl = [c \in Clients |-> "out"]
    /\ games = 0 /\ lost = 0

Tcp == transport = "tcp"
Gone(c) == cl[c] = "done"

ToBoth(m) == inbox' = [c \in Clients |-> IF c \in Range(player) /\ ~Gone(c)
                                         THEN Append(inbox[c], m) ELSE inbox[c]]

(* check_win(): a row, a column or a diagonal.                             *)
Lines == {{<<i, j>> : j \in 0..2} : i \in 0..2} \cup {{<<i, j>> : i \in 0..2} : j \in 0..2}
         \cup {{<<i, i>> : i \in 0..2}, {<<i, 2 - i>> : i \in 0..2}}
CheckWin(b, s) == \E l \in Lines : \A c \in l : b[c] = s
IsBoardFull(b) == \A c \in Cells : b[c] # " "

-----------------------------------------------------------------------------
(* The server.                                                             *)

(* What it can read next: over TCP only from one player, in order; over    *)
(* UDP the oldest datagram, whoever sent it.                               *)
CanRead(p, n) ==
    /\ n \in DOMAIN toServer
    /\ IF Tcp THEN toServer[n][1] = p /\ \A k \in 1..n - 1 : toServer[k][1] # p ELSE n = 1

(* accept(), or a JOIN; over UDP anything else is ignored.                 *)
Joined == \E n \in DOMAIN toServer :
    /\ pc = "join" /\ (IF Tcp THEN toServer[n][2] = Join ELSE n = 1)
    /\ toServer' = RemoveAt(toServer, n)
    /\ IF toServer[n][2] = Join
       THEN /\ player' = Append(player, toServer[n][1])
            /\ IF Len(player') = 2
               THEN pc' = "turn" /\ board' = EmptyBoard /\ games' = games + 1
               ELSE UNCHANGED <<pc, board, games>>
       ELSE UNCHANGED <<player, pc, board, games>>
    /\ UNCHANGED <<transport, current, answers, inbox, cl, lost>>

(* Mutant: both players are prompted.                                      *)
SendTurnBoth ==
    /\ pc = "turn"
    /\ pc' = "recv" /\ ToBoth("turn")
    /\ UNCHANGED <<transport, board, current, player, answers, games, toServer, cl, lost>>

SendTurn ==
    /\ pc = "turn"
    /\ pc' = "recv"
    /\ inbox' = IF Gone(player[current]) THEN inbox
                ELSE [inbox EXCEPT ![player[current]] = Append(@, "turn")]
    /\ UNCHANGED <<transport, board, current, player, answers, games, toServer, cl, lost>>

(* Mutant: after an invalid move the player is not prompted again.         *)
MoveOnSilent(c) ==
    LET s == Symbols[current]
        b == IF c \in Cells /\ board[c] = " " THEN [board EXCEPT ![c] = s] ELSE board
    IN /\ board' = b
       /\ pc' = IF b = board THEN "recv" ELSE IF CheckWin(b, s) \/ IsBoardFull(b) THEN "ask" ELSE "turn"
       /\ current' = IF b = board \/ pc' = "ask" THEN current ELSE 3 - current

(* make_move() and what follows; a cell that is taken leaves all as it is. *)
MoveOn(c) ==
    LET s == Symbols[current]
        b == IF c \in Cells /\ board[c] = " " THEN [board EXCEPT ![c] = s] ELSE board
    IN /\ board' = b
       /\ pc' = IF b # board /\ (CheckWin(b, s) \/ IsBoardFull(b)) THEN "ask" ELSE "turn"
       /\ current' = IF b = board \/ pc' = "ask" THEN current ELSE 3 - current

(* A line that is no move leaves row and col with what they held: a cell   *)
(* that is taken, or before the first move of a game anything.             *)
MoveOf(m) == IF m \in Cells THEN {m} ELSE {Bad} \cup (IF board = EmptyBoard THEN Cells ELSE {})

RecvMove == \E n \in DOMAIN toServer : \E c \in MoveOf(toServer[n][2]) :
    /\ pc = "recv" /\ CanRead(player[current], n)
    /\ toServer' = RemoveAt(toServer, n)
    /\ MoveOn(c)
    /\ UNCHANGED <<transport, player, answers, games, inbox, cl, lost>>

HungUp(p) == Tcp /\ Gone(p) /\ \A n \in DOMAIN toServer : toServer[n][1] # p

Disconnected ==
    /\ pc = "recv" /\ HungUp(player[current])
    /\ pc' = "ask"
    /\ UNCHANGED <<transport, board, current, player, answers, games, toServer, inbox, cl, lost>>

Ask ==
    /\ pc = "ask"
    /\ pc' = "again" /\ ToBoth("again") /\ answers' = <<>>
    /\ UNCHANGED <<transport, board, current, player, games, toServer, cl, lost>>

(* Over TCP the answers are read player by player, none counting as no;    *)
(* over UDP they count as those of player 1 and 2 in the order they come.  *)
RecvAgain ==
    /\ pc = "again" /\ Len(answers) < 2
    /\ LET p == player[Len(answers) + 1] IN
          \/ \E n \in DOMAIN toServer :
                /\ CanRead(p, n)
                /\ toServer' = RemoveAt(toServer, n)
                /\ answers' = Append(answers, toServer[n][2] = Yes)
          \/ HungUp(p) /\ answers' = Append(answers, FALSE) /\ UNCHANGED toServer
    /\ UNCHANGED <<transport, pc, board, current, player, games, inbox, cl, lost>>

(* Both want another game: over TCP it begins, over UDP the server waits   *)
(* for two players to join.                                                *)
Agreed ==
    /\ pc = "again" /\ answers = <<TRUE, TRUE>>
    /\ ToBoth("agreed")
    /\ current' = 1
    /\ IF Tcp THEN pc' = "turn" /\ board' = EmptyBoard /\ games' = games + 1 /\ UNCHANGED player
              ELSE pc' = "join" /\ player' = <<>> /\ UNCHANGED <<board, games>>
    /\ UNCHANGED <<transport, answers, toServer, cl, lost>>

Ended ==
    /\ pc = "again" /\ Len(answers) = 2 /\ answers # <<TRUE, TRUE>>
    /\ pc' = "end"
    /\ inbox' = [c \in Clients |->
         IF ~Gone(c) /\ \E i \in 1..2 : player[i] = c /\ (answers[i] \/ answers = <<FALSE, FALSE>>)
         THEN Append(inbox[c], "end") ELSE inbox[c]]
    /\ UNCHANGED <<transport, board, current, player, answers, games, toServer, cl, lost>>

(* SIGPIPE: the server sends to a player that has hung up.                 *)
ServerKilled ==
    /\ Tcp /\ pc \in {"turn", "ask", "again"} /\ \E i \in DOMAIN player : Gone(player[i])
    /\ pc' = "end"
    /\ UNCHANGED <<transport, board, current, player, answers, games, toServer, inbox, cl, lost>>

-----------------------------------------------------------------------------
(* A client.                                                               *)

Sends(c, m) == toServer' = Append(toServer, <<c, m>>)

JoinGame(c) ==
    /\ cl[c] = "out" /\ pc # "end"
    /\ cl' = [cl EXCEPT ![c] = "recv"] /\ Sends(c, Join)
    /\ UNCHANGED <<transport, serverVars, inbox, lost>>

(* What one recv() may return.                                             *)
Batches(c) == IF inbox[c] = <<>> THEN {} ELSE IF Tcp THEN 1..Len(inbox[c]) ELSE {1}

(* A turn is looked for before the question.                               *)
ClientRecv(c) == \E n \in Batches(c) :
    LET batch == Range(SubSeq(inbox[c], 1, n)) IN
    /\ cl[c] = "recv"
    /\ inbox' = [inbox EXCEPT ![c] = SubSeq(@, n + 1, Len(@))]
    /\ IF "turn" \in batch THEN UNCHANGED cl /\ \E m \in Moves[c] \cup {Bad} : Sends(c, m)
       ELSE IF "again" \in batch
       THEN /\ cl' = [cl EXCEPT ![c] = "answer"]
            /\ \E a \in {Yes, Bad} : (a = Yes => games < MaxGames) /\ Sends(c, a)
       ELSE UNCHANGED <<cl, toServer>>
    /\ UNCHANGED <<transport, serverVars, lost>>

(* The server's response: whatever else has come with it is not looked at. *)
ClientResponse(c) == \E n \in Batches(c) :
    /\ cl[c] = "answer"
    /\ inbox' = [inbox EXCEPT ![c] = SubSeq(@, n + 1, Len(@))]
    /\ cl' = [cl EXCEPT ![c] = IF "end" \in Range(SubSeq(inbox[c], 1, n)) THEN "done" ELSE "recv"]
    /\ UNCHANGED <<transport, serverVars, toServer, lost>>

ClientEof(c) ==
    /\ Tcp /\ cl[c] \in {"recv", "answer"} /\ inbox[c] = <<>> /\ pc = "end"
    /\ cl' = [cl EXCEPT ![c] = "done"]
    /\ UNCHANGED <<transport, serverVars, toServer, inbox, lost>>

Quit(c) ==
    /\ cl[c] \in {"recv", "answer"}
    /\ cl' = [cl EXCEPT ![c] = "done"] /\ inbox' = [inbox EXCEPT ![c] = <<>>]
    /\ UNCHANGED <<transport, serverVars, toServer, lost>>

Lose ==
    /\ ~Tcp /\ lost < MaxLost /\ lost' = lost + 1
    /\ \/ \E n \in DOMAIN toServer : toServer' = RemoveAt(toServer, n) /\ UNCHANGED inbox
       \/ \E c \in Clients : /\ inbox[c] # <<>> /\ inbox' = [inbox EXCEPT ![c] = Tail(@)]
                             /\ UNCHANGED toServer
    /\ UNCHANGED <<transport, serverVars, cl>>

Server == Joined \/ SendTurn \/ RecvMove \/ Disconnected \/ Ask \/ RecvAgain \/ Agreed \/ Ended
          \/ ServerKilled
Client(c) == JoinGame(c) \/ ClientRecv(c) \/ ClientResponse(c) \/ ClientEof(c) \/ Quit(c)

Next == Server \/ (\E c \in Clients : Client(c)) \/ Lose

Spec == Init /\ [][Next]_vars

-----------------------------------------------------------------------------
(* Properties.                                                             *)

TypeOK ==
    /\ pc \in {"join", "turn", "recv", "ask", "again", "end"}
    /\ board \in [Cells -> {"X", "O", " "}] /\ current \in {1, 2}
    /\ player \in Seq(Clients) /\ Len(player) <= 2 /\ (pc \notin {"join", "end"} => Len(player) = 2)
    /\ answers \in Seq(BOOLEAN) /\ Len(answers) <= 2
    /\ cl \in [Clients -> {"out", "recv", "answer", "done"}]

Count(s) == Cardinality({c \in Cells : board[c] = s})

(* The board is one that the rules allow, whatever lines are typed and     *)
(* whoever sends them: the symbols alternate, the turn is that of the      *)
(* player with fewer, only one has won, and nobody moves after.            *)
BoardLegal ==
    /\ Count("X") - Count("O") \in {0, 1}
    /\ ~(CheckWin(board, "X") /\ CheckWin(board, "O"))
    /\ pc \in {"turn", "recv"} =>
         /\ ~CheckWin(board, "X") /\ ~CheckWin(board, "O") /\ ~IsBoardFull(board)
         /\ current = 1 <=> Count("X") = Count("O")

(* While the server waits for a move, nothing but that one line of the     *)
(* current player can be under way to it: so a player moves only with its  *)
(* own symbol and in its turn, although over UDP the server does not look  *)
(* at who has sent a datagram.  That holds until somebody else comes, a    *)
(* third client or a player started again: its JOIN is read as a bad move, *)
(* the player is prompted twice, and its second line is the other's move.  *)
Strangers == {c \in Clients : cl[c] # "out" /\ c \notin Range(player)}
OneTalks == pc = "recv" /\ Strangers = {} =>
    Len(toServer) <= 1 /\ \A n \in DOMAIN toServer : toServer[n][1] = player[current]

(* The board is one that the rules allow, and without strangers the moves  *)
(* are those of the turns.                                                 *)
GameLegal == TypeOK /\ BoardLegal /\ OneTalks

(* Until the first game's question is answered, the server never waits for *)
(* a player that has nothing to answer: its prompt or its line is under    *)
(* way, unless it has left or a datagram was lost, and whoever else sends: *)
(* a stranger's line costs a prompt more, never one less.  (In a later     *)
(* game that is false: over TCP the prompt may come with the response and  *)
(* is not looked at, over UDP nobody joins again.)                         *)
Busy(c, m) == m \in Range(inbox[c]) \/ \E n \in DOMAIN toServer : toServer[n][1] = c
FirstGameGoesOn == games = 1 /\ lost = 0 =>
    /\ pc = "recv" => Gone(player[current]) \/ Busy(player[current], "turn")
    /\ pc = "again" => \A i \in Len(answers) + 1..2 :
         Tcp => Gone(player[i]) \/ Busy(player[i], "again")

=============================================================================
