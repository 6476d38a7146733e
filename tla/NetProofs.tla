----------------------------- MODULE NetProofs ------------------------------
(* First the game, over TCP and UDP, whatever the clients type, whoever    *)
(* comes or leaves and whatever is lost: board and turns are those of the  *)
(* rules, and in the first game the server never waits for a client that   *)
(* has nothing to answer.  As long as nobody else has come, the two that   *)
(* play move only in their turns.                                          *)
(*                                                                         *)
(* Then the transfer: an acknowledged chunk has arrived, for any number of *)
(* chunks of the message, any number of retries and an answer of one       *)
(* chunk, which is what the fixed text of server.c makes.                  *)
EXTENDS MCNet, SequenceTheorems, FiniteSetTheorems, TLAPS

Kinds == {"turn", "again", "agreed", "end"}
Moved == UNION {Moves[c] : c \in Clients}
Payload == Moved \cup {Bad, Yes, Join}

-----------------------------------------------------------------------------
(* What is under way, whoever sends.                                       *)

Heard(c) == \E n \in DOMAIN toServer : toServer[n][1] = c
Joining == pc = "join" /\ games = 0

MailType ==
    /\ toServer \in Seq(Clients \X Payload) /\ inbox \in [Clients -> Seq(Kinds)]
    /\ games \in Nat /\ lost \in Nat

(* A client has at most one line under way.                                *)
OneEach == \A m, n \in DOMAIN toServer : toServer[m][1] = toServer[n][1] => m = n

(* Nothing is under way from or to a client that has not come.             *)
OutsideOK == \A c \in Clients :
    cl[c] = "out" => inbox[c] = <<>> /\ ~Heard(c) /\ c \notin Range(player)

(* The server waits for another player, or a game has begun.               *)
PlacesLeft ==
    /\ pc = "join" => current = 1 /\ Len(player) <= 1
    /\ pc # "join" => games >= 1

(* Before the first game there are JOINs, and who has joined stays joined. *)
FirstJoins == Joining =>
    /\ OneEach
    /\ \A n \in DOMAIN toServer : toServer[n][2] = Join /\ toServer[n][1] \notin Range(player)
    /\ \A c \in Clients : inbox[c] = <<>> /\ cl[c] # "answer"

(* Until something is lost, the first game's prompts reach a client that   *)
(* waits for them, and the question is the last message it is sent.        *)
FirstGameInv == games = 1 /\ lost = 0 =>
    /\ pc \notin {"join", "end"} => player[1] # player[2]
    /\ pc \in {"turn", "recv", "ask"} =>
          \A c \in Clients : cl[c] # "answer" /\ "again" \notin Range(inbox[c])
    /\ pc = "again" => \A c \in Clients : \A i \in DOMAIN inbox[c] :
          inbox[c][i] = "again" => i = Len(inbox[c]) /\ cl[c] # "answer"
    /\ pc = "recv" => Gone(player[current]) \/ Busy(player[current], "turn")
    /\ pc = "again" /\ Tcp => \A i \in Len(answers) + 1..2 :
          Gone(player[i]) \/ Busy(player[i], "again")

-----------------------------------------------------------------------------
(* What is under way, as long as no more than two clients have come.       *)

TwoCame == \E a, b \in Clients : \A c \in Clients \ {a, b} : cl[c] = "out"
BothCame == \E a, b \in Clients : a # b /\ cl[a] # "out" /\ cl[b] # "out"

Spent(c) == inbox[c] = <<>> /\ ~Heard(c)
Quiet == {<<>>, <<"agreed">>}
Playing == pc \notin {"join", "end"}

PlayersOK ==
    /\ pc = "join" => current = 1 /\ (IF games = 0 THEN Len(player) <= 1 ELSE player = <<>>)
    /\ Playing => player[1] # player[2]
    /\ pc # "join" => games >= 1
    /\ games >= 1 => BothCame

(* The lines under way to the server are JOINs, the one the server has     *)
(* asked the current player for, or the answers to its question.           *)
LinesOK ==
    /\ Joining => \A n \in DOMAIN toServer :
                    toServer[n][2] = Join /\ toServer[n][1] \notin Range(player)
    /\ pc \in {"turn", "ask"} \/ (pc = "join" /\ ~Joining) => toServer = <<>>
    /\ pc = "recv" => \A c \in Clients : Heard(c) => c = player[current] /\ inbox[c] \in Quiet
    /\ pc = "again" => \A c \in Clients : Heard(c) => inbox[c] = <<>>

(* What is under way to a client: "agreed" at most, and the last prompt.   *)
PromptsOK == \A c \in Clients :
    /\ Joining => inbox[c] = <<>>
    /\ pc \in {"turn", "ask", "join"} => inbox[c] \in Quiet
    /\ pc = "recv" => inbox[c] \in Quiet \/
          (c = player[current] /\ inbox[c] \in {<<"turn">>, <<"agreed", "turn">>})
    /\ pc = "again" => inbox[c] \in {<<>>, <<"again">>, <<"agreed", "again">>}
    /\ Gone(c) => inbox[c] = <<>>

(* An answer that has been read was that of a client.                      *)
AnswersOK == pc = "again" =>
    /\ Len(answers) >= 1 => \E c \in {player[1], player[2]} : Spent(c)
    /\ Len(answers) = 2 => \A c \in Clients : Spent(c)
    /\ Tcp => \A i \in 1..Len(answers) : Spent(player[i])

MailInv ==
    /\ MailType /\ PlayersOK
    /\ pc # "end" => OneEach /\ LinesOK /\ PromptsOK /\ AnswersOK

GameInv ==
    /\ TypeOK /\ BoardLegal /\ MailType /\ PlacesLeft /\ OutsideOK
    /\ FirstJoins /\ FirstGameInv
    /\ TwoCame => MailInv

-----------------------------------------------------------------------------
(* Lines and prompts as sequences.                                         *)

(* Without its n-th element a sequence closes up, as RemoveAt says.        *)
LEMMA RemoveOne ==
  ASSUME NEW S, NEW s \in Seq(S), NEW n \in DOMAIN s
  PROVE  /\ RemoveAt(s, n) \in Seq(S)
         /\ DOMAIN RemoveAt(s, n) = 1..(Len(s) - 1)
         /\ \A i \in 1..(Len(s) - 1) :
              RemoveAt(s, n)[i] = s[IF i < n THEN i ELSE i + 1]
<1> DEFINE l == SubSeq(s, 1, n - 1)
           r == SubSeq(s, n + 1, Len(s))
<1>1. n \in 1..Len(s) /\ Len(s) \in Nat
  OBVIOUS
<1>2. l \in Seq(S) /\ Len(l) = n - 1 /\ \A i \in 1..(n - 1) : l[i] = s[i]
  BY <1>1, SubSeqProperties
<1>3. r \in Seq(S) /\ Len(r) = Len(s) - n
      /\ \A i \in 1..(Len(s) - n) : r[i] = s[n + i]
  <2>1. CASE n < Len(s)
    BY <1>1, <2>1, SubSeqProperties
  <2>2. CASE n = Len(s)
    BY <1>1, <2>2, SubSeqEmpty
  <2> QED
    BY <1>1, <2>1, <2>2
<1>4. RemoveAt(s, n) = l \o r
  BY DEF RemoveAt
<1> HIDE DEF l, r
<1>5. /\ l \o r \in Seq(S) /\ Len(l \o r) = Len(s) - 1
      /\ \A i \in 1..(Len(s) - 1) :
           (l \o r)[i] = IF i <= n - 1 THEN l[i] ELSE r[i - (n - 1)]
  BY <1>1, <1>2, <1>3, ConcatProperties
<1>6. DOMAIN (l \o r) = 1..(Len(s) - 1)
  BY <1>5, LenProperties
<1>7. ASSUME NEW i \in 1..(Len(s) - 1)
      PROVE  (l \o r)[i] = s[IF i < n THEN i ELSE i + 1]
  <2>1. CASE i < n
    BY <1>1, <1>2, <1>5, <2>1
  <2>2. CASE ~(i < n)
    <3>1. i - (n - 1) \in 1..(Len(s) - n) /\ n + (i - (n - 1)) = i + 1
      BY <1>1, <2>2
    <3>2. (l \o r)[i] = r[i - (n - 1)]
      BY <1>1, <1>5, <2>2
    <3>3. r[i - (n - 1)] = s[n + (i - (n - 1))]
      BY <1>3, <3>1
    <3> QED
      BY <2>2, <3>1, <3>2, <3>3
  <2> QED
    BY <2>1, <2>2
<1> QED
  BY <1>4, <1>5, <1>6, <1>7

(* The server takes one line: its client has none under way any more.      *)
LEMMA LineTaken ==
  ASSUME MailType, OneEach, NEW n \in DOMAIN toServer, toServer' = RemoveAt(toServer, n)
  PROVE  /\ toServer' \in Seq(Clients \X Payload) /\ OneEach'
         /\ \A c \in Clients : Heard(c)' <=> Heard(c) /\ c # toServer[n][1]
         /\ \A k \in DOMAIN toServer' : \E m \in DOMAIN toServer : toServer'[k] = toServer[m]
<1> DEFINE back(i) == IF i < n THEN i ELSE i + 1
<1>1. /\ toServer' \in Seq(Clients \X Payload) /\ DOMAIN toServer = 1..Len(toServer)
      /\ DOMAIN toServer' = 1..(Len(toServer) - 1) /\ Len(toServer) \in Nat
      /\ n \in 1..Len(toServer)
      /\ \A i \in DOMAIN toServer' : toServer'[i] = toServer[back(i)]
  <2> DEFINE S == Clients \X Payload
  <2>1. toServer \in Seq(S)
    BY DEF MailType
  <2> HIDE DEF S
  <2>2. DOMAIN toServer = 1..Len(toServer) /\ Len(toServer) \in Nat
    BY <2>1, LenProperties
  <2>3. /\ toServer' \in Seq(S) /\ DOMAIN toServer' = 1..(Len(toServer) - 1)
        /\ \A i \in 1..(Len(toServer) - 1) : toServer'[i] = toServer[IF i < n THEN i ELSE i + 1]
    BY <2>1, RemoveOne
  <2> QED
    BY <2>2, <2>3 DEF S
<1>2. \A i \in DOMAIN toServer' : back(i) \in DOMAIN toServer /\ back(i) # n
  BY <1>1
<1>3. \A i, j \in DOMAIN toServer' : back(i) = back(j) => i = j
  BY <1>1
<1>4. \A m \in DOMAIN toServer : m # n => \E i \in DOMAIN toServer' : m = back(i)
  <2> SUFFICES ASSUME NEW m \in DOMAIN toServer, m # n
               PROVE  \E i \in DOMAIN toServer' : m = back(i)
    OBVIOUS
  <2>1. CASE m < n
    BY <1>1, <2>1
  <2>2. CASE m > n
    <3>1. m - 1 \in DOMAIN toServer' /\ m = back(m - 1)
      BY <1>1, <2>2
    <3> QED
      BY <3>1
  <2> QED
    BY <1>1, <2>1, <2>2
<1> HIDE DEF back
<1>5. OneEach'
  BY <1>1, <1>2, <1>3 DEF OneEach
<1>6. ASSUME NEW c \in Clients PROVE Heard(c)' <=> Heard(c) /\ c # toServer[n][1]
  BY <1>1, <1>2, <1>4 DEF Heard, OneEach
<1> QED
  BY <1>1, <1>2, <1>5, <1>6

(* A client without a line under way sends one.                            *)
LEMMA LineSent ==
  ASSUME MailType, OneEach, NEW c \in Clients, NEW m \in Payload, ~Heard(c), Sends(c, m)
  PROVE  /\ toServer' \in Seq(Clients \X Payload) /\ OneEach'
         /\ \A d \in Clients : Heard(d)' <=> Heard(d) \/ d = c
         /\ \A k \in DOMAIN toServer' : \/ toServer'[k] = <<c, m>>
                                        \/ k \in DOMAIN toServer /\ toServer'[k] = toServer[k]
<1>1. toServer' = Append(toServer, <<c, m>>) /\ toServer \in Seq(Clients \X Payload)
  BY DEF Sends, MailType
<1>2. /\ toServer' \in Seq(Clients \X Payload)
      /\ Len(toServer') = Len(toServer) + 1 /\ toServer'[Len(toServer) + 1] = <<c, m>>
      /\ \A k \in 1..Len(toServer) : toServer'[k] = toServer[k]
  BY <1>1, AppendProperties
<1>3. DOMAIN toServer' = DOMAIN toServer \cup {Len(toServer) + 1}
      /\ Len(toServer) + 1 \notin DOMAIN toServer
      /\ DOMAIN toServer = 1..Len(toServer)
  BY <1>1, <1>2
<1>4. toServer'[Len(toServer) + 1][1] = c
  BY <1>2
<1>5. OneEach'
  BY <1>2, <1>3, <1>4 DEF OneEach, Heard
<1>6. ASSUME NEW d \in Clients PROVE Heard(d)' <=> Heard(d) \/ d = c
  BY <1>2, <1>3, <1>4 DEF Heard
<1> QED
  BY <1>2, <1>3, <1>5, <1>6

(* The queue of lines is empty when no client has one in it.               *)
LEMMA NoLines ==
  ASSUME NEW q \in Seq(Clients \X Payload)
  PROVE  q = <<>> <=> \A c \in Clients : ~\E n \in DOMAIN q : q[n][1] = c
<1>1. DOMAIN q = 1..Len(q) /\ Len(q) \in Nat
  BY LenProperties
<1>2. \A n \in DOMAIN q : q[n][1] \in Clients
  BY <1>1, ElementOfSeq
<1>3. q = <<>> <=> DOMAIN q = {}
  <2>1. q = <<>> <=> Len(q) = 0
    BY EmptySeq
  <2>2. Len(q) # 0 => 1 \in 1..Len(q)
    BY <1>1
  <2>3. Len(q) = 0 => 1..Len(q) = {}
    OBVIOUS
  <2> QED
    BY <1>1, <2>1, <2>2, <2>3
<1> QED
  BY <1>2, <1>3

(* What one recv() of a client returns, and what is left.                  *)
LEMMA Batch ==
  ASSUME NEW q \in Seq(Kinds), NEW n \in 1..Len(q)
  PROVE  LET taken == Range(SubSeq(q, 1, n))
             rest == SubSeq(q, n + 1, Len(q))
         IN /\ rest \in Seq(Kinds)
            /\ \A x : q = <<x>> => taken = {x} /\ rest = <<>>
            /\ \A x, y : q = <<x, y>> => \/ n = 1 /\ taken = {x} /\ rest = <<y>>
                                         \/ n = 2 /\ taken = {x, y} /\ rest = <<>>
<1> DEFINE head == SubSeq(q, 1, n)
           rest == SubSeq(q, n + 1, Len(q))
<1>1. head \in Seq(Kinds) /\ Len(head) = n /\ \A i \in 1..n : head[i] = q[i]
  BY SubSeqProperties
<1>2. rest \in Seq(Kinds) /\ Len(rest) = Len(q) - n
      /\ \A i \in 1..(Len(q) - n) : rest[i] = q[n + i]
  <2>1. CASE n < Len(q)
    BY <2>1, SubSeqProperties
  <2>2. CASE n = Len(q)
    BY <2>2, SubSeqEmpty
  <2> QED
    BY <2>1, <2>2
<1> HIDE DEF head, rest
<1>3. Range(head) = {head[i] : i \in 1..n}
  BY <1>1 DEF Range
<1>4. ASSUME NEW x, q = <<x>> PROVE Range(head) = {x} /\ rest = <<>>
  <2>1. n = 1 /\ Len(q) = 1 /\ q[1] = x
    BY <1>4
  <2> QED
    BY <1>1, <1>2, <1>3, <2>1
<1>5. ASSUME NEW x, NEW y, q = <<x, y>>
      PROVE  \/ n = 1 /\ Range(head) = {x} /\ rest = <<y>>
             \/ n = 2 /\ Range(head) = {x, y} /\ rest = <<>>
  <2>1. Len(q) = 2 /\ q[1] = x /\ q[2] = y /\ n \in {1, 2}
    BY <1>5
  <2>2. CASE n = 1
    <3>1. Len(rest) = 1 /\ rest[1] = y
      BY <1>2, <2>1, <2>2
    <3> QED
      BY <1>1, <1>2, <1>3, <2>1, <2>2, <3>1
  <2>3. CASE n = 2
    <3>1. Range(head) = {x, y}
      BY <1>1, <1>3, <2>1, <2>3
    <3>2. rest = <<>>
      BY <1>2, <2>1, <2>3
    <3> QED
      BY <2>3, <3>1, <3>2
  <2> QED
    BY <2>1, <2>2, <2>3
<1> QED
  BY <1>2, <1>4, <1>5 DEF head, rest

-----------------------------------------------------------------------------
(* The board.                                                              *)

Squares(b, s) == {c \in Cells : b[c] = s}
Boards == [Cells -> {"X", "O", " "}]

(* The squares with a given symbol can be counted.                         *)
LEMMA FiniteBoard ==
  ASSUME NEW b \in Boards, NEW s
  PROVE  IsFiniteSet(Squares(b, s)) /\ Cardinality(Squares(b, s)) \in Nat
<1>1. IsFiniteSet(0..2)
  <2>1. 0 \in Int /\ 2 \in Int
    OBVIOUS
  <2> QED
    BY <2>1, FS_Interval, Zenon
<1>2. IsFiniteSet(Cells)
  BY <1>1, FS_Product DEF Cells
<1>3. Squares(b, s) \subseteq Cells
  BY DEF Squares
<1> QED
  BY <1>2, <1>3, FS_Subset, FS_CardinalityType

(* A row, a column or a diagonal lies on the board and is not empty.       *)
LEMMA LinesInside == \A l \in Lines : l \subseteq Cells /\ l # {}
<1>1. ASSUME NEW i \in 0..2
      PROVE  /\ {<<i, j>> : j \in 0..2} \subseteq Cells /\ <<i, 0>> \in {<<i, j>> : j \in 0..2}
             /\ {<<j, i>> : j \in 0..2} \subseteq Cells /\ <<0, i>> \in {<<j, i>> : j \in 0..2}
  BY DEF Cells
<1>2. {<<i, i>> : i \in 0..2} \subseteq Cells /\ <<0, 0>> \in {<<i, i>> : i \in 0..2}
  BY DEF Cells
<1>3. {<<i, 2 - i>> : i \in 0..2} \subseteq Cells /\ <<0, 2 - 0>> \in {<<i, 2 - i>> : i \in 0..2}
  <2>1. \A i \in 0..2 : 2 - i \in 0..2
    OBVIOUS
  <2> QED
    BY <2>1 DEF Cells
<1> QED
  BY <1>1, <1>2, <1>3 DEF Lines

(* A symbol on a free cell is one more of its kind, and lets only its own  *)
(* player win.                                                             *)
LEMMA Placed ==
  ASSUME NEW b \in Boards, NEW c \in Cells, b[c] = " ",
         NEW s \in {"X", "O"}, NEW t \in {"X", "O"} \ {s}
  PROVE  LET d == [b EXCEPT ![c] = s]
         IN /\ d \in Boards /\ d # b
            /\ Cardinality(Squares(d, s)) = Cardinality(Squares(b, s)) + 1
            /\ Squares(d, t) = Squares(b, t)
            /\ CheckWin(d, t) => CheckWin(b, t)
<1> DEFINE d == [b EXCEPT ![c] = s]
<1>1. d \in Boards /\ d[c] = s /\ \A x \in Cells \ {c} : d[x] = b[x]
  BY DEF Boards
<1>2. s # " " /\ s # t /\ t # " "
  OBVIOUS
<1> HIDE DEF d
<1>3. Squares(d, s) = Squares(b, s) \cup {c} /\ c \notin Squares(b, s)
  BY <1>1, <1>2 DEF Squares
<1>4. Cardinality(Squares(d, s)) = Cardinality(Squares(b, s)) + 1
  BY <1>3, FiniteBoard, FS_AddElement
<1>5. Squares(d, t) = Squares(b, t)
  BY <1>1, <1>2 DEF Squares
<1>6. ASSUME CheckWin(d, t) PROVE CheckWin(b, t)
  <2>1. PICK l \in Lines : \A x \in l : d[x] = t
    BY <1>6 DEF CheckWin
  <2>2. \A x \in l : b[x] = t
    BY <1>1, <1>2, <2>1, LinesInside
  <2> QED
    BY <2>2 DEF CheckWin
<1> QED
  BY <1>1, <1>2, <1>4, <1>5, <1>6 DEF d

(* A new board has nothing on it and is won by nobody.                     *)
LEMMA NewBoard ==
  /\ EmptyBoard \in Boards /\ ~IsBoardFull(EmptyBoard)
  /\ \A s \in {"X", "O"} : Squares(EmptyBoard, s) = {} /\ ~CheckWin(EmptyBoard, s)
<1>1. EmptyBoard \in Boards /\ \A c \in Cells : EmptyBoard[c] = " "
  BY DEF EmptyBoard, Boards
<1>2. <<0, 0>> \in Cells
  BY DEF Cells
<1>3. \A l \in Lines : \E c \in l : c \in Cells
  BY LinesInside
<1> QED
  BY <1>1, <1>2, <1>3 DEF IsBoardFull, CheckWin, Squares

(* A game begins as the rules say.                                         *)
LEMMA NewBoardLegal == board = EmptyBoard /\ current = 1 => BoardLegal
<1>1. Cardinality({}) = 0
  BY FS_EmptySet
<1>2. board = EmptyBoard => Count("X") = 0 /\ Count("O") = 0
  BY <1>1, NewBoard DEF Count, Squares
<1> QED
  BY <1>2, NewBoard DEF BoardLegal

(* The same of a game that a step begins.                                  *)
LEMMA FreshBoard == board' = EmptyBoard /\ current' = 1 => BoardLegal'
<1>1. Cardinality({}) = 0
  BY FS_EmptySet
<1>2. board' = EmptyBoard => Count("X")' = 0 /\ Count("O")' = 0
  BY <1>1, NewBoard DEF Count, Squares
<1> QED
  BY <1>2, NewBoard DEF BoardLegal

(* make_move() and the check for a win keep the board legal.               *)
LEMMA MoveLegal ==
  ASSUME TypeOK, BoardLegal, pc = "recv", NEW c, MoveOn(c)
  PROVE  /\ BoardLegal' /\ board' \in Boards /\ current' \in {1, 2} /\ pc' \in {"turn", "ask"}
<1> DEFINE s == Symbols[current]
           t == Symbols[3 - current]
<1>1. /\ board \in Boards /\ current \in {1, 2}
      /\ s \in {"X", "O"} /\ t \in {"X", "O"} \ {s}
      /\ current = 1 => s = "X" /\ t = "O"
      /\ current = 2 => s = "O" /\ t = "X"
  <2>1. board \in Boards /\ current \in {1, 2}
    BY DEF TypeOK, Boards
  <2>2. Symbols[1] = "X" /\ Symbols[2] = "O"
    BY DEF Symbols
  <2>3. CASE current = 1
    BY <2>1, <2>2, <2>3
  <2>4. CASE current = 2
    BY <2>1, <2>2, <2>4
  <2> QED
    BY <2>1, <2>3, <2>4
<1>2. /\ ~CheckWin(board, "X") /\ ~CheckWin(board, "O") /\ ~IsBoardFull(board)
      /\ Count("X") - Count("O") \in {0, 1} /\ (current = 1 <=> Count("X") = Count("O"))
  BY DEF BoardLegal
<1>3. CASE c \in Cells /\ board[c] = " "
  <2>1. /\ board' = [board EXCEPT ![c] = s]
        /\ pc' = IF board' # board /\ (CheckWin(board', s) \/ IsBoardFull(board'))
                 THEN "ask" ELSE "turn"
        /\ current' = IF board' = board \/ pc' = "ask" THEN current ELSE 3 - current
    BY <1>3 DEF MoveOn
  <2>2. /\ board' \in Boards /\ board' # board
        /\ Cardinality(Squares(board', s)) = Cardinality(Squares(board, s)) + 1
        /\ Squares(board', t) = Squares(board, t)
        /\ CheckWin(board', t) => CheckWin(board, t)
    BY <1>1, <1>3, <2>1, Placed
  <2>3. ~CheckWin(board', t)
    BY <1>1, <1>2, <2>2
  <2>4. /\ Cardinality(Squares(board, "X")) \in Nat /\ Cardinality(Squares(board, "O")) \in Nat
        /\ Count("X") = Cardinality(Squares(board, "X"))
        /\ Count("O") = Cardinality(Squares(board, "O"))
        /\ Count("X")' = Cardinality(Squares(board', "X"))
        /\ Count("O")' = Cardinality(Squares(board', "O"))
    BY <1>1, FiniteBoard DEF Count, Squares
  <2>5. CASE current = 1
    <3>1. Count("X")' = Count("X") + 1 /\ Count("O")' = Count("O") /\ Count("X") = Count("O")
          /\ Count("O") \in Nat
      BY <1>1, <1>2, <2>2, <2>4, <2>5
    <3> HIDE DEF s, t
    <3>2. pc' = "turn" => current' = 2
      BY <2>1, <2>2, <2>5
    <3>3. pc' = "turn" => ~CheckWin(board', s) /\ ~IsBoardFull(board')
      BY <2>1, <2>2
    <3>4. s = "X" /\ t = "O"
      BY <1>1, <2>5
    <3>5. pc' \in {"turn", "ask"} /\ current' \in {1, 2}
      BY <1>1, <2>1
    <3> QED
      BY <2>2, <2>3, <3>1, <3>2, <3>3, <3>4, <3>5 DEF BoardLegal
  <2>6. CASE current = 2
    <3>1. Count("O")' = Count("O") + 1 /\ Count("X")' = Count("X")
          /\ Count("X") = Count("O") + 1 /\ Count("O") \in Nat
      BY <1>1, <1>2, <2>2, <2>4, <2>6
    <3> HIDE DEF s, t
    <3>2. pc' = "turn" => current' = 1
      BY <2>1, <2>2, <2>6
    <3>3. pc' = "turn" => ~CheckWin(board', s) /\ ~IsBoardFull(board')
      BY <2>1, <2>2
    <3>4. s = "O" /\ t = "X"
      BY <1>1, <2>6
    <3>5. pc' \in {"turn", "ask"} /\ current' \in {1, 2}
      BY <1>1, <2>1
    <3> QED
      BY <2>2, <2>3, <3>1, <3>2, <3>3, <3>4, <3>5 DEF BoardLegal
  <2> QED
    BY <1>1, <2>5, <2>6
<1>4. CASE ~(c \in Cells /\ board[c] = " ")
  <2>1. board' = board /\ current' = current /\ pc' = "turn"
    BY <1>4 DEF MoveOn
  <2> QED
    BY <1>1, <1>2, <2>1 DEF BoardLegal, Count
<1> QED
  BY <1>3, <1>4

-----------------------------------------------------------------------------
(* The mail: what is under way after each step.                            *)

(* What is under way to a client after one or two sends.                   *)
LEMMA Appended ==
  ASSUME NEW x \in Kinds
  PROVE  /\ Append(<<>>, x) = <<x>> /\ <<x>> # <<>>
         /\ \A y \in Kinds : Append(<<y>>, x) = <<y, x>> /\ <<y, x>> # <<>>
<1>1. Append(<<>>, x) = <<x>>
  OBVIOUS
<1>2. <<x>> # <<>>
  OBVIOUS
<1>3. ASSUME NEW y \in Kinds PROVE Append(<<y>>, x) = <<y, x>>
  <2>1. <<y>> \in Seq(Kinds) /\ Len(<<y>>) = 1 /\ <<y>>[1] = y
    OBVIOUS
  <2>2. <<y, x>> \in Seq(Kinds) /\ Len(<<y, x>>) = 2 /\ <<y, x>>[1] = y /\ <<y, x>>[2] = x
    OBVIOUS
  <2>3. /\ Append(<<y>>, x) \in Seq(Kinds) /\ Len(Append(<<y>>, x)) = 2
        /\ Append(<<y>>, x)[1] = y /\ Append(<<y>>, x)[2] = x
    BY <2>1, AppendProperties
  <2> DEFINE p == Append(<<y>>, x)
             q == <<y, x>>
  <2> HIDE DEF p, q
  <2>4. p \in Seq(Kinds) /\ q \in Seq(Kinds) /\ Len(p) = 2 /\ Len(q) = 2
        /\ \A i \in 1..2 : p[i] = q[i]
    BY <2>2, <2>3 DEF p, q
  <2>5. p = q
    BY <2>4, SeqEqual
  <2> QED
    BY <2>5 DEF p, q
<1>4. ASSUME NEW y \in Kinds PROVE <<y, x>> # <<>>
  OBVIOUS
<1> QED
  BY <1>1, <1>2, <1>3, <1>4

(* Who is a player after one more has joined.                              *)
LEMMA RangeAppend ==
  ASSUME NEW q \in Seq(Clients), NEW x \in Clients
  PROVE  Range(Append(q, x)) = Range(q) \cup {x} /\ Range(<<>>) = {}
<1>1. /\ Append(q, x) \in Seq(Clients) /\ Len(Append(q, x)) = Len(q) + 1
      /\ \A i \in 1..Len(q) : Append(q, x)[i] = q[i]
      /\ Append(q, x)[Len(q) + 1] = x
  BY AppendProperties
<1>2. DOMAIN q = 1..Len(q) /\ DOMAIN Append(q, x) = 1..(Len(q) + 1) /\ Len(q) \in Nat
  BY <1>1, LenProperties
<1>3. 1..(Len(q) + 1) = (1..Len(q)) \cup {Len(q) + 1}
  BY <1>2
<1>4. Range(q) = {q[i] : i \in 1..Len(q)}
  BY <1>2 DEF Range
<1>5. Range(Append(q, x)) = {Append(q, x)[i] : i \in 1..(Len(q) + 1)}
  BY <1>2 DEF Range
<1>6. Range(<<>>) = {}
  BY DEF Range
<1> QED
  BY <1>1, <1>3, <1>4, <1>5, <1>6

(* Once the game has begun, the players are the two that have come.        *)
LEMMA BothPlay ==
  ASSUME TwoCame, TypeOK, OutsideOK, MailInv, Playing
  PROVE  /\ player \in Seq(Clients) /\ Len(player) = 2
         /\ player[1] \in Clients /\ player[2] \in Clients /\ player[1] # player[2]
         /\ Range(player) = {player[1], player[2]}
         /\ \A c \in Clients : c \in {player[1], player[2]} <=> cl[c] # "out"
         /\ player[current] \in Clients /\ games >= 1
         /\ BothCame
<1>1. player \in Seq(Clients) /\ Len(player) = 2 /\ player[1] # player[2] /\ games >= 1
  BY DEF TypeOK, MailInv, PlayersOK, Playing
<1>2. player[1] \in Clients /\ player[2] \in Clients /\ DOMAIN player = {1, 2}
  <2>1. DOMAIN player = 1..2 /\ 1 \in 1..2 /\ 2 \in 1..2
    BY <1>1, LenProperties
  <2> QED
    BY <1>1, <2>1, ElementOfSeq
<1>3. Range(player) = {player[1], player[2]}
  BY <1>2 DEF Range
<1>4. \A c \in Clients : c \in {player[1], player[2]} <=> cl[c] # "out"
  BY <1>1, <1>2, <1>3 DEF TwoCame, OutsideOK
<1>5. player[current] \in Clients
  BY <1>2 DEF TypeOK
<1>6. BothCame
  BY <1>1, <1>2, <1>4 DEF BothCame
<1> QED
  BY <1>1, <1>2, <1>3, <1>4, <1>5, <1>6

(* Only a JOIN is accepted, and only while there are places.               *)
LEMMA JoinedIs ==
  ASSUME TwoCame, TypeOK, OutsideOK, MailInv, Joined
  PROVE  /\ Joining /\ current = 1 /\ OneEach
         /\ player \in Seq(Clients) /\ Len(player) \in {0, 1}
         /\ UNCHANGED <<transport, current, answers, inbox, cl, lost>>
         /\ \E n \in DOMAIN toServer :
              /\ toServer' = RemoveAt(toServer, n)
              /\ toServer[n][1] \in Clients \ Range(player)
              /\ player' = Append(player, toServer[n][1])
         /\ IF Len(player) = 1
            THEN pc' = "turn" /\ board' = EmptyBoard /\ games' = 1
            ELSE pc' = "join" /\ UNCHANGED <<board, games>>
<1>1. PICK n \in DOMAIN toServer :
        /\ toServer' = RemoveAt(toServer, n)
        /\ IF toServer[n][2] = Join
           THEN /\ player' = Append(player, toServer[n][1])
                /\ IF Len(player') = 2
                   THEN pc' = "turn" /\ board' = EmptyBoard /\ games' = games + 1
                   ELSE UNCHANGED <<pc, board, games>>
           ELSE UNCHANGED <<player, pc, board, games>>
  BY DEF Joined
<1>2. pc = "join" /\ UNCHANGED <<transport, current, answers, inbox, cl, lost>>
  BY DEF Joined
<1>3. toServer # <<>> /\ toServer \in Seq(Clients \X Payload)
  BY <1>1 DEF MailInv, MailType
<1>4. Joining /\ current = 1 /\ OneEach
  BY <1>2, <1>3 DEF MailInv, LinesOK, PlayersOK
<1>5. player \in Seq(Clients) /\ Len(player) \in {0, 1}
  <2>1. player \in Seq(Clients) /\ Len(player) <= 1
    BY <1>2, <1>4 DEF TypeOK, MailInv, PlayersOK, Joining
  <2>2. Len(player) \in Nat
    BY <2>1, LenProperties
  <2>3. ASSUME NEW i \in Nat, i <= 1 PROVE i \in {0, 1}
    BY <2>3
  <2> QED
    BY <2>1, <2>2, <2>3
<1>6. toServer[n][2] = Join /\ toServer[n][1] \in Clients \ Range(player)
  <2>1. toServer[n] \in Clients \X Payload
    BY <1>1, <1>3, ElementOfSeq
  <2> QED
    BY <1>1, <1>2, <1>4, <2>1 DEF MailInv, LinesOK
<1>7. player' = Append(player, toServer[n][1]) /\ Len(player') = Len(player) + 1
  BY <1>1, <1>5, <1>6, AppendProperties
<1>8. games = 0
  BY <1>4 DEF Joining
<1> QED
  BY <1>1, <1>2, <1>4, <1>5, <1>6, <1>7, <1>8

(* accept() or a JOIN.                                                     *)
LEMMA MailJoined ==
  ASSUME TwoCame, TypeOK, OutsideOK, MailInv, Joined
  PROVE  MailInv'
<1>1. /\ Joining /\ current = 1 /\ OneEach
      /\ player \in Seq(Clients) /\ Len(player) \in {0, 1}
      /\ UNCHANGED <<transport, current, answers, inbox, cl, lost>>
      /\ IF Len(player) = 1
         THEN pc' = "turn" /\ board' = EmptyBoard /\ games' = 1
         ELSE pc' = "join" /\ UNCHANGED <<board, games>>
  BY JoinedIs
<1>2. PICK n \in DOMAIN toServer :
        /\ toServer' = RemoveAt(toServer, n)
        /\ toServer[n][1] \in Clients \ Range(player)
        /\ player' = Append(player, toServer[n][1])
  BY JoinedIs
<1> DEFINE x == toServer[n][1]
<1>3. /\ toServer' \in Seq(Clients \X Payload) /\ OneEach'
      /\ \A c \in Clients : Heard(c)' <=> Heard(c) /\ c # x
      /\ \A k \in DOMAIN toServer' : \E m \in DOMAIN toServer : toServer'[k] = toServer[m]
  BY <1>1, <1>2, LineTaken DEF MailInv
<1>4. /\ Range(player') = Range(player) \cup {x} /\ Len(player') = Len(player) + 1
      /\ player' \in Seq(Clients)
  BY <1>1, <1>2, RangeAppend, AppendProperties
<1>5. x \in Clients \ Range(player) /\ Heard(x)
  BY <1>2 DEF Heard
<1>6. /\ pc = "join" /\ games = 0 /\ PlayersOK /\ LinesOK /\ PromptsOK /\ MailType
      /\ \A c \in Clients : Heard(c) => c \notin Range(player)
  BY <1>1 DEF Joining, MailInv, LinesOK, Heard
<1> HIDE DEF x
<1>7. \A c \in Clients : inbox'[c] = <<>>
  BY <1>1, <1>6 DEF PromptsOK
<1>8. MailType'
  BY <1>1, <1>3, <1>6 DEF MailType
<1>9. CASE Len(player) = 0
  <2>1. pc' = "join" /\ games' = 0 /\ player = <<>> /\ Joining' /\ Len(player') = 1
    BY <1>1, <1>4, <1>6, <1>9 DEF Joining
  <2>2. \A k \in DOMAIN toServer' : toServer'[k][2] = Join /\ toServer'[k][1] \notin Range(player')
    <3> SUFFICES ASSUME NEW k \in DOMAIN toServer'
                 PROVE  toServer'[k][2] = Join /\ toServer'[k][1] \notin Range(player')
      OBVIOUS
    <3>1. PICK m \in DOMAIN toServer : toServer'[k] = toServer[m]
      BY <1>3
    <3>2. toServer[m][2] = Join /\ toServer[m][1] \notin Range(player)
      BY <1>1, <1>6 DEF LinesOK
    <3>3. PICK y \in Clients : y = toServer'[k][1]
      BY <1>3, ElementOfSeq, LenProperties
    <3>4. Heard(y)'
      BY <3>3 DEF Heard
    <3> QED
      BY <1>3, <1>4, <3>1, <3>2, <3>3, <3>4
  <2>3. PlayersOK'
    BY <1>1, <1>3, <1>4, <1>5, <2>1 DEF PlayersOK, Playing, BothCame
  <2>4. LinesOK'
    BY <2>1, <2>2 DEF LinesOK
  <2>5. PromptsOK'
    BY <1>7, <2>1 DEF PromptsOK, Quiet
  <2> QED
    BY <1>3, <1>8, <2>1, <2>3, <2>4, <2>5 DEF MailInv, AnswersOK
<1>10. CASE Len(player) = 1
  <2>1. pc' = "turn" /\ games' = 1 /\ ~Joining' /\ Len(player') = 2
    BY <1>1, <1>4, <1>10 DEF Joining
  <2>2. player[1] \in Range(player) /\ player[1] \in Clients /\ player'[1] = player[1]
        /\ player'[2] = x
    <3>1. x \in Clients /\ player' = Append(player, x)
      BY <1>2, <1>5 DEF x
    <3>2. \A k \in 1..Len(player) : player'[k] = player[k]
      BY <1>1, <3>1, AppendProperties
    <3>3. player'[Len(player) + 1] = x
      BY <1>1, <3>1, AppendProperties
    <3>4. DOMAIN player = 1..1 /\ 1 \in 1..1
      BY <1>1, <1>10, LenProperties
    <3>5. player[1] \in Range(player) /\ player[1] \in Clients
      BY <1>1, <3>4, ElementOfSeq, <1>10 DEF Range
    <3> QED
      BY <1>10, <3>2, <3>3, <3>5
  <2>3. /\ \A c \in Clients : c \in {player[1], x} \/ cl[c] = "out"
        /\ player[1] # x /\ cl[player[1]] # "out" /\ cl[x] # "out"
    <3>1. player[1] # x /\ cl[player[1]] # "out" /\ cl[x] # "out"
      BY <1>5, <2>2 DEF OutsideOK
    <3> QED
      BY <1>5, <2>2, <3>1 DEF TwoCame
  <2>4. \A c \in Clients : ~Heard(c)'
    BY <1>3, <1>6, <2>2, <2>3 DEF OutsideOK
  <2>5. toServer' = <<>>
    BY <1>3, <2>4, NoLines DEF Heard
  <2>6. PlayersOK'
    <3>1. BothCame
      BY <1>5, <2>2, <2>3 DEF BothCame
    <3> QED
      BY <1>1, <1>5, <2>1, <2>2, <3>1 DEF PlayersOK, Playing, BothCame
  <2>7. LinesOK'
    BY <2>1, <2>5 DEF LinesOK
  <2>8. PromptsOK'
    BY <1>7, <2>1 DEF PromptsOK, Quiet
  <2> QED
    BY <1>3, <1>8, <2>1, <2>6, <2>7, <2>8 DEF MailInv, AnswersOK
<1> QED
  BY <1>1, <1>9, <1>10

(* Where no line is under way, the server has all it has asked for.        *)
LEMMA NoneHeard ==
  ASSUME MailType
  PROVE  toServer = <<>> <=> \A c \in Clients : ~Heard(c)
  BY NoLines DEF MailType, Heard

(* The prompt goes to the current player only.                             *)
LEMMA MailSendTurn ==
  ASSUME TwoCame, TypeOK, OutsideOK, MailInv, SendTurn
  PROVE  MailInv'
<1> DEFINE p == player[current]
<1>1. pc = "turn" /\ pc' = "recv" /\ UNCHANGED <<player, current, games, toServer, cl, lost>>
      /\ inbox' = IF Gone(p) THEN inbox ELSE [inbox EXCEPT ![p] = Append(@, "turn")]
  BY DEF SendTurn
<1>2. Playing /\ Playing'
  BY <1>1 DEF Playing
<1>3. p \in Clients /\ games >= 1 /\ player[1] # player[2] /\ BothCame
  BY <1>2, BothPlay
<1>4. MailType /\ OneEach /\ LinesOK /\ PromptsOK /\ toServer = <<>>
  BY <1>1 DEF MailInv, LinesOK
<1> HIDE DEF p
<1>5. \A c \in Clients : inbox[c] \in Quiet
  BY <1>1, <1>4 DEF PromptsOK
<1>6. Append(inbox[p], "turn") \in {<<"turn">>, <<"agreed", "turn">>}
  BY <1>3, <1>5, Appended DEF Quiet, Kinds
<1>7. \A q \in {<<"turn">>, <<"agreed", "turn">>} : q \in Seq(Kinds)
  <2>1. "turn" \in Kinds /\ "agreed" \in Kinds
    BY DEF Kinds
  <2>2. <<"turn">> \in Seq(Kinds)
    BY <2>1
  <2>3. <<"agreed", "turn">> \in Seq(Kinds)
    BY <2>1
  <2> QED
    BY <2>2, <2>3
<1>8. \A c \in Clients : inbox'[c] = IF c = p /\ ~Gone(p) THEN Append(inbox[p], "turn")
                                                        ELSE inbox[c]
  BY <1>1, <1>4 DEF MailType
<1>9. MailType'
  BY <1>1, <1>3, <1>4, <1>6, <1>7 DEF MailType
<1>10. PlayersOK'
  BY <1>1, <1>3 DEF PlayersOK, Playing, BothCame
<1>11. LinesOK' /\ OneEach' /\ AnswersOK'
  <2>1. \A c \in Clients : ~Heard(c)'
    BY <1>1, <1>4, NoneHeard DEF Heard
  <2> QED
    BY <1>1, <1>4, <2>1 DEF LinesOK, Joining, OneEach, AnswersOK
<1>12. PromptsOK'
  BY <1>1, <1>4, <1>5, <1>6, <1>8 DEF PromptsOK, Joining, Gone, p
<1> QED
  BY <1>9, <1>10, <1>11, <1>12 DEF MailInv

(* The line of the current player is read, and nothing is under way.       *)
LEMMA MailRecvMove ==
  ASSUME TwoCame, TypeOK, OutsideOK, MailInv, RecvMove, pc' \in {"turn", "ask"}
  PROVE  MailInv'
<1>1. PICK n \in DOMAIN toServer : toServer' = RemoveAt(toServer, n)
  BY DEF RecvMove
<1>2. pc = "recv" /\ UNCHANGED <<player, games, inbox, cl, lost>>
  BY DEF RecvMove
<1>3. Playing /\ Playing' /\ pc' \notin {"join", "recv", "again", "end"}
  BY <1>2 DEF Playing
<1>4. games >= 1 /\ player[1] # player[2] /\ BothCame
  BY <1>3, BothPlay
<1>5. MailType /\ OneEach /\ LinesOK /\ PromptsOK
  BY <1>2 DEF MailInv
<1>6. /\ toServer' \in Seq(Clients \X Payload) /\ OneEach'
      /\ \A c \in Clients : Heard(c)' <=> Heard(c) /\ c # toServer[n][1]
  BY <1>1, <1>5, LineTaken
<1>7. toServer[n][1] \in Clients /\ Heard(toServer[n][1])
  BY <1>1, <1>5, ElementOfSeq, LenProperties DEF MailType, Heard
<1>8. \A c \in Clients : Heard(c) => c = player[current] /\ inbox[c] \in Quiet
  BY <1>2, <1>5 DEF LinesOK
<1>9. \A c \in Clients : ~Heard(c)' /\ inbox[c] \in Quiet
  BY <1>2, <1>5, <1>6, <1>7, <1>8 DEF PromptsOK
<1>10. MailType'
  BY <1>2, <1>5, <1>6 DEF MailType
<1>11. toServer' = <<>>
  BY <1>6, <1>9, NoLines DEF Heard
<1>12. PlayersOK'
  BY <1>2, <1>3, <1>4 DEF PlayersOK, Playing, BothCame
<1>13. LinesOK' /\ AnswersOK'
  BY <1>3, <1>11 DEF LinesOK, AnswersOK, Joining
<1>14. PromptsOK'
  BY <1>2, <1>3, <1>5, <1>9 DEF PromptsOK, Joining, Gone
<1> QED
  BY <1>6, <1>10, <1>12, <1>13, <1>14 DEF MailInv

(* The current player has hung up: nothing of it is under way.             *)
LEMMA MailDisconnected ==
  ASSUME TwoCame, TypeOK, OutsideOK, MailInv, Disconnected
  PROVE  MailInv'
<1> DEFINE p == player[current]
<1>1. pc = "recv" /\ HungUp(p) /\ pc' = "ask"
      /\ UNCHANGED <<current, player, games, toServer, inbox, cl, lost>>
  BY DEF Disconnected
<1>2. Playing /\ Playing'
  BY <1>1 DEF Playing
<1>3. p \in Clients /\ games >= 1 /\ player[1] # player[2] /\ BothCame
  BY <1>2, BothPlay
<1>4. MailType /\ OneEach /\ LinesOK /\ PromptsOK
  BY <1>1 DEF MailInv
<1>5. ~Heard(p) /\ Gone(p)
  BY <1>1 DEF HungUp, Heard
<1>6. \A c \in Clients : ~Heard(c)
  BY <1>1, <1>4, <1>5 DEF LinesOK
<1>7. toServer = <<>>
  BY <1>4, <1>6, NoneHeard
<1> HIDE DEF p
<1>8. \A c \in Clients : inbox[c] \in Quiet
  BY <1>1, <1>4, <1>5 DEF PromptsOK, Quiet, p
<1>9. PlayersOK'
  BY <1>1, <1>3 DEF PlayersOK, Playing, BothCame
<1>10. MailType' /\ LinesOK' /\ OneEach' /\ AnswersOK'
  BY <1>1, <1>4, <1>7 DEF MailType, LinesOK, Joining, OneEach, AnswersOK
<1>11. PromptsOK'
  BY <1>1, <1>4, <1>8 DEF PromptsOK, Joining, Gone
<1> QED
  BY <1>9, <1>10, <1>11 DEF MailInv

(* Who has come and has not left is sent the message, since both play.     *)
LEMMA ToBothIs ==
  ASSUME TwoCame, TypeOK, OutsideOK, MailInv, Playing, NEW m \in Kinds, ToBoth(m)
  PROVE  /\ inbox' \in [Clients -> Seq(Kinds)]
         /\ \A c \in Clients : inbox'[c] = IF Gone(c) \/ cl[c] = "out" THEN inbox[c] ELSE Append(inbox[c], m)
<1>1. \A c \in Clients : c \in Range(player) <=> cl[c] # "out"
  BY BothPlay
<1>2. \A c \in Clients : inbox[c] \in Seq(Kinds) /\ Append(inbox[c], m) \in Seq(Kinds)
  BY AppendProperties DEF MailInv, MailType
<1> QED
  BY <1>1, <1>2 DEF ToBoth

(* The question goes to both.                                              *)
LEMMA MailAsk ==
  ASSUME TwoCame, TypeOK, OutsideOK, MailInv, Ask
  PROVE  MailInv'
<1>1. pc = "ask" /\ pc' = "again" /\ ToBoth("again") /\ answers' = <<>>
      /\ UNCHANGED <<player, games, toServer, cl, lost>>
  BY DEF Ask
<1>2. Playing /\ Playing'
  BY <1>1 DEF Playing
<1>3. games >= 1 /\ player[1] # player[2] /\ BothCame
  BY <1>2, BothPlay
<1>4. MailType /\ OneEach /\ LinesOK /\ PromptsOK /\ toServer = <<>>
  BY <1>1 DEF MailInv, LinesOK
<1>5. /\ inbox' \in [Clients -> Seq(Kinds)]
      /\ \A c \in Clients : inbox'[c] = IF Gone(c) \/ cl[c] = "out" THEN inbox[c] ELSE Append(inbox[c], "again")
  BY <1>1, <1>2, ToBothIs DEF Kinds
<1>6. \A c \in Clients : /\ Append(inbox[c], "again") \in {<<"again">>, <<"agreed", "again">>}
                         /\ Gone(c) \/ cl[c] = "out" => inbox[c] = <<>>
  BY <1>1, <1>4, Appended DEF PromptsOK, Quiet, Kinds, OutsideOK
<1>7. PlayersOK'
  BY <1>1, <1>3 DEF PlayersOK, Playing, BothCame
<1>8. MailType' /\ OneEach' /\ AnswersOK'
  BY <1>1, <1>4, <1>5 DEF MailType, OneEach, AnswersOK
<1>9. LinesOK'
  <2>1. \A c \in Clients : ~Heard(c)'
    BY <1>1, <1>4, NoneHeard DEF Heard
  <2> QED
    BY <1>1, <2>1 DEF LinesOK, Joining
<1>10. PromptsOK'
  BY <1>1, <1>5, <1>6 DEF PromptsOK, Joining, Gone
<1> QED
  BY <1>7, <1>8, <1>9, <1>10 DEF MailInv

(* The places there are for players and for answers.                       *)
LEMMA Places ==
  ASSUME NEW k \in {0, 1}
  PROVE  /\ k + 1 = 2 => k = 1
         /\ \A i \in 1..k : i = 1
         /\ \A i \in 1..(k + 1) : i \in {1, 2} /\ (i \in 1..k \/ i = k + 1)
<1>1. CASE k = 0
  BY <1>1
<1>2. CASE k = 1
  BY <1>2
<1> QED
  BY <1>1, <1>2

(* One answer is read: its client has nothing under way any more.          *)
LEMMA MailRecvAgain ==
  ASSUME TwoCame, TypeOK, OutsideOK, MailInv, RecvAgain
  PROVE  MailInv'
<1> DEFINE p == player[Len(answers) + 1]
<1>1. pc = "again" /\ Len(answers) < 2
      /\ UNCHANGED <<transport, pc, board, current, player, games, inbox, cl, lost>>
  BY DEF RecvAgain
<1>2. Playing
  BY <1>1 DEF Playing
<1>3. /\ player[1] # player[2] /\ player[1] \in Clients /\ player[2] \in Clients
      /\ \A c \in Clients : c \notin {player[1], player[2]} => Spent(c)
  BY <1>2, BothPlay DEF OutsideOK, Spent
<1>4. MailType /\ PlayersOK /\ OneEach /\ LinesOK /\ PromptsOK /\ AnswersOK
  BY <1>1 DEF MailInv
<1>5. answers \in Seq(BOOLEAN) /\ Len(answers) \in {0, 1}
  <2>1. answers \in Seq(BOOLEAN) /\ Len(answers) \in Nat
    BY LenProperties DEF TypeOK
  <2>2. Len(answers) < 2
    BY <1>1
  <2>3. \A k \in Nat : k < 2 => k \in {0, 1}
    OBVIOUS
  <2> QED
    BY <2>1, <2>2, <2>3
<1>6. Len(answers) + 1 \in {1, 2} /\ p \in Clients
  <2>1. CASE Len(answers) = 0
    BY <1>3, <2>1
  <2>2. CASE Len(answers) = 1
    BY <1>3, <2>2
  <2> QED
    BY <1>5, <2>1, <2>2
<1>7. CASE \E n \in DOMAIN toServer :
             /\ CanRead(p, n) /\ toServer' = RemoveAt(toServer, n)
             /\ answers' = Append(answers, toServer[n][2] = Yes)
  <2>1. PICK n \in DOMAIN toServer :
             /\ CanRead(p, n) /\ toServer' = RemoveAt(toServer, n)
             /\ answers' = Append(answers, toServer[n][2] = Yes)
    BY <1>7
  <2>0. PICK x \in Clients : x = toServer[n][1]
    BY <1>4, <2>1, ElementOfSeq, LenProperties DEF MailType
  <2>2. /\ toServer' \in Seq(Clients \X Payload) /\ OneEach'
        /\ \A c \in Clients : Heard(c)' <=> Heard(c) /\ c # x
    BY <1>4, <2>0, <2>1, LineTaken
  <2>3. Heard(x)
    BY <2>0, <2>1 DEF Heard
  <2>4. Tcp => x = p
    BY <2>0, <2>1 DEF CanRead
  <2>5. Len(answers') = Len(answers) + 1
    BY <1>5, <2>1, AppendProperties
  <2> HIDE DEF p
  <2>6. inbox[x] = <<>> /\ Spent(x)'
    BY <1>1, <1>4, <2>2, <2>3 DEF LinesOK, Spent
  <2>7. \A c \in Clients : Spent(c) => Spent(c)' /\ c # x
    BY <1>1, <2>2, <2>3 DEF Spent
  <2>8. AnswersOK'
    <3>1. \E c \in {player[1], player[2]} : Spent(c)'
      BY <1>3, <2>3, <2>6 DEF Spent
    <3>2. Len(answers') = 2 => \A c \in Clients : Spent(c)'
      <4>1. SUFFICES ASSUME Len(answers) = 1, NEW c \in Clients PROVE Spent(c)'
        BY <1>5, <2>5, Places
      <4>2. PICK d \in {player[1], player[2]} : Spent(d)
        BY <1>1, <1>4, <4>1 DEF AnswersOK
      <4>3. d # x /\ Spent(d)'
        BY <1>3, <2>7, <4>2
      <4>4. c \in {d, x} \/ Spent(c)
        BY <1>3, <2>3, <4>3 DEF Spent
      <4> QED
        BY <2>6, <2>7, <4>3, <4>4
    <3>3. ASSUME Tcp', NEW i \in 1..Len(answers') PROVE Spent(player[i])'
      <4>1. Tcp
        BY <1>1, <3>3 DEF Tcp
      <4>2. CASE i \in 1..Len(answers)
        <5>1. i = 1
          BY <1>5, <4>2, Places
        <5> QED
          BY <1>1, <1>3, <1>4, <2>7, <4>1, <4>2, <5>1 DEF AnswersOK
      <4>3. CASE i = Len(answers) + 1
        BY <1>1, <2>4, <2>6, <4>1, <4>3 DEF p
      <4> QED
        BY <1>5, <2>5, <3>3, <4>2, <4>3, Places
    <3> QED
      BY <1>1, <3>1, <3>2, <3>3 DEF AnswersOK
  <2>9. LinesOK'
    BY <1>1, <1>4, <2>2 DEF LinesOK, Joining
  <2>10. PlayersOK'
    BY <1>1, <1>4, <2>2 DEF PlayersOK, Joining, Playing, BothCame
  <2>11. MailType' /\ PromptsOK'
    BY <1>1, <1>4, <2>2 DEF MailType, PromptsOK, Joining, Gone
  <2> QED
    BY <2>2, <2>8, <2>9, <2>10, <2>11 DEF MailInv
<1>8. CASE HungUp(p) /\ answers' = Append(answers, FALSE) /\ UNCHANGED toServer
  <2>1. Tcp /\ Spent(p) /\ Gone(p)
    BY <1>4, <1>6, <1>8 DEF HungUp, Spent, Heard, PromptsOK
  <2>2. Len(answers') = Len(answers) + 1
    BY <1>5, <1>8, AppendProperties
  <2>3. \A c \in Clients : Spent(c)' <=> Spent(c)
    BY <1>1, <1>8 DEF Spent, Heard
  <2>4. \A i \in 1..Len(answers') : Spent(player[i])
    <3>1. \A i \in 1..Len(answers) : Spent(player[i])
      BY <1>1, <1>4, <2>1 DEF AnswersOK
    <3> QED
      BY <1>5, <2>1, <2>2, <3>1
  <2>5. AnswersOK'
    <3>1. 1 \in 1..Len(answers')
      BY <1>5, <2>2
    <3>2. Len(answers') = 2 => Spent(player[1]) /\ Spent(player[2])
      BY <2>4
    <3>3. 1..Len(answers') \subseteq {1, 2}
      BY <1>5, <2>2, Places
    <3> QED
      BY <1>1, <1>3, <2>3, <2>4, <3>1, <3>2, <3>3 DEF AnswersOK
  <2>6. MailType' /\ OneEach' /\ PlayersOK' /\ LinesOK' /\ PromptsOK'
    BY <1>1, <1>4, <1>8
       DEF MailType, OneEach, PlayersOK, LinesOK, PromptsOK, Joining, Playing, Heard, Gone, BothCame
  <2> QED
    BY <2>5, <2>6 DEF MailInv
<1> QED
  BY <1>7, <1>8 DEF RecvAgain

(* Another game begins, or the server waits for JOINs.                     *)
LEMMA MailAgreed ==
  ASSUME TwoCame, TypeOK, OutsideOK, MailInv, Agreed
  PROVE  MailInv'
<1>1. pc = "again" /\ answers = <<TRUE, TRUE>> /\ ToBoth("agreed") /\ current' = 1
      /\ UNCHANGED <<transport, answers, toServer, cl, lost>>
      /\ IF Tcp THEN pc' = "turn" /\ board' = EmptyBoard /\ games' = games + 1 /\ UNCHANGED player
                ELSE pc' = "join" /\ player' = <<>> /\ UNCHANGED <<board, games>>
  BY DEF Agreed
<1>2. Playing
  BY <1>1 DEF Playing
<1>3. games >= 1 /\ player[1] # player[2] /\ BothCame
  BY <1>2, BothPlay
<1>4. MailType /\ OneEach /\ LinesOK /\ PromptsOK /\ AnswersOK
  BY <1>1 DEF MailInv
<1>5. \A c \in Clients : Spent(c)
  BY <1>1, <1>4 DEF AnswersOK
<1>6. toServer = <<>>
  BY <1>4, <1>5, NoneHeard DEF Spent
<1>7. /\ inbox' \in [Clients -> Seq(Kinds)]
      /\ \A c \in Clients : inbox'[c] = IF Gone(c) \/ cl[c] = "out" THEN inbox[c] ELSE Append(inbox[c], "agreed")
  BY <1>1, <1>2, ToBothIs DEF Kinds
<1>8. \A c \in Clients : inbox'[c] = IF Gone(c) \/ cl[c] = "out" THEN <<>> ELSE <<"agreed">>
  BY <1>5, <1>7, Appended DEF Spent, Kinds
<1>9. pc' \in {"turn", "join"} /\ games' >= 1 /\ games' \in Nat /\ ~Joining'
  BY <1>1, <1>3, <1>4 DEF MailType, Joining
<1>10. MailType' /\ OneEach' /\ LinesOK' /\ AnswersOK'
  BY <1>1, <1>4, <1>6, <1>7, <1>9 DEF MailType, OneEach, LinesOK, AnswersOK
<1>11. PlayersOK'
  BY <1>1, <1>3, <1>9 DEF PlayersOK, Playing, BothCame, Joining
<1>12. PromptsOK'
  BY <1>1, <1>8, <1>9 DEF PromptsOK, Gone, Quiet
<1> QED
  BY <1>10, <1>11, <1>12 DEF MailInv

(* The server ends or is killed.                                           *)
LEMMA MailEnds ==
  ASSUME TwoCame, TypeOK, OutsideOK, MailInv, Ended \/ ServerKilled
  PROVE  MailInv'
<1>1. Playing /\ pc' = "end" /\ UNCHANGED <<player, games, toServer, cl, lost>>
  BY DEF Ended, ServerKilled, Playing
<1>2. games >= 1 /\ BothCame
  BY <1>1, BothPlay
<1>3. inbox' \in [Clients -> Seq(Kinds)]
  <2>1. \A c \in Clients : inbox[c] \in Seq(Kinds) /\ Append(inbox[c], "end") \in Seq(Kinds)
    BY AppendProperties DEF MailInv, MailType, Kinds
  <2> QED
    BY <2>1 DEF Ended, ServerKilled, MailInv, MailType
<1>4. MailType'
  BY <1>1, <1>3 DEF MailInv, MailType
<1>5. PlayersOK'
  BY <1>1, <1>2 DEF PlayersOK, Playing, BothCame
<1> QED
  BY <1>1, <1>4, <1>5 DEF MailInv

-----------------------------------------------------------------------------
(* The clients' steps, and a loss.                                         *)

(* What a client sends is a message.                                       *)
LEMMA PayloadIs ==
  /\ Join \in Payload /\ Bad \in Payload /\ Yes \in Payload
  /\ \A c \in Clients : Moves[c] \subseteq Payload
<1>1. ASSUME NEW c \in Clients PROVE Moves[c] \subseteq Moved
  BY DEF Moved
<1>2. Moved \subseteq Payload /\ Join \in Payload /\ Bad \in Payload /\ Yes \in Payload
  BY Zenon DEF Payload
<1> QED
  BY <1>1, <1>2

(* connect(), or a JOIN is sent.                                           *)
LEMMA MailJoinGame ==
  ASSUME TypeOK, OutsideOK, MailInv, NEW c \in Clients, JoinGame(c), TwoCame'
  PROVE  MailInv'
<1>1. /\ cl[c] = "out" /\ pc # "end" /\ cl' = [cl EXCEPT ![c] = "recv"] /\ Sends(c, Join)
      /\ UNCHANGED <<transport, pc, board, current, player, answers, games, inbox, lost>>
  BY DEF JoinGame, serverVars
<1>2. Joining /\ Joining' /\ pc = "join" /\ ~Heard(c) /\ c \notin Range(player)
  <2>1. ~Heard(c) /\ c \notin Range(player)
    BY <1>1 DEF OutsideOK
  <2>2. ASSUME BothCame PROVE FALSE
    <3>1. PICK a, b \in Clients : a # b /\ cl[a] # "out" /\ cl[b] # "out"
      BY <2>2 DEF BothCame
    <3>2. cl'[a] # "out" /\ cl'[b] # "out" /\ cl'[c] # "out" /\ c \notin {a, b}
      BY <1>1, <3>1 DEF TypeOK
    <3> QED
      BY <3>1, <3>2 DEF TwoCame
  <2>3. games = 0 /\ pc = "join"
    <3>1. games \in Nat
      BY DEF MailInv, MailType
    <3> QED
      BY <2>2, <3>1 DEF MailInv, PlayersOK
  <2> QED
    BY <1>1, <2>1, <2>3 DEF Joining
<1>3. MailType /\ PlayersOK /\ OneEach /\ LinesOK /\ PromptsOK
  BY <1>1 DEF MailInv
<1>4. /\ toServer' \in Seq(Clients \X Payload) /\ OneEach'
      /\ \A d \in Clients : Heard(d)' <=> Heard(d) \/ d = c
      /\ \A k \in DOMAIN toServer' : \/ toServer'[k] = <<c, Join>>
                                     \/ k \in DOMAIN toServer /\ toServer'[k] = toServer[k]
  <2>1. Join \in Payload
    BY PayloadIs
  <2> QED
    BY <1>1, <1>2, <1>3, <2>1, LineSent
<1>5. MailType'
  BY <1>1, <1>3, <1>4 DEF MailType
<1>6. cl \in [Clients -> {"out", "recv", "answer", "done"}]
  BY DEF TypeOK
<1>7. PlayersOK'
  BY <1>1, <1>2, <1>3, <1>4, <1>6 DEF PlayersOK, Playing, BothCame
<1>8. LinesOK'
  BY <1>1, <1>2, <1>3, <1>4 DEF LinesOK
<1>9. PromptsOK'
  BY <1>1, <1>2, <1>3, <1>6 DEF PromptsOK, Gone, Quiet
<1> QED
  BY <1>1, <1>2, <1>4, <1>5, <1>7, <1>8, <1>9 DEF MailInv, AnswersOK

(* What has come with a prompt, and what of it a client leaves.            *)
LEMMA BatchIs ==
  ASSUME TypeOK, MailInv, pc # "end", NEW c \in Clients, NEW n \in Batches(c)
  PROVE  LET taken == Range(SubSeq(inbox[c], 1, n))
             rest == SubSeq(inbox[c], n + 1, Len(inbox[c]))
         IN \/ taken = {"agreed"} /\ rest = <<>> /\ inbox[c] = <<"agreed">>
            \/ \E m \in {"turn", "again"} :
                 \/ taken \in {{m}, {"agreed", m}} /\ rest = <<>>
                    /\ inbox[c] \in {<<m>>, <<"agreed", m>>}
                 \/ taken = {"agreed"} /\ rest = <<m>> /\ inbox[c] = <<"agreed", m>>
<1> DEFINE q == inbox[c]
           taken == Range(SubSeq(q, 1, n))
           rest == SubSeq(q, n + 1, Len(q))
<1>1. q \in Seq(Kinds) /\ q # <<>> /\ n \in 1..Len(q)
  <2>1. q \in Seq(Kinds)
    BY DEF MailInv, MailType
  <2>2. q # <<>>
    BY DEF Batches
  <2>3. Len(q) \in Nat /\ Len(q) >= 1
    BY <2>1, <2>2, EmptySeq
  <2>4. n \in 1..Len(q) \/ n = 1
    BY DEF Batches
  <2> QED
    BY <2>1, <2>2, <2>3, <2>4
<1>2. q = <<"agreed">> \/ \E m \in {"turn", "again"} : q \in {<<m>>, <<"agreed", m>>}
  <2>1. PromptsOK /\ pc \in {"join", "turn", "recv", "ask", "again"}
    BY DEF TypeOK, MailInv
  <2> QED
    BY <1>1, <2>1 DEF PromptsOK, Quiet
<1>3. /\ \A x : q = <<x>> => taken = {x} /\ rest = <<>>
      /\ \A x, y : q = <<x, y>> => \/ n = 1 /\ taken = {x} /\ rest = <<y>>
                                   \/ n = 2 /\ taken = {x, y} /\ rest = <<>>
  BY <1>1, Batch
<1> HIDE DEF q, taken, rest
<1> SUFFICES \/ taken = {"agreed"} /\ rest = <<>> /\ q = <<"agreed">>
             \/ \E m \in {"turn", "again"} :
                  \/ taken \in {{m}, {"agreed", m}} /\ rest = <<>>
                     /\ q \in {<<m>>, <<"agreed", m>>}
                  \/ taken = {"agreed"} /\ rest = <<m>> /\ q = <<"agreed", m>>
  BY DEF q, taken, rest
<1> QED
  BY <1>2, <1>3, Zenon

(* The sequences that can be under way to a client are all different.      *)
LEMMA Different ==
  /\ \A x, y \in Kinds : <<>> # <<x>> /\ <<>> # <<x, y>>
  /\ \A x, y, z \in Kinds : <<x>> # <<y, z>>
  /\ \A x, y \in Kinds : <<x>> = <<y>> => x = y
  /\ \A x, y, z, w \in Kinds : <<x, y>> = <<z, w>> => x = z /\ y = w
  OBVIOUS

(* The prompts a client tells apart.                                       *)
LEMMA KindsOf == {"turn", "again", "agreed", "end"} = Kinds
  BY DEF Kinds

(* Who has nothing under way is not asked or heard again.                  *)
LEMMA AnswersKept ==
  ASSUME TwoCame, TypeOK, OutsideOK, MailInv, pc # "end",
         UNCHANGED <<transport, pc, player, answers>>,
         \A d \in Clients : Spent(d) => Spent(d)'
  PROVE  AnswersOK'
<1> SUFFICES ASSUME pc = "again" PROVE AnswersOK'
  BY DEF AnswersOK
<1>1. /\ AnswersOK /\ player[1] \in Clients /\ player[2] \in Clients
      /\ \A c \in Clients : c \notin {player[1], player[2]} => Spent(c)
  BY BothPlay DEF MailInv, Playing, OutsideOK, Spent
<1>2. \A i \in 1..Len(answers) : i \in {1, 2}
  <2>1. answers \in Seq(BOOLEAN) /\ Len(answers) <= 2
    BY DEF TypeOK
  <2>2. Len(answers) \in Nat
    BY <2>1, LenProperties
  <2> QED
    BY <2>1, <2>2
<1>3. ASSUME Tcp, NEW i \in 1..Len(answers) PROVE Spent(player[i])'
  BY <1>1, <1>2, <1>3 DEF AnswersOK
<1> QED
  BY <1>1, <1>3 DEF AnswersOK, Tcp

(* A client reads past "agreed" or past everything, leaves, or loses what  *)
(* has come first.                                                         *)
LEMMA InboxShrinks ==
  ASSUME TwoCame, TypeOK, OutsideOK, MailInv, pc # "end", NEW c \in Clients, NEW r \in Seq(Kinds),
         UNCHANGED <<transport, pc, board, current, player, answers, games, toServer>>,
         lost' \in Nat, inbox' = [inbox EXCEPT ![c] = r],
         r = <<>> \/ \E m \in {"turn", "again"} : inbox[c] = <<"agreed", m>> /\ r = <<m>>,
         \A d \in Clients : \/ cl'[d] = cl[d]
                            \/ d = c /\ cl'[d] = "recv"
                            \/ d = c /\ cl'[d] = "done" /\ r = <<>>
  PROVE  MailInv'
<1>1. MailType /\ PlayersOK /\ OneEach /\ LinesOK /\ PromptsOK /\ AnswersOK
  BY DEF MailInv
<1>2. inbox'[c] = r /\ \A d \in Clients \ {c} : inbox'[d] = inbox[d]
  BY <1>1 DEF MailType
<1>3. \A d \in Clients : Heard(d)' <=> Heard(d)
  BY DEF Heard
<1>4. MailType' /\ OneEach'
  BY <1>1 DEF MailType, OneEach
<1>5. PlayersOK'
  BY <1>1, <1>3 DEF PlayersOK, Joining, Playing, BothCame
<1>6. inbox[c] \in Quiet => r = <<>>
  BY Different, KindsOf DEF Quiet
<1>7. LinesOK'
  BY <1>1, <1>2, <1>3, <1>6 DEF LinesOK, Joining, Quiet
<1>8. PromptsOK'
  <2>1. pc = "recv" => r = <<>> \/ (c = player[current] /\ r = <<"turn">>)
    BY <1>1, <1>6, Different, KindsOf DEF PromptsOK
  <2>2. pc = "again" => r \in {<<>>, <<"again">>}
    BY <1>1, Different, KindsOf DEF PromptsOK
  <2>3. pc \in {"turn", "ask", "join"} \/ Joining => r = <<>>
    BY <1>1, <1>6 DEF PromptsOK, Joining
  <2>4. Gone(c)' => r = <<>>
    BY <1>1, <1>6 DEF PromptsOK, Gone, Quiet
  <2> QED
    BY <1>1, <1>2, <2>1, <2>2, <2>3, <2>4 DEF PromptsOK, Joining, Quiet, Gone
<1>9. AnswersOK'
  <2>1. inbox[c] = <<>> => r = <<>>
    BY <1>6 DEF Quiet
  <2>2. \A d \in Clients : Spent(d) => Spent(d)'
    BY <1>2, <1>3, <2>1 DEF Spent
  <2> QED
    BY <2>2, AnswersKept
<1> QED
  BY <1>4, <1>5, <1>7, <1>8, <1>9 DEF MailInv

(* A client that reads its inbox: it answers a prompt, or goes past what   *)
(* else has come.                                                          *)
LEMMA RecvIs ==
  ASSUME TypeOK, MailInv, pc # "end", NEW c \in Clients, ClientRecv(c)
  PROVE  \/ /\ \E m \in Payload : Sends(c, m)
            /\ inbox' = [inbox EXCEPT ![c] = <<>>]
            /\ \/ inbox[c] \in {<<"turn">>, <<"agreed", "turn">>} /\ cl' = cl
               \/ /\ inbox[c] \in {<<"again">>, <<"agreed", "again">>}
                  /\ cl' = [cl EXCEPT ![c] = "answer"]
         \/ /\ UNCHANGED <<toServer, cl>>
            /\ \/ inbox[c] = <<"agreed">> /\ inbox' = [inbox EXCEPT ![c] = <<>>]
               \/ \E m \in {"turn", "again"} :
                    inbox[c] = <<"agreed", m>> /\ inbox' = [inbox EXCEPT ![c] = <<m>>]
<1>1. PICK n \in Batches(c) :
        LET batch == Range(SubSeq(inbox[c], 1, n)) IN
        /\ inbox' = [inbox EXCEPT ![c] = SubSeq(@, n + 1, Len(@))]
        /\ IF "turn" \in batch THEN UNCHANGED cl /\ \E m \in Moves[c] \cup {Bad} : Sends(c, m)
           ELSE IF "again" \in batch
           THEN /\ cl' = [cl EXCEPT ![c] = "answer"]
                /\ \E a \in {Yes, Bad} : (a = Yes => games < MaxGames) /\ Sends(c, a)
           ELSE UNCHANGED <<cl, toServer>>
  BY DEF ClientRecv
<1>2. Moves[c] \cup {Bad, Yes} \subseteq Payload
  BY PayloadIs
<1> DEFINE batch == Range(SubSeq(inbox[c], 1, n))
           rest == SubSeq(inbox[c], n + 1, Len(inbox[c]))
<1>3. \/ batch = {"agreed"} /\ rest = <<>> /\ inbox[c] = <<"agreed">>
      \/ \E m \in {"turn", "again"} :
           \/ batch \in {{m}, {"agreed", m}} /\ rest = <<>>
              /\ inbox[c] \in {<<m>>, <<"agreed", m>>}
           \/ batch = {"agreed"} /\ rest = <<m>> /\ inbox[c] = <<"agreed", m>>
  BY BatchIs
<1>4. /\ inbox' = [inbox EXCEPT ![c] = rest]
      /\ IF "turn" \in batch THEN UNCHANGED cl /\ \E m \in Payload : Sends(c, m)
         ELSE IF "again" \in batch
         THEN cl' = [cl EXCEPT ![c] = "answer"] /\ \E m \in Payload : Sends(c, m)
         ELSE UNCHANGED <<cl, toServer>>
  BY <1>1, <1>2
<1> HIDE DEF batch, rest
<1>5. CASE batch = {"agreed"} /\ rest = <<>> /\ inbox[c] = <<"agreed">>
  BY <1>4, <1>5
<1>6. ASSUME NEW m \in {"turn", "again"}, batch \in {{m}, {"agreed", m}}, rest = <<>>,
             inbox[c] \in {<<m>>, <<"agreed", m>>}
      PROVE  /\ \E x \in Payload : Sends(c, x)
             /\ \/ inbox[c] \in {<<"turn">>, <<"agreed", "turn">>} /\ cl' = cl
                \/ /\ inbox[c] \in {<<"again">>, <<"agreed", "again">>}
                   /\ cl' = [cl EXCEPT ![c] = "answer"]
  <2>1. CASE m = "turn"
    BY <1>4, <1>6, <2>1
  <2>2. CASE m = "again"
    BY <1>4, <1>6, <2>2
  <2> QED
    BY <2>1, <2>2
<1>7. ASSUME NEW m \in {"turn", "again"}, batch = {"agreed"}, rest = <<m>>,
             inbox[c] = <<"agreed", m>>
      PROVE  UNCHANGED <<toServer, cl>> /\ inbox' = [inbox EXCEPT ![c] = <<m>>]
  BY <1>4, <1>7
<1> QED
  BY <1>3, <1>4, <1>5, <1>6, <1>7

(* While a client is prompted, nothing of it is under way.                 *)
LEMMA MailClientRecv ==
  ASSUME TwoCame, TypeOK, OutsideOK, MailInv, NEW c \in Clients, ClientRecv(c), pc # "end"
  PROVE  MailInv'
<1>1. /\ cl[c] = "recv"
      /\ UNCHANGED <<transport, pc, board, current, player, answers, games, lost>>
  BY DEF ClientRecv, serverVars
<1>2. MailType /\ PlayersOK /\ OneEach /\ LinesOK /\ PromptsOK /\ AnswersOK
  BY DEF MailInv
<1>3. cl \in [Clients -> {"out", "recv", "answer", "done"}] /\ inbox \in [Clients -> Seq(Kinds)]
      /\ pc \in {"join", "turn", "recv", "ask", "again"}
  BY <1>2 DEF TypeOK, MailType
<1>4. CASE /\ \E m \in Payload : Sends(c, m)
           /\ inbox' = [inbox EXCEPT ![c] = <<>>]
           /\ \/ inbox[c] \in {<<"turn">>, <<"agreed", "turn">>} /\ cl' = cl
              \/ /\ inbox[c] \in {<<"again">>, <<"agreed", "again">>}
                 /\ cl' = [cl EXCEPT ![c] = "answer"]
  <2>1. inbox[c] \notin Quiet
    BY <1>4, Different, KindsOf DEF Quiet
  <2>2. pc \in {"recv", "again"} /\ (pc = "recv" => c = player[current])
    BY <1>2, <1>3, <2>1 DEF PromptsOK
  <2>3. ~Heard(c) /\ ~Joining
    BY <1>2, <2>1, <2>2 DEF LinesOK, Quiet, Joining
  <2>4. /\ toServer' \in Seq(Clients \X Payload) /\ OneEach'
        /\ \A d \in Clients : Heard(d)' <=> Heard(d) \/ d = c
    BY <1>2, <1>4, <2>3, LineSent
  <2>5. inbox'[c] = <<>> /\ \A d \in Clients \ {c} : inbox'[d] = inbox[d]
    BY <1>3, <1>4
  <2>6. \A d \in Clients : cl'[d] = cl[d] \/ (d = c /\ cl'[d] = "answer")
    BY <1>3, <1>4
  <2>7. MailType'
    <3>1. <<>> \in Seq(Kinds)
      OBVIOUS
    <3> QED
      BY <1>1, <1>2, <1>4, <2>4, <3>1 DEF MailType
  <2>8. PlayersOK'
    BY <1>1, <1>2, <2>2, <2>3, <2>4, <2>6 DEF PlayersOK, Joining, Playing, BothCame
  <2>9. LinesOK'
    BY <1>1, <1>2, <2>2, <2>3, <2>4, <2>5 DEF LinesOK, Joining, Quiet
  <2>10. PromptsOK'
    BY <1>1, <1>2, <2>2, <2>3, <2>5, <2>6 DEF PromptsOK, Joining, Quiet, Gone
  <2>11. AnswersOK'
    <3>1. ~Spent(c)
      BY <2>1 DEF Spent, Quiet
    <3>2. \A d \in Clients : Spent(d) => Spent(d)'
      BY <2>4, <2>5, <3>1 DEF Spent
    <3> QED
      BY <1>1, <1>2, <3>1, <3>2, AnswersKept
  <2> QED
    BY <2>4, <2>7, <2>8, <2>9, <2>10, <2>11 DEF MailInv
<1>5. ASSUME NEW r \in Seq(Kinds), UNCHANGED <<toServer, cl>>,
             inbox' = [inbox EXCEPT ![c] = r],
             r = <<>> \/ \E m \in {"turn", "again"} : inbox[c] = <<"agreed", m>> /\ r = <<m>>
      PROVE  MailInv'
  BY <1>1, <1>2, <1>5, InboxShrinks DEF MailType
<1> QED
  <2>1. /\ <<>> \in Seq(Kinds)
        /\ \A m \in {"turn", "again"} : <<m>> \in Seq(Kinds)
    BY DEF Kinds
  <2> QED
    BY <1>4, <1>5, <2>1, RecvIs

(* A client reads the response: one that has something to read has none    *)
(* under way.                                                              *)
LEMMA MailClientResponse ==
  ASSUME TwoCame, TypeOK, OutsideOK, MailInv, NEW c \in Clients, ClientResponse(c), pc # "end"
  PROVE  MailInv' /\ cl' = [cl EXCEPT ![c] = "recv"] /\ ~Joining
<1>1. PICK n \in Batches(c) :
        /\ inbox' = [inbox EXCEPT ![c] = SubSeq(@, n + 1, Len(@))]
        /\ cl' = [cl EXCEPT ![c] = IF "end" \in Range(SubSeq(inbox[c], 1, n))
                                   THEN "done" ELSE "recv"]
  BY DEF ClientResponse
<1>2. UNCHANGED <<transport, pc, board, current, player, answers, games, toServer, lost>>
  BY DEF ClientResponse, serverVars
<1> DEFINE batch == Range(SubSeq(inbox[c], 1, n))
           rest == SubSeq(inbox[c], n + 1, Len(inbox[c]))
<1>3. \/ batch = {"agreed"} /\ rest = <<>> /\ inbox[c] = <<"agreed">>
      \/ \E m \in {"turn", "again"} :
           \/ batch \in {{m}, {"agreed", m}} /\ rest = <<>>
              /\ inbox[c] \in {<<m>>, <<"agreed", m>>}
           \/ batch = {"agreed"} /\ rest = <<m>> /\ inbox[c] = <<"agreed", m>>
  BY BatchIs
<1>4. /\ inbox' = [inbox EXCEPT ![c] = rest]
      /\ cl' = [cl EXCEPT ![c] = IF "end" \in batch THEN "done" ELSE "recv"]
  BY <1>1
<1> HIDE DEF batch, rest
<1>5. "end" \notin batch
  BY <1>3
<1>6. /\ cl' = [cl EXCEPT ![c] = "recv"] /\ inbox[c] # <<>>
      /\ rest = <<>> \/ \E m \in {"turn", "again"} : inbox[c] = <<"agreed", m>> /\ rest = <<m>>
  BY <1>3, <1>4, <1>5, Different, KindsOf
<1>7. rest \in Seq(Kinds)
  <2>1. /\ <<>> \in Seq(Kinds)
        /\ \A m \in {"turn", "again"} : <<m>> \in Seq(Kinds)
    BY DEF Kinds
  <2> QED
    BY <1>6, <2>1
<1>8. \A d \in Clients : cl'[d] = cl[d] \/ (d = c /\ cl'[d] = "recv")
  BY <1>6 DEF TypeOK
<1>9. lost' \in Nat
  BY <1>2 DEF MailInv, MailType
<1>10. MailInv'
  BY <1>2, <1>4, <1>6, <1>7, <1>8, <1>9, InboxShrinks
<1>11. ~Joining
  BY <1>6 DEF MailInv, PromptsOK
<1> QED
  BY <1>6, <1>10, <1>11

(* A client leaves; its line may still be under way.                       *)
LEMMA MailQuit ==
  ASSUME TwoCame, TypeOK, OutsideOK, MailInv, NEW c \in Clients, Quit(c), pc # "end"
  PROVE  MailInv'
<1>1. /\ UNCHANGED <<transport, pc, board, current, player, answers, games, toServer, lost>>
      /\ cl' = [cl EXCEPT ![c] = "done"] /\ inbox' = [inbox EXCEPT ![c] = <<>>]
  BY DEF Quit, serverVars
<1>2. \A d \in Clients : cl'[d] = cl[d] \/ (d = c /\ cl'[d] = "done")
  BY <1>1 DEF TypeOK
<1>3. <<>> \in Seq(Kinds) /\ lost' \in Nat
  BY <1>1 DEF MailInv, MailType
<1> QED
  BY <1>1, <1>2, <1>3, InboxShrinks

(* A datagram is lost: less is under way.                                  *)
LEMMA MailLose ==
  ASSUME TwoCame, TypeOK, OutsideOK, MailInv, Lose, pc # "end"
  PROVE  MailInv'
<1>1. lost' = lost + 1 /\ lost' \in Nat /\ ~Tcp
      /\ UNCHANGED <<transport, pc, board, current, player, answers, games, cl>>
  BY DEF Lose, serverVars, MailInv, MailType
<1>2. MailType /\ PlayersOK /\ OneEach /\ LinesOK /\ PromptsOK /\ AnswersOK
  BY DEF MailInv
<1>3. ASSUME NEW n \in DOMAIN toServer, toServer' = RemoveAt(toServer, n), UNCHANGED inbox
      PROVE  MailInv'
  <2>1. /\ toServer' \in Seq(Clients \X Payload) /\ OneEach'
        /\ \A c \in Clients : Heard(c)' <=> Heard(c) /\ c # toServer[n][1]
        /\ \A k \in DOMAIN toServer' : \E m \in DOMAIN toServer : toServer'[k] = toServer[m]
    BY <1>2, <1>3, LineTaken
  <2>2. MailType' /\ PromptsOK'
    BY <1>1, <1>2, <1>3, <2>1 DEF MailType, PromptsOK, Joining, Gone
  <2>3. PlayersOK'
    BY <1>1, <1>2, <2>1 DEF PlayersOK, Joining, Playing, BothCame
  <2>4. LinesOK'
    <3>1. toServer # <<>>
      BY <1>3
    <3>2. Joining => \A k \in DOMAIN toServer' :
                        toServer'[k][2] = Join /\ toServer'[k][1] \notin Range(player)
      BY <1>2, <2>1 DEF LinesOK
    <3> QED
      BY <1>1, <1>2, <1>3, <2>1, <3>1, <3>2 DEF LinesOK, Joining
  <2>5. AnswersOK'
    <3>1. \A d \in Clients : Spent(d) => Spent(d)'
      BY <1>3, <2>1 DEF Spent
    <3> QED
      BY <1>1, <3>1, AnswersKept
  <2> QED
    BY <2>1, <2>2, <2>3, <2>4, <2>5 DEF MailInv
<1>4. ASSUME NEW c \in Clients, inbox[c] # <<>>, inbox' = [inbox EXCEPT ![c] = Tail(@)],
             UNCHANGED toServer
      PROVE  MailInv'
  <2>1. inbox[c] = <<"agreed">> \/ \E m \in {"turn", "again"} : inbox[c] \in {<<m>>, <<"agreed", m>>}
    BY <1>2, <1>4 DEF TypeOK, PromptsOK, Quiet
  <2>2. /\ Tail(inbox[c]) \in Seq(Kinds)
        /\ Tail(inbox[c]) = <<>> \/ \E m \in {"turn", "again"} :
                                      inbox[c] = <<"agreed", m>> /\ Tail(inbox[c]) = <<m>>
    <3>1. \A x \in Kinds : Tail(<<x>>) = <<>>
      OBVIOUS
    <3>2. \A x, y \in Kinds : Tail(<<x, y>>) = <<y>>
      OBVIOUS
    <3>3. <<>> \in Seq(Kinds) /\ \A x \in Kinds : <<x>> \in Seq(Kinds)
      OBVIOUS
    <3>4. {"turn", "again", "agreed"} \subseteq Kinds
      BY DEF Kinds
    <3> QED
      BY <2>1, <3>1, <3>2, <3>3, <3>4
  <2>3. inbox' = [inbox EXCEPT ![c] = Tail(inbox[c])]
    BY <1>4
  <2> QED
    BY <1>1, <1>4, <2>2, <2>3, InboxShrinks
<1> QED
  BY <1>3, <1>4 DEF Lose

-----------------------------------------------------------------------------
(* Every step keeps what holds whoever comes.                              *)

(* A line taken out leaves the others.                                     *)
LEMMA LinesLeft ==
  ASSUME MailType, NEW n \in DOMAIN toServer, toServer' = RemoveAt(toServer, n)
  PROVE  /\ toServer' \in Seq(Clients \X Payload) /\ toServer[n][1] \in Clients
         /\ \A d : Heard(d)' => Heard(d)
         /\ \A d : Heard(d) /\ d # toServer[n][1] => Heard(d)'
<1> DEFINE S == Clients \X Payload
           back(i) == IF i < n THEN i ELSE i + 1
<1>1. toServer \in Seq(S)
  BY DEF MailType
<1>2. toServer[n] \in S
  BY <1>1, ElementOfSeq, LenProperties
<1>3. toServer[n][1] \in Clients
  BY <1>2
<1> HIDE DEF S
<1>4. DOMAIN toServer = 1..Len(toServer) /\ Len(toServer) \in Nat
  BY <1>1, LenProperties
<1>5. /\ toServer' \in Seq(S) /\ DOMAIN toServer' = 1..(Len(toServer) - 1)
      /\ \A i \in 1..(Len(toServer) - 1) : toServer'[i] = toServer[back(i)]
  BY <1>1, RemoveOne
<1>6. \A i \in DOMAIN toServer' : back(i) \in DOMAIN toServer
  BY <1>4, <1>5
<1>7. \A m \in DOMAIN toServer : m # n => \E i \in DOMAIN toServer' : m = back(i)
  <2> SUFFICES ASSUME NEW m \in DOMAIN toServer, m # n
               PROVE  \E i \in DOMAIN toServer' : m = back(i)
    OBVIOUS
  <2>1. CASE m < n
    BY <1>4, <1>5, <2>1
  <2>2. CASE m > n
    <3>1. m - 1 \in DOMAIN toServer' /\ m = back(m - 1)
      BY <1>4, <1>5, <2>2
    <3> QED
      BY <3>1
  <2> QED
    BY <1>4, <2>1, <2>2
<1> HIDE DEF back
<1>8. \A d : Heard(d)' => Heard(d)
  BY <1>5, <1>6 DEF Heard
<1>9. ASSUME NEW d, Heard(d), d # toServer[n][1] PROVE Heard(d)'
  <2>1. PICK m \in DOMAIN toServer : toServer[m][1] = d
    BY <1>9 DEF Heard
  <2>2. PICK i \in DOMAIN toServer' : m = back(i)
    BY <1>7, <1>9, <2>1
  <2> QED
    BY <1>5, <2>1, <2>2 DEF Heard
<1> QED
  BY <1>3, <1>5, <1>8, <1>9 DEF S

(* A step of a client concerns that client, which has come.                *)
LEMMA ClientStep ==
  ASSUME TypeOK, MailType, NEW c \in Clients, Client(c)
  PROVE  /\ UNCHANGED <<transport, pc, board, current, player, answers, games, lost>>
         /\ \/ cl' = cl
            \/ \E v \in {"recv", "answer", "done"} : cl' = [cl EXCEPT ![c] = v]
         /\ cl' \in [Clients -> {"out", "recv", "answer", "done"}] /\ cl'[c] # "out"
         /\ toServer' = toServer \/ \E m \in Payload : Sends(c, m)
         /\ inbox' = inbox \/ \E q \in Seq(Kinds) : inbox' = [inbox EXCEPT ![c] = q]
<1>1. cl \in [Clients -> {"out", "recv", "answer", "done"}]
  BY DEF TypeOK
<1>2. UNCHANGED <<transport, pc, board, current, player, answers, games, lost>>
  BY DEF Client, JoinGame, ClientRecv, ClientResponse, ClientEof, Quit, serverVars
<1>3. \/ cl' = cl /\ cl[c] = "recv"
      \/ \E v \in {"recv", "answer", "done"} : cl' = [cl EXCEPT ![c] = v]
  <2>1. CASE ClientRecv(c)
    BY <2>1, Zenon DEF ClientRecv
  <2>2. CASE ClientResponse(c)
    BY <2>2 DEF ClientResponse
  <2> QED
    BY <2>1, <2>2 DEF Client, JoinGame, ClientEof, Quit
<1>4. cl' \in [Clients -> {"out", "recv", "answer", "done"}] /\ cl'[c] # "out"
  BY <1>1, <1>3
<1>5. toServer' = toServer \/ \E m \in Payload : Sends(c, m)
  <2>1. CASE ClientRecv(c)
    <3>1. toServer' = toServer \/ \E m \in Moves[c] \cup {Bad, Yes} : Sends(c, m)
      BY <2>1, Zenon DEF ClientRecv
    <3> QED
      BY <3>1, PayloadIs
  <2>2. CASE JoinGame(c)
    BY <2>2, PayloadIs DEF JoinGame
  <2> QED
    BY <2>1, <2>2 DEF Client, ClientResponse, ClientEof, Quit
<1>6. inbox' = inbox \/ \E q \in Seq(Kinds) : inbox' = [inbox EXCEPT ![c] = q]
  <2>1. CASE ClientRecv(c) \/ ClientResponse(c)
    <3>1. PICK n \in Batches(c) : inbox' = [inbox EXCEPT ![c] = SubSeq(@, n + 1, Len(@))]
      BY <2>1 DEF ClientRecv, ClientResponse
    <3>2. inbox[c] \in Seq(Kinds) /\ Len(inbox[c]) \in Nat
      BY LenProperties DEF MailType
    <3>3. n \in Nat /\ n >= 1
      BY <3>2 DEF Batches
    <3>4. \A i \in (n + 1)..Len(inbox[c]) : inbox[c][i] \in Kinds
      BY <3>2, <3>3, ElementOfSeq
    <3>5. SubSeq(inbox[c], n + 1, Len(inbox[c])) \in Seq(Kinds)
      BY <3>2, <3>3, <3>4, SubSeqProperties
    <3> QED
      BY <3>1, <3>5
  <2>2. CASE Quit(c)
    <3>1. <<>> \in Seq(Kinds)
      OBVIOUS
    <3> QED
      BY <2>2, <3>1 DEF Quit
  <2> QED
    BY <2>1, <2>2 DEF Client, JoinGame, ClientEof
<1> QED
  BY <1>2, <1>3, <1>4, <1>5, <1>6

(* The server takes a line, and sends to its players only.                 *)
LEMMA ServerStep ==
  ASSUME TypeOK, MailType, Server
  PROVE  /\ UNCHANGED <<transport, cl, lost>>
         /\ games' \in {games, games + 1}
         /\ \/ toServer' = toServer
            \/ \E n \in DOMAIN toServer : toServer' = RemoveAt(toServer, n)
         /\ inbox' \in [Clients -> Seq(Kinds)]
         /\ \A c \in Clients : c \notin Range(player) => inbox'[c] = inbox[c]
         /\ \/ player' \in {player, <<>>}
            \/ \E n \in DOMAIN toServer : player' = Append(player, toServer[n][1])
<1>1. UNCHANGED <<transport, cl, lost>> /\ games' \in {games, games + 1}
  BY DEF Server, Joined, SendTurn, RecvMove, Disconnected, Ask, RecvAgain, Agreed, Ended,
         ServerKilled
<1>2. \/ toServer' = toServer
      \/ \E n \in DOMAIN toServer : toServer' = RemoveAt(toServer, n)
  BY DEF Server, Joined, SendTurn, RecvMove, Disconnected, Ask, RecvAgain, Agreed, Ended,
         ServerKilled
<1>3. \/ player' \in {player, <<>>}
      \/ \E n \in DOMAIN toServer : player' = Append(player, toServer[n][1])
  <2>1. CASE Joined
    BY <2>1 DEF Joined
  <2>2. CASE Agreed
    BY <2>2 DEF Agreed
  <2> QED
    BY <2>1, <2>2 DEF Server, SendTurn, RecvMove, Disconnected, Ask, RecvAgain, Ended,
       ServerKilled
<1>4. /\ inbox \in [Clients -> Seq(Kinds)]
      /\ \A c \in Clients : \A m \in Kinds : Append(inbox[c], m) \in Seq(Kinds)
      /\ {"turn", "again", "agreed", "end"} \subseteq Kinds
  BY AppendProperties DEF MailType, Kinds
<1>5. /\ inbox' \in [Clients -> Seq(Kinds)]
      /\ \A c \in Clients : c \notin Range(player) => inbox'[c] = inbox[c]
  <2>1. ASSUME NEW m \in Kinds, ToBoth(m)
        PROVE  /\ inbox' \in [Clients -> Seq(Kinds)]
               /\ \A c \in Clients : c \notin Range(player) => inbox'[c] = inbox[c]
    BY <1>4, <2>1 DEF ToBoth
  <2>2. CASE SendTurn
    <3> DEFINE p == player[current]
    <3>1. /\ pc = "turn"
          /\ inbox' = IF Gone(p) THEN inbox ELSE [inbox EXCEPT ![p] = Append(@, "turn")]
      BY <2>2 DEF SendTurn
    <3>2. p \in Range(player)
      <4>1. current \in {1, 2} /\ Len(player) = 2 /\ player \in Seq(Clients)
        BY <3>1 DEF TypeOK
      <4>2. current \in DOMAIN player
        BY <4>1, LenProperties
      <4> QED
        BY <4>2 DEF Range
    <3> HIDE DEF p
    <3> QED
      BY <1>4, <3>1, <3>2
  <2>3. CASE Ended
    <3>1. pc = "again" /\ inbox' = [c \in Clients |->
            IF ~Gone(c) /\ \E i \in 1..2 : player[i] = c /\ (answers[i] \/ answers = <<FALSE, FALSE>>)
            THEN Append(inbox[c], "end") ELSE inbox[c]]
      BY <2>3 DEF Ended
    <3>2. player \in Seq(Clients) /\ Len(player) = 2
      BY <3>1 DEF TypeOK
    <3>3. \A i \in 1..2 : player[i] \in Range(player)
      BY <3>2, LenProperties DEF Range
    <3> QED
      BY <1>4, <3>1, <3>3
  <2> QED
    BY <1>4, <2>1, <2>2, <2>3, Zenon
       DEF Server, Joined, RecvMove, Disconnected, Ask, RecvAgain, Agreed, ServerKilled
<1> QED
  BY <1>1, <1>2, <1>3, <1>5

(* Types and board.                                                        *)
LEMMA TypeNext ==
  ASSUME TypeOK, BoardLegal, MailType, PlacesLeft, Next
  PROVE  TypeOK' /\ BoardLegal'
<1>1. /\ player \in Seq(Clients) /\ Len(player) <= 2 /\ answers \in Seq(BOOLEAN)
      /\ board \in Boards /\ current \in {1, 2}
      /\ cl \in [Clients -> {"out", "recv", "answer", "done"}]
      /\ pc \notin {"join", "end"} => Len(player) = 2
      /\ Len(answers) <= 2 /\ Len(answers) \in Nat
  BY LenProperties DEF TypeOK, Boards
<1>2. EmptyBoard \in Boards
  BY NewBoard
<1>3. CASE Joined
  <2>1. PICK n \in DOMAIN toServer :
          \/ UNCHANGED <<player, pc, board>>
          \/ /\ player' = Append(player, toServer[n][1])
             /\ IF Len(player') = 2 THEN pc' = "turn" /\ board' = EmptyBoard
                                    ELSE UNCHANGED <<pc, board>>
    BY <1>3 DEF Joined
  <2>2. pc = "join" /\ UNCHANGED <<current, answers, cl>>
    BY <1>3 DEF Joined
  <2>3. current = 1 /\ Len(player) <= 1 /\ Len(player) \in Nat
    BY <1>1, <2>2, LenProperties DEF PlacesLeft
  <2>4. toServer[n][1] \in Clients
    <3>1. toServer[n] \in Clients \X Payload
      BY <2>1, ElementOfSeq, LenProperties DEF MailType
    <3> QED
      BY <3>1
  <2>5. CASE UNCHANGED <<player, pc, board>>
    BY <1>1, <2>2, <2>3, <2>5 DEF TypeOK, Boards, BoardLegal, Count
  <2>6. CASE /\ player' = Append(player, toServer[n][1])
             /\ IF Len(player') = 2 THEN pc' = "turn" /\ board' = EmptyBoard
                                    ELSE UNCHANGED <<pc, board>>
    <3>1. player' \in Seq(Clients) /\ Len(player') = Len(player) + 1
      BY <1>1, <2>4, <2>6, AppendProperties
    <3>2. Len(player') <= 2
      BY <2>3, <3>1
    <3>3. CASE Len(player') = 2
      <4>1. TypeOK'
        BY <1>1, <1>2, <2>2, <2>3, <2>6, <3>1, <3>2, <3>3 DEF TypeOK, Boards
      <4> QED
        BY <2>2, <2>3, <2>6, <3>3, <4>1, FreshBoard
    <3>4. CASE Len(player') # 2
      <4>1. Len(player') <= 1
        BY <2>3, <3>1, <3>4
      <4>2. TypeOK'
        BY <1>1, <2>2, <2>3, <2>6, <3>1, <3>2, <3>4, <4>1 DEF TypeOK, Boards
      <4>3. BoardLegal'
        BY <2>2, <2>6, <3>4 DEF BoardLegal, Count
      <4> QED
        BY <4>2, <4>3
    <3> QED
      BY <3>3, <3>4
  <2> QED
    BY <2>1, <2>5, <2>6
<1>4. CASE RecvMove
  <2>1. PICK c : MoveOn(c)
    BY <1>4 DEF RecvMove
  <2>2. pc = "recv" /\ UNCHANGED <<player, answers, cl>>
    BY <1>4 DEF RecvMove
  <2>3. /\ BoardLegal' /\ board' \in Boards /\ current' \in {1, 2} /\ pc' \in {"turn", "ask"}
    BY <2>1, <2>2, MoveLegal
  <2> QED
    BY <1>1, <2>2, <2>3 DEF TypeOK, Boards
<1>5. CASE Agreed
  <2>1. /\ pc = "again" /\ current' = 1 /\ UNCHANGED <<answers, cl>>
        /\ \/ pc' = "turn" /\ board' = EmptyBoard /\ UNCHANGED player
           \/ pc' = "join" /\ player' = <<>> /\ UNCHANGED board
    BY <1>5 DEF Agreed
  <2>2. player' \in Seq(Clients) /\ Len(player') <= 2 /\ (pc' = "turn" => Len(player') = 2)
    <3>1. <<>> \in Seq(Clients) /\ Len(<<>>) <= 2
      BY EmptySeq
    <3>2. CASE player' = player
      BY <1>1, <2>1, <3>2
    <3>3. CASE pc' = "join" /\ player' = <<>>
      BY <3>1, <3>3
    <3> QED
      BY <2>1, <3>2, <3>3
  <2>3. TypeOK'
    BY <1>1, <1>2, <2>1, <2>2 DEF TypeOK, Boards
  <2>4. BoardLegal'
    <3>1. CASE pc' = "turn" /\ board' = EmptyBoard
      BY <2>1, <3>1, FreshBoard
    <3>2. CASE pc' = "join" /\ UNCHANGED board
      BY <3>2 DEF BoardLegal, Count
    <3> QED
      BY <2>1, <3>1, <3>2
  <2> QED
    BY <2>3, <2>4
<1>6. CASE RecvAgain
  <2>1. /\ Len(answers) < 2 /\ UNCHANGED <<pc, board, current, player, cl>>
        /\ \E a \in BOOLEAN : answers' = Append(answers, a)
    BY <1>6 DEF RecvAgain
  <2>2. PICK a \in BOOLEAN : answers' = Append(answers, a)
    BY <2>1
  <2>3. answers' \in Seq(BOOLEAN) /\ Len(answers') = Len(answers) + 1
    BY <1>1, <2>2, AppendProperties
  <2>4. Len(answers') <= 2
    BY <1>1, <2>1, <2>3
  <2>5. TypeOK'
    BY <1>1, <2>1, <2>3, <2>4 DEF TypeOK, Boards
  <2> QED
    BY <2>1, <2>5 DEF BoardLegal, Count
<1>7. CASE SendTurn \/ Disconnected \/ Ask \/ Ended \/ ServerKilled
  <2>1. /\ UNCHANGED <<board, current, player, cl>>
        /\ pc \notin {"join", "end"} /\ pc' \in {"recv", "ask", "again", "end"}
        /\ pc' = "recv" => pc = "turn"
        /\ answers' = answers \/ answers' = <<>>
    BY <1>7 DEF SendTurn, Disconnected, Ask, Ended, ServerKilled
  <2>2. answers' \in Seq(BOOLEAN) /\ Len(answers') <= 2
    <3>1. <<>> \in Seq(BOOLEAN) /\ Len(<<>>) <= 2
      BY EmptySeq
    <3>2. CASE answers' = answers
      BY <1>1, <3>2
    <3>3. CASE answers' = <<>>
      BY <3>1, <3>3
    <3> QED
      BY <2>1, <3>2, <3>3
  <2>3. TypeOK'
    BY <1>1, <2>1, <2>2 DEF TypeOK, Boards
  <2> QED
    BY <2>1, <2>3 DEF BoardLegal, Count
<1>8. ASSUME NEW c \in Clients, Client(c) PROVE TypeOK' /\ BoardLegal'
  <2>1. UNCHANGED serverVars
    BY <1>8 DEF Client, JoinGame, ClientRecv, ClientResponse, ClientEof, Quit
  <2>2. \/ cl' = cl
        \/ \E v \in {"recv", "answer", "done"} : cl' = [cl EXCEPT ![c] = v]
    <3>1. CASE ClientRecv(c)
      BY <3>1, Zenon DEF ClientRecv
    <3>2. CASE ClientResponse(c)
      BY <3>2 DEF ClientResponse
    <3> QED
      BY <1>8, <3>1, <3>2 DEF Client, JoinGame, ClientEof, Quit
  <2>3. cl' \in [Clients -> {"out", "recv", "answer", "done"}]
    BY <1>1, <2>2
  <2>4. TypeOK'
    BY <1>1, <2>1, <2>3 DEF TypeOK, Boards, serverVars
  <2> QED
    BY <2>1, <2>4 DEF serverVars, BoardLegal, Count
<1>9. CASE Lose
  <2>1. UNCHANGED serverVars /\ UNCHANGED cl
    BY <1>9 DEF Lose
  <2> QED
    BY <2>1 DEF serverVars, TypeOK, BoardLegal, Count
<1> QED
  BY <1>3, <1>4, <1>5, <1>6, <1>7, <1>8, <1>9 DEF Next, Server


(* Players are taken until there are two.                                  *)
LEMMA PlacesNext ==
  ASSUME TypeOK, MailType, PlacesLeft, Next
  PROVE  PlacesLeft'
<1>1. games \in Nat /\ player \in Seq(Clients)
  BY DEF TypeOK, MailType
<1>2. CASE Joined
  <2>1. PICK n \in DOMAIN toServer :
          \/ UNCHANGED <<player, pc, games>>
          \/ /\ player' = Append(player, toServer[n][1])
             /\ IF Len(player') = 2 THEN pc' = "turn" /\ games' = games + 1
                                    ELSE UNCHANGED <<pc, games>>
    BY <1>2 DEF Joined
  <2>2. pc = "join" /\ current' = current
    BY <1>2 DEF Joined
  <2>3. toServer[n] \in Clients \X Payload
    BY <2>1, ElementOfSeq, LenProperties DEF MailType
  <2>4. Len(Append(player, toServer[n][1])) = Len(player) + 1 /\ Len(player) \in {0, 1}
    <3>1. Len(player) \in Nat /\ Len(player) <= 1 /\ toServer[n][1] \in Clients
      BY <1>1, <2>2, <2>3, LenProperties DEF PlacesLeft
    <3>2. \A k \in Nat : k <= 1 => k \in {0, 1}
      OBVIOUS
    <3>3. Len(Append(player, toServer[n][1])) = Len(player) + 1
      BY <1>1, <3>1, AppendProperties
    <3> QED
      BY <3>1, <3>2, <3>3
  <2>5. CASE UNCHANGED <<player, pc, games>>
    BY <2>2, <2>5 DEF PlacesLeft
  <2>6. ASSUME player' = Append(player, toServer[n][1]),
               IF Len(player') = 2 THEN pc' = "turn" /\ games' = games + 1
                                   ELSE UNCHANGED <<pc, games>>
        PROVE  PlacesLeft'
    <3>1. Len(player') = Len(player) + 1 /\ Len(player) \in {0, 1}
      BY <2>4, <2>6
    <3>2. CASE Len(player') = 2
      BY <1>1, <2>6, <3>2 DEF PlacesLeft
    <3>3. CASE Len(player') # 2
      <4>1. Len(player') <= 1
        <5>1. \A k \in {0, 1} : k + 1 # 2 => k + 1 <= 1
          OBVIOUS
        <5> QED
          BY <3>1, <3>3, <5>1
      <4> QED
        BY <2>2, <2>6, <3>3, <4>1 DEF PlacesLeft
    <3> QED
      BY <3>2, <3>3
  <2> QED
    BY <2>1, <2>5, <2>6
<1>3. CASE Server /\ ~Joined
  <2>1. pc # "join" /\ games' \in {games, games + 1}
    BY <1>3 DEF Server, SendTurn, RecvMove, Disconnected, Ask, RecvAgain, Agreed, Ended,
       ServerKilled
  <2>2. games' >= 1
    BY <1>1, <2>1 DEF PlacesLeft
  <2>3. CASE RecvMove
    <3>1. PICK c : MoveOn(c)
      BY <2>3 DEF RecvMove
    <3>2. pc' # "join"
      BY <3>1 DEF MoveOn
    <3> QED
      BY <2>2, <3>2 DEF PlacesLeft
  <2>4. CASE Agreed
    <3>1. current' = 1 /\ (pc' = "join" => player' = <<>>)
      BY <2>4 DEF Agreed
    <3>2. Len(<<>>) = 0
      OBVIOUS
    <3> QED
      BY <2>2, <3>1, <3>2 DEF PlacesLeft
  <2>5. CASE ~RecvMove /\ ~Agreed
    <3>1. pc' # "join"
      BY <1>3, <2>1, <2>5 DEF Server, SendTurn, Disconnected, Ask, RecvAgain, Ended, ServerKilled
    <3> QED
      BY <2>2, <3>1 DEF PlacesLeft
  <2> QED
    BY <2>3, <2>4, <2>5
<1>4. CASE \E c \in Clients : Client(c)
  BY <1>4, ClientStep DEF PlacesLeft
<1>5. CASE Lose
  BY <1>5 DEF Lose, serverVars, PlacesLeft
<1> QED
  BY <1>2, <1>3, <1>4, <1>5 DEF Next

(* What is under way is a message.                                         *)
LEMMA MailTypeNext ==
  ASSUME TypeOK, MailType, Next
  PROVE  MailType'
<1>1. CASE Server
  <2>1. /\ games' \in Nat /\ lost' \in Nat /\ inbox' \in [Clients -> Seq(Kinds)]
        /\ toServer' = toServer \/ \E n \in DOMAIN toServer : toServer' = RemoveAt(toServer, n)
    BY <1>1, ServerStep DEF MailType
  <2>2. toServer' \in Seq(Clients \X Payload)
    BY <2>1, LinesLeft DEF MailType
  <2> QED
    BY <2>1, <2>2 DEF MailType
<1>2. ASSUME NEW c \in Clients, Client(c) PROVE MailType'
  <2>1. /\ UNCHANGED <<games, lost>>
        /\ toServer' = toServer \/ \E m \in Payload : Sends(c, m)
        /\ inbox' = inbox \/ \E q \in Seq(Kinds) : inbox' = [inbox EXCEPT ![c] = q]
    BY <1>2, ClientStep
  <2>2. toServer' \in Seq(Clients \X Payload)
    <3>1. ASSUME NEW m \in Payload, Sends(c, m) PROVE toServer' \in Seq(Clients \X Payload)
      BY <3>1, AppendProperties DEF Sends, MailType
    <3> QED
      BY <2>1, <3>1 DEF MailType
  <2>3. inbox' \in [Clients -> Seq(Kinds)]
    BY <2>1 DEF MailType
  <2> QED
    BY <2>1, <2>2, <2>3 DEF MailType
<1>3. CASE Lose
  <2>1. games' = games /\ lost' \in Nat
    BY <1>3 DEF Lose, serverVars, MailType
  <2>2. toServer' \in Seq(Clients \X Payload) /\ inbox' \in [Clients -> Seq(Kinds)]
    <3>1. ASSUME NEW n \in DOMAIN toServer, toServer' = RemoveAt(toServer, n)
          PROVE  toServer' \in Seq(Clients \X Payload)
      BY <3>1, LinesLeft
    <3>2. ASSUME NEW c \in Clients, inbox[c] # <<>>, inbox' = [inbox EXCEPT ![c] = Tail(@)]
          PROVE  inbox' \in [Clients -> Seq(Kinds)]
      BY <3>2, HeadTailProperties DEF MailType
    <3> QED
      BY <1>3, <3>1, <3>2 DEF Lose, MailType
  <2> QED
    BY <2>1, <2>2 DEF MailType
<1> QED
  BY <1>1, <1>2, <1>3 DEF Next

(* Who has not come has nothing under way, and does not play.              *)
LEMMA OutsideNext ==
  ASSUME TypeOK, MailType, OutsideOK, Next
  PROVE  OutsideOK'
<1> SUFFICES ASSUME NEW d \in Clients, cl'[d] = "out"
             PROVE  inbox'[d] = <<>> /\ ~Heard(d)' /\ d \notin Range(player')
  BY DEF OutsideOK
<1>1. ASSUME cl[d] = "out" PROVE inbox[d] = <<>> /\ ~Heard(d) /\ d \notin Range(player)
  BY <1>1 DEF OutsideOK
<1>2. CASE Server
  <2>1. cl[d] = "out" /\ inbox[d] = <<>> /\ ~Heard(d) /\ d \notin Range(player)
    BY <1>1, <1>2, ServerStep
  <2>2. inbox'[d] = <<>>
    BY <1>2, <2>1, ServerStep
  <2>3. ~Heard(d)'
    <3>1. CASE toServer' = toServer
      BY <2>1, <3>1 DEF Heard
    <3> QED
      BY <1>2, <2>1, <3>1, ServerStep, LinesLeft
  <2>4. d \notin Range(player')
    <3>1. CASE player' = player
      BY <2>1, <3>1
    <3>2. CASE player' = <<>>
      BY <3>2 DEF Range
    <3>3. ASSUME NEW n \in DOMAIN toServer, player' = Append(player, toServer[n][1])
          PROVE  d \notin Range(player')
      <4>1. toServer[n] \in Clients \X Payload
        BY <3>3, ElementOfSeq, LenProperties DEF MailType
      <4>2. toServer[n][1] \in Clients /\ toServer[n][1] # d /\ player \in Seq(Clients)
        BY <2>1, <3>3, <4>1 DEF Heard, TypeOK
      <4>3. Range(player') = Range(player) \cup {toServer[n][1]}
        BY <3>3, <4>2, RangeAppend
      <4> QED
        BY <2>1, <4>2, <4>3
    <3> QED
      BY <1>2, <3>1, <3>2, <3>3, ServerStep
  <2> QED
    BY <2>2, <2>3, <2>4
<1>3. ASSUME NEW c \in Clients, Client(c)
      PROVE  inbox'[d] = <<>> /\ ~Heard(d)' /\ d \notin Range(player')
  <2>1. /\ cl'[c] # "out" /\ player' = player
        /\ cl' = cl \/ \E v \in {"recv", "answer", "done"} : cl' = [cl EXCEPT ![c] = v]
        /\ toServer' = toServer \/ \E m \in Payload : Sends(c, m)
        /\ inbox' = inbox \/ \E q \in Seq(Kinds) : inbox' = [inbox EXCEPT ![c] = q]
    BY <1>3, ClientStep
  <2>2. d # c /\ cl[d] = "out"
    BY <2>1 DEF TypeOK
  <2>3. inbox'[d] = inbox[d]
    BY <2>1, <2>2 DEF MailType
  <2>4. ASSUME NEW m \in Payload, Sends(c, m) PROVE Heard(d)' => Heard(d)
    <3>1. toServer' = Append(toServer, <<c, m>>) /\ toServer \in Seq(Clients \X Payload)
      BY <2>4 DEF Sends, MailType
    <3>2. /\ Len(toServer') = Len(toServer) + 1 /\ toServer'[Len(toServer) + 1] = <<c, m>>
          /\ \A k \in 1..Len(toServer) : toServer'[k] = toServer[k]
          /\ DOMAIN toServer = 1..Len(toServer) /\ Len(toServer) \in Nat
          /\ toServer' \in Seq(Clients \X Payload)
      BY <3>1, AppendProperties, LenProperties
    <3>3. DOMAIN toServer' = 1..(Len(toServer) + 1) /\ toServer'[Len(toServer) + 1][1] = c
      BY <3>2, LenProperties
    <3> QED
      BY <2>2, <3>2, <3>3 DEF Heard
  <2>5. Heard(d)' => Heard(d)
    BY <2>1, <2>4 DEF Heard
  <2> QED
    BY <1>1, <2>1, <2>2, <2>3, <2>5
<1>4. CASE Lose
  <2>1. cl[d] = "out" /\ player' = player
    BY <1>4 DEF Lose, serverVars
  <2>2. inbox'[d] = inbox[d]
    BY <1>1, <1>4, <2>1 DEF Lose, MailType
  <2>3. Heard(d)' => Heard(d)
    <3>1. CASE toServer' = toServer
      BY <3>1 DEF Heard
    <3> QED
      BY <1>4, <3>1, LinesLeft DEF Lose
  <2> QED
    BY <1>1, <2>1, <2>2, <2>3
<1> QED
  BY <1>2, <1>3, <1>4 DEF Next

-----------------------------------------------------------------------------
(* The first game, whoever comes.                                          *)

(* Before it there are JOINs of different clients.                         *)
LEMMA FirstJoinsNext ==
  ASSUME TypeOK, MailType, PlacesLeft, OutsideOK, FirstJoins, Next
  PROVE  FirstJoins'
<1> SUFFICES ASSUME Joining' PROVE FirstJoins'
  BY DEF FirstJoins
<1>1. pc' = "join" /\ games' = 0 /\ games \in Nat /\ cl \in [Clients -> {"out", "recv", "answer", "done"}]
  BY DEF Joining, MailType, TypeOK
<1>2. Joining
  <2>1. CASE Server
    <3>1. games' \in {games, games + 1}
      BY <2>1, ServerStep
    <3> QED
      BY <1>1, <3>1 DEF PlacesLeft, Joining
  <2>2. CASE ~Server
    <3>1. UNCHANGED <<pc, games>>
      BY <2>2, ClientStep DEF Next, Lose, serverVars
    <3> QED
      BY <1>1, <3>1 DEF Joining
  <2> QED
    BY <2>1, <2>2
<1>3. /\ OneEach
      /\ \A n \in DOMAIN toServer : toServer[n][2] = Join /\ toServer[n][1] \notin Range(player)
      /\ \A c \in Clients : inbox[c] = <<>> /\ cl[c] # "answer"
  BY <1>2 DEF FirstJoins
<1>4. CASE Joined
  <2>1. PICK n \in DOMAIN toServer :
          /\ toServer' = RemoveAt(toServer, n) /\ UNCHANGED <<inbox, cl>>
          /\ player' \in {player, Append(player, toServer[n][1])}
    BY <1>4 DEF Joined
  <2> DEFINE x == toServer[n][1]
  <2>2. /\ toServer' \in Seq(Clients \X Payload) /\ OneEach'
        /\ \A c \in Clients : Heard(c)' <=> Heard(c) /\ c # x
        /\ \A k \in DOMAIN toServer' : \E m \in DOMAIN toServer : toServer'[k] = toServer[m]
    BY <1>3, <2>1, LineTaken
  <2>3. x \in Clients /\ player \in Seq(Clients)
    BY <2>1, LinesLeft DEF TypeOK
  <2>4. Range(player') \subseteq Range(player) \cup {x}
    BY <2>1, <2>3, RangeAppend
  <2> HIDE DEF x
  <2>5. ASSUME NEW k \in DOMAIN toServer'
        PROVE  toServer'[k][2] = Join /\ toServer'[k][1] \notin Range(player')
    <3>1. PICK m \in DOMAIN toServer : toServer'[k] = toServer[m]
      BY <2>2
    <3>2. toServer[m][2] = Join /\ toServer[m][1] \notin Range(player)
      BY <1>3
    <3>3. PICK y \in Clients : y = toServer'[k][1]
      BY <2>2, ElementOfSeq, LenProperties
    <3>4. Heard(y)'
      BY <3>3 DEF Heard
    <3> QED
      BY <2>2, <2>4, <3>1, <3>2, <3>3, <3>4
  <2> QED
    BY <1>3, <2>1, <2>2, <2>5 DEF FirstJoins
<1>5. ~(Server /\ ~Joined)
  BY <1>2 DEF Joining, Server, SendTurn, RecvMove, Disconnected, Ask, RecvAgain, Agreed, Ended,
     ServerKilled
<1>6. ASSUME NEW c \in Clients, Client(c) PROVE FirstJoins'
  <2>1. Batches(c) = {} /\ pc # "end" /\ player' = player
    BY <1>2, <1>3, <1>6, ClientStep DEF Batches, Joining
  <2>2. CASE JoinGame(c)
    <3>1. /\ cl[c] = "out" /\ cl' = [cl EXCEPT ![c] = "recv"] /\ Sends(c, Join)
          /\ inbox' = inbox
      BY <2>2 DEF JoinGame
    <3>2. ~Heard(c) /\ c \notin Range(player) /\ Join \in Payload
      BY <3>1, PayloadIs DEF OutsideOK
    <3>3. /\ OneEach'
          /\ \A k \in DOMAIN toServer' : \/ toServer'[k] = <<c, Join>>
                                         \/ k \in DOMAIN toServer /\ toServer'[k] = toServer[k]
      BY <1>3, <3>1, <3>2, LineSent
    <3> QED
      BY <1>1, <1>3, <2>1, <3>1, <3>2, <3>3 DEF FirstJoins
  <2>3. CASE Quit(c)
    <3>1. /\ cl' = [cl EXCEPT ![c] = "done"] /\ inbox' = [inbox EXCEPT ![c] = <<>>]
          /\ toServer' = toServer
      BY <2>3 DEF Quit
    <3>2. \A d \in Clients : inbox'[d] = <<>> /\ cl'[d] # "answer"
      BY <1>1, <1>3, <3>1 DEF MailType
    <3> QED
      BY <1>3, <2>1, <3>1, <3>2 DEF FirstJoins, OneEach
  <2> QED
    BY <1>6, <2>1, <2>2, <2>3 DEF Client, ClientRecv, ClientResponse, ClientEof
<1>7. CASE Lose
  <2>1. UNCHANGED <<player, cl>>
        /\ \E n \in DOMAIN toServer : toServer' = RemoveAt(toServer, n) /\ inbox' = inbox
    BY <1>3, <1>7 DEF Lose, serverVars
  <2>2. PICK n \in DOMAIN toServer : toServer' = RemoveAt(toServer, n) /\ inbox' = inbox
    BY <2>1
  <2>3. /\ OneEach'
        /\ \A k \in DOMAIN toServer' : \E m \in DOMAIN toServer : toServer'[k] = toServer[m]
    BY <1>3, <2>2, LineTaken
  <2> QED
    BY <1>3, <2>1, <2>2, <2>3 DEF FirstJoins
<1> QED
  BY <1>4, <1>5, <1>6, <1>7 DEF Next

(* What a client of the first game leaves when it has read: the question   *)
(* is the last message.                                                    *)
LEMMA Reads ==
  ASSUME NEW q \in Seq(Kinds), NEW n \in 1..Len(q)
  PROVE  LET batch == Range(SubSeq(q, 1, n))
             rest == SubSeq(q, n + 1, Len(q))
         IN /\ \A m : m \in Range(q) <=> m \in batch \/ m \in Range(rest)
            /\ \A i \in DOMAIN rest : n + i \in DOMAIN q /\ rest[i] = q[n + i]
                                      /\ (n + i = Len(q) => i = Len(rest))
            /\ \A m : m \in batch => \E j \in DOMAIN q : q[j] = m /\ j <= n
<1> DEFINE head == SubSeq(q, 1, n)
           rest == SubSeq(q, n + 1, Len(q))
<1>1. Len(q) \in Nat /\ DOMAIN q = 1..Len(q) /\ n \in Nat /\ 1 <= n /\ n <= Len(q)
  BY LenProperties
<1>2. /\ head \in Seq(Kinds) /\ Len(head) = n /\ \A i \in 1..n : head[i] = q[i]
      /\ DOMAIN head = 1..n
  <2>1. \A i \in 1..n : q[i] \in Kinds
    BY <1>1, ElementOfSeq
  <2>2. head \in Seq(Kinds) /\ Len(head) = n /\ \A i \in 1..n : head[i] = q[i]
    BY <1>1, <2>1, SubSeqProperties
  <2> QED
    BY <2>2, LenProperties
<1>3. /\ rest \in Seq(Kinds) /\ Len(rest) = Len(q) - n /\ DOMAIN rest = 1..(Len(q) - n)
      /\ \A i \in 1..(Len(q) - n) : rest[i] = q[n + i]
  <2>1. CASE n < Len(q)
    <3>1. rest \in Seq(Kinds) /\ Len(rest) = Len(q) - n
          /\ \A i \in 1..(Len(q) - n) : rest[i] = q[n + i]
      BY <1>1, <2>1, SubSeqProperties
    <3> QED
      BY <3>1, LenProperties
  <2>2. CASE n = Len(q)
    <3>1. rest = <<>> /\ 1..(Len(q) - n) = {}
      BY <1>1, <2>2, SubSeqEmpty
    <3> HIDE DEF rest
    <3>2. Len(q) - n = 0 /\ Len(rest) = 0
      BY <1>1, <2>2, <3>1
    <3>3. rest \in Seq(Kinds)
      BY <3>1
    <3>4. DOMAIN rest = 1..(Len(q) - n)
      <4>1. DOMAIN rest = 1..Len(rest)
        BY <3>3, LenProperties
      <4> QED
        BY <3>2, <4>1
    <3>5. \A i \in 1..(Len(q) - n) : rest[i] = q[n + i]
      BY <3>1
    <3> QED
      BY <3>2, <3>3, <3>4, <3>5
  <2>3. n < Len(q) \/ n = Len(q)
    <3>1. \A a, b \in Nat : a <= b => a < b \/ a = b
      OBVIOUS
    <3> QED
      BY <1>1, <3>1, Zenon
  <2> HIDE DEF rest, head
  <2> QED
    BY <2>1, <2>2, <2>3
<1> HIDE DEF head, rest
<1>4. \A i \in DOMAIN rest : n + i \in DOMAIN q /\ rest[i] = q[n + i]
                             /\ (n + i = Len(q) => i = Len(rest))
  BY <1>1, <1>3
<1>5. \A j \in DOMAIN q : j <= n \/ (j - n \in DOMAIN rest /\ q[j] = rest[j - n])
  BY <1>1, <1>3
<1>6. \A m : m \in Range(head) => \E j \in DOMAIN q : q[j] = m /\ j <= n
  BY <1>1, <1>2 DEF Range
<1>7. \A m : m \in Range(rest) => m \in Range(q)
  BY <1>4 DEF Range
<1>8. \A j \in DOMAIN q : j <= n => q[j] \in Range(head)
  BY <1>1, <1>2 DEF Range
<1>9. ASSUME NEW m, m \in Range(q) PROVE m \in Range(head) \/ m \in Range(rest)
  <2>1. PICK j \in DOMAIN q : q[j] = m
    BY <1>9 DEF Range
  <2> QED
    BY <1>5, <1>8, <2>1 DEF Range
<1>10. \A m : m \in Range(head) => m \in Range(q)
  BY <1>6 DEF Range
<1> QED
  BY <1>4, <1>6, <1>7, <1>9, <1>10 DEF head, rest

(* One more message under way.                                             *)
LEMMA InboxAppend ==
  ASSUME NEW q \in Seq(Kinds), NEW x \in Kinds
  PROVE  /\ Range(Append(q, x)) = Range(q) \cup {x}
         /\ \A i \in DOMAIN Append(q, x) :
              Append(q, x)[i] = x /\ x \notin Range(q) => i = Len(Append(q, x))
<1>1. /\ Append(q, x) \in Seq(Kinds) /\ Len(Append(q, x)) = Len(q) + 1
      /\ \A i \in 1..Len(q) : Append(q, x)[i] = q[i]
      /\ Append(q, x)[Len(q) + 1] = x
  BY AppendProperties
<1>2. DOMAIN q = 1..Len(q) /\ DOMAIN Append(q, x) = 1..(Len(q) + 1) /\ Len(q) \in Nat
  BY <1>1, LenProperties
<1> HIDE DEF Append
<1>3. Range(Append(q, x)) = {Append(q, x)[i] : i \in 1..(Len(q) + 1)}
  BY <1>2 DEF Range
<1>4. Range(q) = {q[i] : i \in 1..Len(q)}
  BY <1>2 DEF Range
<1>5. \A i \in 1..(Len(q) + 1) : i \in 1..Len(q) \/ i = Len(q) + 1
  BY <1>2
<1> QED
  BY <1>1, <1>2, <1>3, <1>4, <1>5

(* Who sends a line has one under way, and the others keep theirs.         *)
LEMMA SentHeard ==
  ASSUME MailType, NEW c \in Clients, NEW m \in Payload, Sends(c, m)
  PROVE  Heard(c)' /\ \A d \in Clients : Heard(d) => Heard(d)'
<1>1. toServer' = Append(toServer, <<c, m>>) /\ toServer \in Seq(Clients \X Payload)
  BY DEF Sends, MailType
<1>2. /\ Len(toServer') = Len(toServer) + 1 /\ toServer'[Len(toServer) + 1] = <<c, m>>
      /\ \A k \in 1..Len(toServer) : toServer'[k] = toServer[k]
      /\ toServer' \in Seq(Clients \X Payload)
  BY <1>1, AppendProperties
<1>3. DOMAIN toServer' = DOMAIN toServer \cup {Len(toServer) + 1}
      /\ DOMAIN toServer = 1..Len(toServer)
  BY <1>1, <1>2
<1>4. toServer'[Len(toServer) + 1][1] = c
  BY <1>2
<1> QED
  BY <1>2, <1>3, <1>4 DEF Heard

(* What a client of the first game does leaves the others theirs, and it   *)
(* answers what it is asked, or leaves.                                    *)
LEMMA FirstClient ==
  ASSUME TypeOK, MailType, FirstGameInv, NEW c \in Clients, Client(c),
         games = 1, lost = 0, pc \notin {"join", "end"}
  PROVE  FirstGameInv'
<1> DEFINE q == inbox[c]
<1>1. /\ UNCHANGED <<transport, pc, current, player, answers, games, lost>>
      /\ \A d \in Clients \ {c} : cl'[d] = cl[d] /\ inbox'[d] = inbox[d]
      /\ toServer' = toServer \/ \E m \in Payload : Sends(c, m)
  <2>1. /\ inbox \in [Clients -> Seq(Kinds)]
        /\ cl \in [Clients -> {"out", "recv", "answer", "done"}]
    BY DEF MailType, TypeOK
  <2>2. \A d \in Clients \ {c} : cl'[d] = cl[d]
    BY <2>1, ClientStep
  <2>3. \A d \in Clients \ {c} : inbox'[d] = inbox[d]
    BY <2>1, ClientStep
  <2> QED
    BY <2>2, <2>3, ClientStep
<1>2. /\ inbox \in [Clients -> Seq(Kinds)] /\ q \in Seq(Kinds)
      /\ cl \in [Clients -> {"out", "recv", "answer", "done"}]
      /\ player \in Seq(Clients) /\ Len(player) = 2 /\ current \in {1, 2}
  BY DEF MailType, TypeOK
<1>3. \A d \in Clients : Heard(d) => Heard(d)'
  <2>1. CASE toServer' = toServer
    BY <2>1 DEF Heard
  <2>2. ASSUME NEW m \in Payload, Sends(c, m) PROVE \A d \in Clients : Heard(d) => Heard(d)'
    BY <2>2, SentHeard
  <2> QED
    BY <1>1, <2>1, <2>2
<1>4. /\ player[1] # player[2]
      /\ pc \in {"turn", "recv", "ask"} =>
           \A d \in Clients : cl[d] # "answer" /\ "again" \notin Range(inbox[d])
      /\ pc = "again" => \A d \in Clients : \A i \in DOMAIN inbox[d] :
           inbox[d][i] = "again" => i = Len(inbox[d]) /\ cl[d] # "answer"
      /\ pc = "recv" => Gone(player[current]) \/ Busy(player[current], "turn")
      /\ pc = "again" /\ Tcp => \A i \in Len(answers) + 1..2 :
           Gone(player[i]) \/ Busy(player[i], "again")
  BY DEF FirstGameInv
<1>5. pc \in {"turn", "recv", "ask", "again"}
  BY DEF TypeOK
(* What its own step must keep.                                            *)
<1>6. /\ pc \in {"turn", "recv", "ask"} => cl'[c] # "answer" /\ "again" \notin Range(inbox'[c])
      /\ pc = "again" => \A i \in DOMAIN inbox'[c] :
           inbox'[c][i] = "again" => i = Len(inbox'[c]) /\ cl'[c] # "answer"
      /\ \A m \in {"turn", "again"} : pc \in {"recv", "again"} /\ (pc = "recv" <=> m = "turn")
           => (Gone(c) \/ Busy(c, m) => Gone(c)' \/ Busy(c, m)')
  <2>1. CASE JoinGame(c)
    <3>1. cl[c] = "out" /\ cl'[c] = "recv" /\ inbox' = inbox
      BY <1>2, <2>1 DEF JoinGame
    <3> QED
      BY <1>3, <1>4, <3>1 DEF Busy, Heard, Gone
  <2>2. CASE Quit(c)
    <3>1. cl'[c] = "done" /\ inbox'[c] = <<>>
      BY <1>2, <2>2 DEF Quit
    <3>2. Range(<<>>) = {} /\ DOMAIN <<>> = {}
      BY DEF Range
    <3> QED
      BY <3>1, <3>2 DEF Gone
  <2>3. CASE ClientEof(c)
    BY <2>3 DEF ClientEof
  <2>4. ASSUME NEW n \in Batches(c), inbox' = [inbox EXCEPT ![c] = SubSeq(@, n + 1, Len(@))],
               NEW batch, batch = Range(SubSeq(q, 1, n)),
               \/ /\ cl[c] = "recv"
                  /\ IF "turn" \in batch THEN cl' = cl /\ \E m \in Payload : Sends(c, m)
                     ELSE IF "again" \in batch
                     THEN cl' = [cl EXCEPT ![c] = "answer"] /\ \E m \in Payload : Sends(c, m)
                     ELSE UNCHANGED <<cl, toServer>>
               \/ cl[c] = "answer" /\ cl'[c] \in {"recv", "done"}
        PROVE  /\ pc \in {"turn", "recv", "ask"} => cl'[c] # "answer" /\ "again" \notin Range(inbox'[c])
               /\ pc = "again" => \A i \in DOMAIN inbox'[c] :
                    inbox'[c][i] = "again" => i = Len(inbox'[c]) /\ cl'[c] # "answer"
               /\ \A m \in {"turn", "again"} : pc \in {"recv", "again"} /\ (pc = "recv" <=> m = "turn")
                    => (Gone(c) \/ Busy(c, m) => Gone(c)' \/ Busy(c, m)')
    <3> DEFINE rest == SubSeq(q, n + 1, Len(q))
    <3>1. n \in 1..Len(q)
      <4>1. Len(q) \in Nat /\ (Len(q) = 0 => q = <<>>)
        BY <1>2, EmptySeq, LenProperties
      <4> QED
        BY <2>4, <4>1 DEF Batches
    <3>2. /\ \A m : m \in Range(q) <=> m \in batch \/ m \in Range(rest)
          /\ \A i \in DOMAIN rest : n + i \in DOMAIN q /\ rest[i] = q[n + i]
                                    /\ (n + i = Len(q) => i = Len(rest))
          /\ \A m : m \in batch => \E j \in DOMAIN q : q[j] = m /\ j <= n
      BY <1>2, <2>4, <3>1, Reads
    <3>3. inbox'[c] = rest /\ Len(q) \in Nat
      BY <1>2, <2>4, LenProperties
    <3>4. q = inbox[c]
      OBVIOUS
    <3>5. pc = "again" /\ "again" \in batch => DOMAIN rest = {} /\ cl[c] # "answer"
      <4>1. SUFFICES ASSUME pc = "again", "again" \in batch
                     PROVE  DOMAIN rest = {} /\ cl[c] # "answer"
        OBVIOUS
      <4>2. PICK j \in DOMAIN q : q[j] = "again" /\ j <= n
        BY <3>2, <4>1
      <4>3. j = Len(q) /\ cl[c] # "answer"
        BY <1>4, <3>4, <4>1, <4>2
      <4>4. n = Len(q)
        BY <3>1, <3>3, <4>2, <4>3
      <4>5. rest = <<>>
        BY <1>2, <3>3, <4>4, SubSeqEmpty
      <4> HIDE DEF q, rest
      <4>6. DOMAIN rest = {}
        <5>1. rest \in Seq(Kinds) /\ Len(rest) = 0
          BY <4>5
        <5>2. DOMAIN rest = 1..Len(rest)
          BY <5>1, LenProperties
        <5> QED
          BY <5>1, <5>2
      <4> QED
        BY <4>3, <4>6
    <3> HIDE DEF q, rest
    <3>6. /\ pc \in {"turn", "recv", "ask"} => cl[c] # "answer" /\ "again" \notin Range(q)
          /\ pc = "again" => \A i \in DOMAIN q :
               q[i] = "again" => i = Len(q) /\ cl[c] # "answer"
      BY <1>4, <3>4
    <3>7. pc = "again" => \A i \in DOMAIN rest :
            rest[i] = "again" => i = Len(rest) /\ cl[c] # "answer" /\ "again" \notin batch
      BY <3>2, <3>5, <3>6
    <3>8. cl'[c] = "answer" => cl[c] = "recv" /\ "again" \in batch
      BY <1>2, <2>4
    <3>9. pc \in {"turn", "recv", "ask"} => cl'[c] # "answer" /\ "again" \notin Range(rest)
      BY <3>2, <3>6, <3>8
    <3>10. pc = "again" => \A i \in DOMAIN rest :
             rest[i] = "again" => i = Len(rest) /\ cl'[c] # "answer"
      BY <3>7, <3>8
    <3>11. ASSUME NEW m \in {"turn", "again"}, pc \in {"recv", "again"}, pc = "recv" <=> m = "turn",
                  Gone(c) \/ Busy(c, m)
           PROVE  Busy(c, m)'
      <4>1. Heard(c)' => Busy(c, m)'
        BY DEF Heard, Busy
      <4>2. CASE Heard(c)
        BY <1>3, <4>1, <4>2
      <4>3. CASE \E x \in Payload : Sends(c, x)
        BY <4>1, <4>3, SentHeard
      <4>4. m \in Range(q) \/ Heard(c)
        BY <2>4, <3>4, <3>11 DEF Gone, Busy, Heard
      <4>5. CASE m \in Range(rest)
        BY <3>3, <4>5 DEF Busy
      <4>6. CASE m \in batch /\ cl[c] = "answer"
        <5>1. m = "again" /\ pc = "again"
          BY <3>6, <3>11, <4>6
        <5> QED
          BY <3>5, <4>6, <5>1
      <4>7. CASE m \in batch /\ cl[c] = "recv"
        <5>1. \E x \in Payload : Sends(c, x)
          BY <2>4, <4>7
        <5> QED
          BY <4>3, <5>1
      <4> QED
        BY <2>4, <3>2, <4>2, <4>4, <4>5, <4>6, <4>7
    <3> QED
      BY <3>3, <3>9, <3>10, <3>11
  <2>5. CASE ClientRecv(c)
    <3>1. PICK n \in Batches(c) :
            LET batch == Range(SubSeq(inbox[c], 1, n)) IN
            /\ inbox' = [inbox EXCEPT ![c] = SubSeq(@, n + 1, Len(@))]
            /\ IF "turn" \in batch
               THEN UNCHANGED cl /\ \E m \in Moves[c] \cup {Bad} : Sends(c, m)
               ELSE IF "again" \in batch
               THEN /\ cl' = [cl EXCEPT ![c] = "answer"]
                    /\ \E a \in {Yes, Bad} : (a = Yes => games < MaxGames) /\ Sends(c, a)
               ELSE UNCHANGED <<cl, toServer>>
      BY <2>5 DEF ClientRecv
    <3>2. PICK batch : batch = Range(SubSeq(q, 1, n))
      OBVIOUS
    <3>3. cl[c] = "recv" /\ Moves[c] \cup {Bad, Yes} \subseteq Payload
      BY <2>5, PayloadIs DEF ClientRecv
    <3>4. IF "turn" \in batch THEN cl' = cl /\ \E m \in Payload : Sends(c, m)
          ELSE IF "again" \in batch
          THEN cl' = [cl EXCEPT ![c] = "answer"] /\ \E m \in Payload : Sends(c, m)
          ELSE UNCHANGED <<cl, toServer>>
      BY <3>1, <3>2, <3>3
    <3> HIDE DEF q
    <3> QED
      BY <2>4, <3>1, <3>2, <3>3, <3>4
  <2>6. CASE ClientResponse(c)
    <3>1. PICK n \in Batches(c) :
            /\ inbox' = [inbox EXCEPT ![c] = SubSeq(@, n + 1, Len(@))]
            /\ cl' = [cl EXCEPT ![c] = IF "end" \in Range(SubSeq(inbox[c], 1, n))
                                       THEN "done" ELSE "recv"]
      BY <2>6 DEF ClientResponse
    <3>2. cl[c] = "answer" /\ cl'[c] \in {"recv", "done"}
      BY <1>2, <2>6, <3>1 DEF ClientResponse
    <3>3. PICK batch : batch = Range(SubSeq(q, 1, n))
      OBVIOUS
    <3> HIDE DEF q
    <3> QED
      BY <2>4, <3>1, <3>2, <3>3
  <2> QED
    BY <2>1, <2>2, <2>3, <2>5, <2>6 DEF Client
<1> HIDE DEF q
<1>7. ASSUME pc' \in {"turn", "recv", "ask"}, NEW d \in Clients
      PROVE  cl'[d] # "answer" /\ "again" \notin Range(inbox'[d])
  BY <1>1, <1>4, <1>6, <1>7
<1>8. ASSUME pc' = "again", NEW d \in Clients, NEW i \in DOMAIN inbox'[d], inbox'[d][i] = "again"
      PROVE  i = Len(inbox'[d]) /\ cl'[d] # "answer"
  BY <1>1, <1>4, <1>6, <1>8
<1>9. ASSUME NEW d \in Clients, NEW m \in {"turn", "again"}, pc \in {"recv", "again"},
             pc = "recv" <=> m = "turn", Gone(d) \/ Busy(d, m)
      PROVE  cl'[d] = "done" \/ m \in Range(inbox'[d]) \/ \E n \in DOMAIN toServer' : toServer'[n][1] = d
  <2>1. CASE d = c
    BY <1>6, <1>9, <2>1 DEF Gone, Busy
  <2>2. CASE d # c
    BY <1>1, <1>3, <1>9, <2>2 DEF Gone, Busy, Heard
  <2> QED
    BY <2>1, <2>2
<1>10. player[1] \in Clients /\ player[2] \in Clients /\ player' = player /\ current' = current
       /\ answers' = answers /\ pc' = pc /\ transport' = transport
  <2>1. DOMAIN player = 1..2 /\ 1 \in 1..2 /\ 2 \in 1..2
    BY <1>2, LenProperties
  <2> QED
    BY <1>1, <1>2, <2>1, ElementOfSeq
<1>11. ASSUME pc' = "recv"
       PROVE  Gone(player[current])' \/ Busy(player[current], "turn")'
  <2> DEFINE d == player[current]
  <2>1. d \in Clients /\ (Gone(d) \/ Busy(d, "turn")) /\ d' = d
    BY <1>2, <1>4, <1>10, <1>11
  <2>2. cl'[d] = "done" \/ "turn" \in Range(inbox'[d]) \/ \E n \in DOMAIN toServer' : toServer'[n][1] = d
    BY <1>9, <1>10, <1>11, <2>1
  <2> QED
    BY <2>1, <2>2 DEF Gone, Busy
<1>12. ASSUME pc' = "again", Tcp', NEW i \in Len(answers') + 1..2
       PROVE  Gone(player[i])' \/ Busy(player[i], "again")'
  <2>1. i \in Len(answers) + 1..2 /\ i \in {1, 2} /\ Tcp
    <3>1. Len(answers) \in Nat /\ i \in Len(answers) + 1..2
      BY <1>10, LenProperties DEF TypeOK
    <3> QED
      BY <1>10, <1>12, <3>1 DEF Tcp
  <2> DEFINE d == player[i]
  <2>2. d \in Clients /\ (Gone(d) \/ Busy(d, "again")) /\ player'[i] = d
    BY <1>4, <1>10, <1>12, <2>1
  <2>3. cl'[d] = "done" \/ "again" \in Range(inbox'[d]) \/ \E n \in DOMAIN toServer' : toServer'[n][1] = d
    BY <1>9, <1>10, <1>12, <2>2
  <2> QED
    BY <2>2, <2>3 DEF Gone, Busy
<1> QED
  BY <1>4, <1>7, <1>8, <1>10, <1>11, <1>12 DEF FirstGameInv


(* The server's steps.                                                     *)
LEMMA FirstNext ==
  ASSUME TypeOK, BoardLegal, MailType, PlacesLeft, FirstJoins, FirstGameInv, Next
  PROVE  FirstGameInv'
<1> SUFFICES ASSUME games' = 1, lost' = 0 PROVE FirstGameInv'
  BY DEF FirstGameInv
<1>1. games \in Nat /\ lost \in Nat /\ inbox \in [Clients -> Seq(Kinds)]
  BY DEF MailType
<1>2. CASE pc' \in {"join", "end"}
  BY <1>2 DEF FirstGameInv
<1> SUFFICES ASSUME pc' \notin {"join", "end"} PROVE FirstGameInv'
  BY <1>2
<1>3. /\ "turn" \in Kinds /\ "again" \in Kinds /\ "turn" # "again"
      /\ ~("again" \in Range(<<>>))
  BY DEF Kinds, Range
<1>4. games = 1 /\ lost = 0 /\ pc \notin {"join", "end"} =>
        /\ player[1] # player[2] /\ player[1] \in Clients /\ player[2] \in Clients
        /\ player[current] \in Clients /\ Range(player) = {player[1], player[2]}
  <2> SUFFICES ASSUME games = 1, lost = 0, pc \notin {"join", "end"}
               PROVE  /\ player[1] # player[2] /\ player[1] \in Clients /\ player[2] \in Clients
                      /\ player[current] \in Clients /\ Range(player) = {player[1], player[2]}
    OBVIOUS
  <2>1. player \in Seq(Clients) /\ Len(player) = 2 /\ current \in {1, 2}
    BY DEF TypeOK
  <2>2. DOMAIN player = {1, 2}
    <3>1. DOMAIN player = 1..2
      BY <2>1, LenProperties
    <3> QED
      BY <3>1
  <2>3. player[1] \in Clients /\ player[2] \in Clients
    BY <2>1, <2>2, ElementOfSeq
  <2>4. Range(player) = {player[1], player[2]}
    BY <2>2 DEF Range
  <2> QED
    BY <2>1, <2>3, <2>4 DEF FirstGameInv
<1>5. CASE Joined
  <2>1. PICK n \in DOMAIN toServer :
          /\ player' = Append(player, toServer[n][1]) /\ Len(player') = 2
          /\ pc' = "turn" /\ games' = games + 1
    BY <1>5 DEF Joined
  <2>2. Joining /\ UNCHANGED <<inbox, cl>>
    BY <1>1, <1>5, <2>1 DEF Joined, Joining
  <2>3. /\ toServer[n][1] \notin Range(player)
        /\ \A c \in Clients : inbox[c] = <<>> /\ cl[c] # "answer"
    BY <2>1, <2>2 DEF FirstJoins
  <2>4. player'[1] # player'[2]
    <3>1. toServer[n] \in Clients \X Payload
      BY <2>1, ElementOfSeq, LenProperties DEF MailType
    <3>2. player \in Seq(Clients) /\ toServer[n][1] \in Clients /\ Len(player) \in Nat
      BY <3>1, LenProperties DEF TypeOK
    <3>3. Len(player') = Len(player) + 1 /\ player'[Len(player) + 1] = toServer[n][1]
          /\ \A k \in 1..Len(player) : player'[k] = player[k]
      BY <2>1, <3>2, AppendProperties
    <3>4. Len(player) = 1
      <4>1. Len(player') = 2
        BY <2>1
      <4>2. \A k \in Nat : k + 1 = 2 => k = 1
        OBVIOUS
      <4> QED
        BY <3>2, <3>3, <4>1, <4>2, Zenon
    <3>5. player'[2] = toServer[n][1] /\ player'[1] = player[1] /\ 1 \in DOMAIN player
      BY <3>2, <3>3, <3>4, LenProperties
    <3> QED
      BY <2>3, <3>5 DEF Range
  <2> QED
    BY <1>3, <2>1, <2>2, <2>3, <2>4 DEF FirstGameInv
<1>6. CASE SendTurn
  <2> DEFINE p == player[current]
  <2>1. /\ pc = "turn" /\ pc' = "recv" /\ UNCHANGED <<player, current, games, lost, cl, toServer>>
        /\ inbox' = IF Gone(p) THEN inbox ELSE [inbox EXCEPT ![p] = Append(@, "turn")]
    BY <1>6 DEF SendTurn
  <2>2. games = 1 /\ lost = 0 /\ p \in Clients /\ player[1] # player[2]
    BY <1>4, <2>1
  <2>3. \A c \in Clients : cl[c] # "answer" /\ "again" \notin Range(inbox[c])
    BY <2>1, <2>2 DEF FirstGameInv
  <2>4. p = player[current] /\ p' = p /\ player' = player /\ current' = current
    BY <2>1
  <2> HIDE DEF p
  <2>5. Range(Append(inbox[p], "turn")) = Range(inbox[p]) \cup {"turn"}
    BY <1>1, <1>3, <2>2, InboxAppend
  <2>6. ASSUME NEW c \in Clients PROVE cl'[c] # "answer" /\ "again" \notin Range(inbox'[c])
    BY <1>1, <1>3, <2>1, <2>2, <2>3, <2>5
  <2>7. Gone(p)' \/ Busy(p, "turn")'
    <3>1. CASE Gone(p)
      BY <2>1, <2>4, <3>1 DEF Gone
    <3>2. CASE ~Gone(p)
      <4>1. "turn" \in Range(inbox'[p])
        BY <1>1, <2>1, <2>2, <2>5, <3>2
      <4> QED
        BY <2>4, <4>1 DEF Busy
    <3> QED
      BY <3>1, <3>2
  <2> QED
    BY <2>1, <2>2, <2>4, <2>6, <2>7 DEF FirstGameInv
<1>7. CASE RecvMove \/ Disconnected
  <2>1. pc = "recv" /\ UNCHANGED <<player, games, lost, inbox, cl>>
    BY <1>7 DEF RecvMove, Disconnected
  <2>2. pc' \in {"turn", "ask"}
    BY <1>7, <2>1, MoveLegal DEF RecvMove, Disconnected
  <2> QED
    BY <2>1, <2>2 DEF FirstGameInv
<1>8. CASE Ask
  <2>1. /\ pc = "ask" /\ pc' = "again" /\ ToBoth("again") /\ answers' = <<>>
        /\ UNCHANGED <<transport, player, current, games, lost, cl, toServer>>
    BY <1>8 DEF Ask
  <2>2. /\ games = 1 /\ lost = 0 /\ player[1] # player[2]
        /\ player[1] \in Clients /\ player[2] \in Clients /\ Range(player) = {player[1], player[2]}
    BY <1>4, <2>1
  <2>3. \A c \in Clients : cl[c] # "answer" /\ "again" \notin Range(inbox[c])
    BY <2>1, <2>2 DEF FirstGameInv
  <2>4. \A c \in Clients : inbox'[c] = IF c \in Range(player) /\ ~Gone(c)
                                       THEN Append(inbox[c], "again") ELSE inbox[c]
    BY <2>1 DEF ToBoth
  <2>5. ASSUME NEW c \in Clients
        PROVE  /\ cl'[c] # "answer"
               /\ \A i \in DOMAIN inbox'[c] : inbox'[c][i] = "again" => i = Len(inbox'[c])
               /\ c \in Range(player) /\ ~Gone(c) => "again" \in Range(inbox'[c])
    <3>1. inbox[c] \in Seq(Kinds) /\ "again" \notin Range(inbox[c])
      BY <1>1, <2>3
    <3>2. CASE inbox'[c] = inbox[c] /\ ~(c \in Range(player) /\ ~Gone(c))
      BY <2>1, <2>3, <3>1, <3>2 DEF Range
    <3>3. CASE inbox'[c] = Append(inbox[c], "again")
      <4>1. /\ Range(inbox'[c]) = Range(inbox[c]) \cup {"again"}
            /\ \A i \in DOMAIN inbox'[c] : inbox'[c][i] = "again" => i = Len(inbox'[c])
        BY <1>3, <3>1, <3>3, InboxAppend
      <4> QED
        BY <2>1, <2>3, <4>1
    <3> QED
      BY <2>4, <3>2, <3>3
  <2>6. ASSUME NEW i \in Len(answers') + 1..2 PROVE Gone(player[i])' \/ Busy(player[i], "again")'
    <3>1. i \in {1, 2}
      <4>1. Len(answers') = 0
        BY <2>1
      <4> QED
        BY <4>1
    <3>2. player'[i] = player[i] /\ player[i] \in Clients /\ player[i] \in Range(player)
      BY <2>1, <2>2, <3>1
    <3>3. Gone(player[i]) \/ "again" \in Range(inbox'[player[i]])
      BY <2>5, <3>2
    <3> QED
      BY <2>1, <3>2, <3>3 DEF Gone, Busy
  <2> QED
    BY <2>1, <2>2, <2>5, <2>6 DEF FirstGameInv
<1>9. CASE RecvAgain
  <2> DEFINE p == player[Len(answers) + 1]
  <2>1. /\ pc = "again" /\ pc' = "again" /\ Len(answers) < 2 /\ answers' \in Seq(BOOLEAN)
        /\ Len(answers') = Len(answers) + 1 /\ Len(answers) \in Nat
        /\ UNCHANGED <<transport, player, current, games, lost, cl, inbox>>
    <3>1. answers \in Seq(BOOLEAN) /\ Len(answers) \in Nat
      BY LenProperties DEF TypeOK
    <3>2. \E a \in BOOLEAN : answers' = Append(answers, a)
      BY <1>9 DEF RecvAgain
    <3> QED
      BY <1>9, <3>1, <3>2, AppendProperties DEF RecvAgain
  <2>2. games = 1 /\ lost = 0 /\ player[1] # player[2] /\ player[1] \in Clients /\ player[2] \in Clients
    BY <1>4, <2>1
  <2>3. ASSUME Tcp, NEW d \in Clients, d # p, Heard(d) PROVE Heard(d)'
    <3>1. CASE UNCHANGED toServer
      BY <2>3, <3>1 DEF Heard
    <3>2. ASSUME NEW n \in DOMAIN toServer, toServer' = RemoveAt(toServer, n), CanRead(p, n)
          PROVE  Heard(d)'
      <4>1. toServer[n][1] = p
        BY <2>3, <3>2 DEF CanRead
      <4> QED
        BY <2>3, <3>2, <4>1, LinesLeft
    <3> QED
      BY <1>9, <3>1, <3>2 DEF RecvAgain
  <2>4. ASSUME Tcp', NEW i \in Len(answers') + 1..2
        PROVE  Gone(player[i])' \/ Busy(player[i], "again")'
    <3>1. i = 2 /\ Len(answers) = 0 /\ i \in Len(answers) + 1..2 /\ Tcp
      BY <2>1, <2>4 DEF Tcp
    <3>2. p = player[1] /\ player'[i] = player[2]
      BY <2>1, <3>1
    <3>3. Gone(player[2]) \/ Busy(player[2], "again")
      BY <2>1, <2>2, <3>1 DEF FirstGameInv
    <3>4. player[2] \in Clients /\ player[2] # p
      BY <2>2, <3>2
    <3> HIDE DEF p
    <3>5. Heard(player[2]) => Heard(player[2])'
      BY <2>1, <2>3, <3>1, <3>4 DEF Heard
    <3>6. Heard(player[2]) => \E n \in DOMAIN toServer' : toServer'[n][1] = player[2]
      BY <2>1, <3>5 DEF Heard
    <3> QED
      BY <2>1, <3>2, <3>3, <3>6 DEF Gone, Busy, Heard
  <2>5. \A c \in Clients : \A i \in DOMAIN inbox[c] :
          inbox[c][i] = "again" => i = Len(inbox[c]) /\ cl[c] # "answer"
    BY <2>1, <2>2 DEF FirstGameInv
  <2> QED
    BY <2>1, <2>2, <2>4, <2>5 DEF FirstGameInv
<1>10. CASE Agreed
  <2>1. pc = "again" /\ (games' = games + 1 \/ pc' = "join")
    BY <1>10 DEF Agreed
  <2>2. games >= 1
    BY <2>1 DEF PlacesLeft
  <2> QED
    BY <1>1, <2>1, <2>2
<1>11. ~(Ended \/ ServerKilled)
  BY DEF Ended, ServerKilled
<1>12. ASSUME NEW c \in Clients, Client(c) PROVE FirstGameInv'
  <2>1. UNCHANGED <<pc, games, lost>>
    BY <1>12, ClientStep
  <2> QED
    BY <1>12, <2>1, FirstClient
<1>13. ~Lose
  BY <1>1 DEF Lose
<1> QED
  BY <1>5, <1>6, <1>7, <1>8, <1>9, <1>10, <1>11, <1>12, <1>13 DEF Next, Server

-----------------------------------------------------------------------------
(* As long as no more than two have come.                                  *)

(* Once the server has ended, only the types matter.                       *)
LEMMA MailEnded ==
  ASSUME TypeOK, MailInv, Next, pc = "end", MailType'
  PROVE  MailInv'
<1>1. games >= 1 /\ BothCame
  BY DEF MailInv, PlayersOK, Joining
<1>2. ~Server
  BY DEF Server, Joined, SendTurn, RecvMove, Disconnected, Ask, RecvAgain, Agreed, Ended,
         ServerKilled
<1>3. UNCHANGED <<pc, games>> /\ \A d \in Clients : cl[d] # "out" => cl'[d] # "out"
  <2>1. ASSUME NEW c \in Clients, Client(c)
        PROVE  UNCHANGED <<pc, games>> /\ \A d \in Clients : cl[d] # "out" => cl'[d] # "out"
    <3>1. /\ UNCHANGED <<pc, games>> /\ cl'[c] # "out"
          /\ cl' = cl \/ \E v \in {"recv", "answer", "done"} : cl' = [cl EXCEPT ![c] = v]
      BY <2>1, ClientStep DEF MailInv
    <3> QED
      BY <3>1 DEF TypeOK
  <2>2. CASE Lose
    BY <2>2 DEF Lose, serverVars
  <2> QED
    BY <1>2, <2>1, <2>2 DEF Next
<1>4. BothCame'
  BY <1>1, <1>3 DEF BothCame
<1> QED
  BY <1>1, <1>3, <1>4 DEF MailInv, PlayersOK, Playing

(* The mail.                                                               *)
LEMMA MailNext ==
  ASSUME TypeOK, BoardLegal, OutsideOK, MailInv, TwoCame, TwoCame', MailType', Next
  PROVE  MailInv'
<1>1. CASE pc = "end"
  BY <1>1, MailEnded
<1>2. CASE pc # "end"
  <2>1. CASE RecvMove
    <3>1. pc' \in {"turn", "ask"}
      BY <2>1, MoveLegal DEF RecvMove
    <3> QED
      BY <2>1, <3>1, MailRecvMove
  <2>2. ASSUME NEW c \in Clients, Client(c) PROVE MailInv'
    <3>1. CASE JoinGame(c)
      BY <1>2, <3>1, MailJoinGame
    <3>2. CASE ClientRecv(c)
      BY <1>2, <3>2, MailClientRecv
    <3>3. CASE ClientResponse(c)
      BY <1>2, <3>3, MailClientResponse
    <3>4. CASE Quit(c)
      BY <1>2, <3>4, MailQuit
    <3> QED
      BY <1>2, <2>2, <3>1, <3>2, <3>3, <3>4 DEF Client, ClientEof
  <2> QED
    BY <1>2, <2>1, <2>2, MailJoined, MailSendTurn, MailDisconnected, MailAsk, MailRecvAgain,
       MailAgreed, MailEnds, MailLose DEF Next, Server
<1> QED
  BY <1>1, <1>2

(* Who has come stays.                                                     *)
LEMMA TwoCameBefore ==
  ASSUME TypeOK, MailType, Next, TwoCame'
  PROVE  TwoCame
<1>1. \A d \in Clients : cl'[d] = "out" => cl[d] = "out"
  <2>1. CASE Server
    BY <2>1, ServerStep
  <2>2. ASSUME NEW c \in Clients, Client(c) PROVE \A d \in Clients : cl'[d] = "out" => cl[d] = "out"
    <3>1. /\ cl'[c] # "out"
          /\ cl' = cl \/ \E v \in {"recv", "answer", "done"} : cl' = [cl EXCEPT ![c] = v]
      BY <2>2, ClientStep
    <3> QED
      BY <3>1 DEF TypeOK
  <2>3. CASE Lose
    BY <2>3 DEF Lose
  <2> QED
    BY <2>1, <2>2, <2>3 DEF Next
<1> QED
  BY <1>1 DEF TwoCame

-----------------------------------------------------------------------------
(* GameInv is inductive.                                                   *)
LEMMA GameInit == Init => GameInv
<1> SUFFICES ASSUME Init PROVE GameInv
  OBVIOUS
<1>1. /\ pc = "join" /\ board = EmptyBoard /\ current = 1 /\ player = <<>> /\ answers = <<>>
      /\ toServer = <<>> /\ inbox = [c \in Clients |-> <<>>] /\ cl = [c \in Clients |-> "out"]
      /\ games = 0 /\ lost = 0
  BY DEF Init
<1>2. /\ player \in Seq(Clients) /\ Len(player) = 0 /\ answers \in Seq(BOOLEAN)
      /\ Len(answers) = 0 /\ toServer \in Seq(Clients \X Payload) /\ <<>> \in Seq(Kinds)
      /\ DOMAIN toServer = {} /\ Range(player) = {}
  BY <1>1, EmptySeq DEF Range
<1>3. TypeOK
  <2>1. EmptyBoard \in [Cells -> {"X", "O", " "}]
    BY NewBoard DEF Boards
  <2>2. Len(player) <= 2 /\ Len(answers) <= 2
    BY <1>2
  <2> QED
    BY <1>1, <1>2, <2>1, <2>2 DEF TypeOK
<1>4. MailType /\ PlayersOK /\ PlacesLeft
  <2>1. Len(player) <= 1
    BY <1>2
  <2> QED
    BY <1>1, <1>2, <2>1 DEF MailType, PlayersOK, PlacesLeft, Playing, Joining, Heard
<1>5. OneEach /\ LinesOK /\ AnswersOK
  BY <1>1, <1>2 DEF OneEach, LinesOK, AnswersOK
<1>6. PromptsOK
  BY <1>1 DEF PromptsOK, Quiet, Gone
<1>7. FirstJoins /\ FirstGameInv /\ OutsideOK
  BY <1>1, <1>2, <1>5 DEF FirstJoins, FirstGameInv, OutsideOK, Heard
<1>8. BoardLegal
  BY <1>1, NewBoardLegal
<1> QED
  BY <1>3, <1>4, <1>5, <1>6, <1>7, <1>8 DEF GameInv, MailInv

(* Every step keeps it, by its parts.                                      *)
LEMMA GameNext == GameInv /\ [Next]_vars => GameInv'
<1> SUFFICES ASSUME GameInv, [Next]_vars PROVE GameInv'
  OBVIOUS
<1>1. CASE Next
  <2>1. TypeOK /\ BoardLegal /\ MailType /\ PlacesLeft /\ OutsideOK /\ FirstJoins /\ FirstGameInv
        /\ (TwoCame => MailInv)
    BY DEF GameInv
  <2>2. TypeOK' /\ BoardLegal'
    BY <1>1, <2>1, TypeNext
  <2>3. MailType' /\ PlacesLeft' /\ OutsideOK'
    BY <1>1, <2>1, MailTypeNext, PlacesNext, OutsideNext
  <2>4. FirstJoins' /\ FirstGameInv'
    BY <1>1, <2>1, FirstJoinsNext, FirstNext
  <2>5. ASSUME TwoCame' PROVE MailInv'
    <3>1. TwoCame
      BY <1>1, <2>1, <2>5, TwoCameBefore
    <3> QED
      BY <1>1, <2>1, <2>3, <2>5, <3>1, MailNext
  <2> QED
    BY <2>2, <2>3, <2>4, <2>5 DEF GameInv
<1>2. CASE UNCHANGED vars
  <2>1. (TypeOK <=> TypeOK') /\ (BoardLegal <=> BoardLegal') /\ (TwoCame <=> TwoCame')
    BY <1>2 DEF vars, serverVars, TypeOK, BoardLegal, Count, TwoCame
  <2>2. (MailType <=> MailType') /\ (OneEach <=> OneEach') /\ (PlayersOK <=> PlayersOK')
    BY <1>2 DEF vars, serverVars, MailType, OneEach, PlayersOK, Playing, BothCame
  <2>3. (LinesOK <=> LinesOK') /\ (PromptsOK <=> PromptsOK') /\ (AnswersOK <=> AnswersOK')
    BY <1>2 DEF vars, serverVars, LinesOK, PromptsOK, AnswersOK, Joining, Heard, Spent, Gone, Tcp
  <2>4. (PlacesLeft <=> PlacesLeft') /\ (OutsideOK <=> OutsideOK') /\ (FirstJoins <=> FirstJoins')
    BY <1>2 DEF vars, serverVars, PlacesLeft, OutsideOK, FirstJoins, OneEach, Joining, Heard
  <2>5. FirstGameInv <=> FirstGameInv'
    BY <1>2 DEF vars, serverVars, FirstGameInv, Gone, Busy, Tcp
  <2>6. pc' = pc
    BY <1>2 DEF vars, serverVars
  <2> QED
    BY <2>1, <2>2, <2>3, <2>4, <2>5, <2>6 DEF GameInv, MailInv
<1> QED
  BY <1>1, <1>2

(* It says what the runs check.                                            *)
LEMMA GameSays ==
  ASSUME GameInv
  PROVE  GameLegal /\ FirstGameGoesOn
<1>1. TypeOK /\ BoardLegal /\ FirstGameInv /\ (TwoCame => MailInv)
  BY DEF GameInv
<1>2. OneTalks
  <2> SUFFICES ASSUME pc = "recv", Strangers = {}
               PROVE  Len(toServer) <= 1 /\ \A n \in DOMAIN toServer : toServer[n][1] = player[current]
    BY DEF OneTalks
  <2>1. TwoCame
    <3>1. player \in Seq(Clients) /\ Len(player) = 2
      BY <1>1 DEF TypeOK
    <3>2. DOMAIN player = {1, 2}
      <4>1. DOMAIN player = 1..2
        BY <3>1, LenProperties
      <4> QED
        BY <4>1
    <3>3. player[1] \in Clients /\ player[2] \in Clients
      BY <3>1, <3>2, ElementOfSeq, LenProperties
    <3>4. Range(player) = {player[1], player[2]}
      BY <3>2 DEF Range
    <3> QED
      BY <3>3, <3>4 DEF TwoCame, Strangers
  <2>2. toServer \in Seq(Clients \X Payload) /\ OneEach /\ LinesOK
    BY <1>1, <2>1 DEF MailInv, MailType
  <2>3. DOMAIN toServer = 1..Len(toServer) /\ Len(toServer) \in Nat
    BY <2>2, LenProperties
  <2>4. ASSUME NEW n \in DOMAIN toServer PROVE toServer[n][1] = player[current]
    <3>1. toServer[n] \in Clients \X Payload
      BY <2>2, <2>3, ElementOfSeq
    <3> QED
      BY <2>2, <3>1 DEF LinesOK, Heard
  <2>5. ASSUME Len(toServer) > 1 PROVE FALSE
    <3>1. 1 \in DOMAIN toServer /\ 2 \in DOMAIN toServer
      BY <2>3, <2>5
    <3> QED
      BY <2>2, <2>4, <3>1 DEF OneEach
  <2> QED
    BY <2>3, <2>4, <2>5
<1>3. FirstGameGoesOn
  BY <1>1 DEF FirstGameInv, FirstGameGoesOn
<1> QED
  BY <1>1, <1>2, <1>3 DEF GameLegal

(* Whatever the clients type, whoever comes or leaves and whatever is      *)
(* lost, the board is one of the rules: the symbols alternate and nobody   *)
(* moves after a win.  And udpServer.c's recvfrom() does not look at who   *)
(* has sent a datagram: as long as nobody but the players has come,        *)
(* nothing but the current player's one line is under way to it while it   *)
(* waits for a move.                                                       *)
THEOREM GameIsLegal == Spec => []GameLegal
<1>1. GameInv /\ [Next]_vars => GameInv'
  BY GameNext
<1>2. Init => GameInv
  BY GameInit
<1>3. GameInv => GameLegal
  BY GameSays
<1> QED
  BY <1>1, <1>2, <1>3, PTL DEF Spec

(* In the first game the server never waits for a player that has nothing  *)
(* to answer, unless a datagram was lost, whoever else sends (a client     *)
(* looks for a prompt among all that one recv() has brought it).           *)
THEOREM FirstGameIsPlayed == Spec => []FirstGameGoesOn
<1>1. GameInv /\ [Next]_vars => GameInv'
  BY GameNext
<1>2. Init => GameInv
  BY GameInit
<1>3. GameInv => FirstGameGoesOn
  BY GameSays
<1> QED
  BY <1>1, <1>2, <1>3, PTL DEF Spec


-----------------------------------------------------------------------------
(* The reliable transfer.                                                  *)

UnderWay(to, kind, s) == net[U!Datagram(to, kind, s)] > 0

(* The server has taken a datagram out of the network.                     *)
ServerHeard == \E s \in U!SeqNums : packets["server"][s] # "none"

(* The client is at its first chunk.                                       *)
AtFirst == at["client"] \in {"send", "await"} /\ chunk["client"] = 1

(* What the server sends follows from what it has stored.                  *)
AnswerInv ==
    /\ \A s \in U!SeqNums :
          UnderWay("client", "ack", s) => packets["server"][s] # "none"
    /\ \A s \in U!SeqNums :
          UnderWay("client", "data", s) => s <= Chunks["server"] /\ ServerHeard
    /\ at["server"] \in {"send", "await"} => ServerHeard

(* The server's answer has number 1, and is taken for an acknowledgement   *)
(* of chunk 1 only while nothing but chunk 1 can have reached the server.  *)
FirstInv ==
    AtFirst => \A s \in U!SeqNums \ {1} :
                  /\ packets["server"][s] = "none"
                  /\ ~UnderWay("server", "data", s)
                  /\ ~UnderWay("server", "ack", s)

(* A receiver still counting has not counted to the end of its array.      *)
CountInv == \A x \in U!Nodes : at[x] = "recv" => received_chunks[x] < MAX_CHUNKS

UdpInv == U!TypeOK /\ AnswerInv /\ FirstInv /\ CountInv /\ U!AckedHasArrived

-----------------------------------------------------------------------------
(* Nothing is under way at the start.                                      *)
LEMMA UdpInvInit == U!Init => UdpInv
  BY U!ReliableUdpAssumption
     DEF U!ReliableUdpAssumption, U!Init, UdpInv, U!TypeOK, AnswerInv, FirstInv,
         CountInv, U!AckedHasArrived, UnderWay, ServerHeard, AtFirst, U!Nothing, U!OwnChunks, U!Nodes,
         U!SeqNums, U!Messages, U!Datagram

(* The network is indexed by datagrams.                                    *)
LEMMA DatagramType ==
  ASSUME NEW to \in U!Nodes, NEW kind \in {"data", "ack"}, NEW s \in U!SeqNums
  PROVE  /\ U!Datagram(to, kind, s) \in U!Messages
         /\ U!Datagram(to, kind, s).to = to
         /\ U!Datagram(to, kind, s).kind = kind
         /\ U!Datagram(to, kind, s).seq_num = s
  BY DEF U!Datagram, U!Messages

(* Every datagram is the one its three fields name.                        *)
LEMMA DatagramEta ==
  ASSUME NEW m \in U!Messages
  PROVE  /\ m.to \in U!Nodes /\ m.kind \in {"data", "ack"} /\ m.seq_num \in U!SeqNums
         /\ m = U!Datagram(m.to, m.kind, m.seq_num)
  BY DEF U!Datagram, U!Messages

(* What NextChunk and Retry do to the variables they share.                *)
MovedOn(x) ==
    /\ at' \in [U!Nodes -> {"send", "await", "recv", "done"}]
    /\ chunk' \in [U!Nodes -> U!SeqNums] /\ \A y \in U!Nodes : chunk'[y] <= Chunks[y]
    /\ retries' \in [U!Nodes -> 0..(MaxRetries - 1)]
    /\ received_chunks' \in [U!Nodes -> 0..MAX_CHUNKS]
    /\ \A y \in U!Nodes \ {x} : /\ at'[y] = at[y] /\ chunk'[y] = chunk[y]
                               /\ received_chunks'[y] = received_chunks[y]
    /\ at'[x] \in {"send", "recv"}
    /\ at'[x] = "recv" => received_chunks'[x] < MAX_CHUNKS
    /\ at'[x] = "send" /\ chunk'[x] = 1 => chunk[x] = 1

(* Going on to the next chunk, or to receiving, keeps the types.           *)
LEMMA NextChunkType ==
  ASSUME U!TypeOK, NEW x \in U!Nodes, U!NextChunk(x)
  PROVE  MovedOn(x)
<1> USE DEF U!TypeOK, U!NextChunk, MovedOn
<1>1. MAX_CHUNKS \in Nat /\ MaxRetries \in Nat \ {0} /\ Chunks[x] \in 1..MAX_CHUNKS
  BY U!ReliableUdpAssumption DEF U!ReliableUdpAssumption
<1>2. chunk[x] \in 1..MAX_CHUNKS /\ chunk[x] <= Chunks[x]
  BY DEF U!SeqNums
<1>3. CASE chunk[x] = Chunks[x]
  BY <1>1, <1>2, <1>3 DEF U!SeqNums
<1>4. CASE chunk[x] # Chunks[x]
  <2>1. chunk[x] + 1 \in U!SeqNums /\ chunk[x] + 1 <= Chunks[x] /\ chunk[x] + 1 # 1
    BY <1>1, <1>2, <1>4 DEF U!SeqNums
  <2> QED
    BY <1>1, <1>4, <2>1
<1> QED
  BY <1>3, <1>4

(* So does a retry, which may also go on to the next chunk.                *)
LEMMA RetryType ==
  ASSUME U!TypeOK, NEW x \in U!Nodes, U!Retry(x)
  PROVE  MovedOn(x)
<1>1. CASE retries[x] + 1 = MaxRetries
  BY <1>1, NextChunkType DEF U!Retry
<1>2. CASE retries[x] + 1 # MaxRetries
  <2>1. MaxRetries \in Nat \ {0} /\ retries[x] \in 0..(MaxRetries - 1)
    BY U!ReliableUdpAssumption DEF U!ReliableUdpAssumption, U!TypeOK
  <2>2. retries[x] + 1 \in 0..(MaxRetries - 1)
    BY <1>2, <2>1
  <2>3. retries' \in [U!Nodes -> 0..(MaxRetries - 1)]
    BY <1>2, <2>2 DEF U!TypeOK, U!Retry
  <2>4. UNCHANGED <<chunk, received_chunks>> /\ at' = [at EXCEPT ![x] = "send"]
    BY <1>2 DEF U!Retry
  <2> QED
    BY <2>3, <2>4 DEF U!TypeOK, MovedOn
<1> QED
  BY <1>1, <1>2

-----------------------------------------------------------------------------
(* Sending a chunk keeps the invariant.                                    *)
LEMMA SendInv ==
  ASSUME UdpInv, NEW x \in U!Nodes, U!Send(x)
  PROVE  UdpInv'
<1> USE DEF UdpInv, U!Send, U!sendVars, U!recvVars
<1> DEFINE d == U!Datagram(U!Other(x), "data", chunk[x])
<1>1. d \in U!Messages /\ U!Other(x) \in U!Nodes /\ chunk[x] \in U!SeqNums
  BY DatagramType DEF U!Other, U!Nodes, U!TypeOK
<1>2. \A m \in U!Messages : net'[m] > 0 => net[m] > 0 \/ m = d
  BY <1>1 DEF U!TypeOK
<1>3. U!TypeOK'
  BY <1>1 DEF U!TypeOK
<1>4. \A to \in U!Nodes, kind \in {"data", "ack"}, s \in U!SeqNums :
         UnderWay(to, kind, s)' => \/ UnderWay(to, kind, s)
                                   \/ to = U!Other(x) /\ kind = "data" /\ s = chunk[x]
  BY <1>1, <1>2, DatagramType DEF UnderWay
<1>5. AnswerInv'
  BY <1>4 DEF AnswerInv, ServerHeard, U!Other, U!Nodes, U!TypeOK
<1>6. FirstInv'
  BY <1>4 DEF FirstInv, AtFirst, U!Other, U!Nodes, U!TypeOK
<1>7. U!AckedHasArrived' /\ CountInv'
  BY DEF U!AckedHasArrived, CountInv, U!TypeOK
<1> QED
  BY <1>3, <1>5, <1>6, <1>7

(* A step of the sender that sends nothing keeps what does not concern the *)
(* acknowledged chunks.                                                    *)
LEMMA MovedInv ==
  ASSUME UdpInv, NEW x \in U!Nodes, at[x] = "await", MovedOn(x),
         net' \in [U!Messages -> Nat], \A k \in U!Messages : net'[k] <= net[k],
         acked' \in [U!Nodes -> SUBSET U!SeqNums], UNCHANGED <<packets, delivered>>
  PROVE  U!TypeOK' /\ AnswerInv' /\ FirstInv' /\ CountInv'
<1> USE DEF UdpInv
<1>1. U!TypeOK'
  BY DEF U!TypeOK, MovedOn
<1>2. \A to \in U!Nodes, kind \in {"data", "ack"}, s \in U!SeqNums :
         UnderWay(to, kind, s)' => UnderWay(to, kind, s)
  BY DatagramType DEF UnderWay, U!TypeOK
<1>3. AnswerInv'
  BY <1>2 DEF AnswerInv, ServerHeard, U!Nodes, MovedOn
<1>4. FirstInv'
  BY <1>2 DEF FirstInv, AtFirst, U!Nodes, MovedOn
<1>5. CountInv'
  BY DEF CountInv, MovedOn
<1> QED
  BY <1>1, <1>3, <1>4, <1>5

(* A timeout keeps the invariant.                                          *)
LEMMA TimeOutInv ==
  ASSUME UdpInv, NEW x \in U!Nodes, U!TimeOut(x)
  PROVE  UdpInv'
<1>1. MovedOn(x)
  BY RetryType DEF UdpInv, U!TimeOut
<1>2. U!AckedHasArrived'
  BY DEF UdpInv, U!AckedHasArrived, U!TimeOut
<1> QED
  BY <1>1, <1>2, MovedInv DEF UdpInv, U!TypeOK, U!TimeOut

(* Taking an acknowledgement, or what looks like one, keeps the invariant: *)
(* it is from the server, so the server has the chunk, or it is the answer *)
(* and the chunk is the first.                                             *)
LEMMA TakeAckInv ==
  ASSUME UdpInv, NEW x \in U!Nodes, NEW m \in U!Messages, U!TakeAck(x, m),
         Chunks["server"] = 1
  PROVE  UdpInv'
<1> USE DEF UdpInv, U!TakeAck
<1>1. MovedOn(x)
  BY RetryType, NextChunkType
<1>2. net' \in [U!Messages -> Nat] /\ \A k \in U!Messages : net'[k] <= net[k]
  BY DEF U!TypeOK
<1>3. m = U!Datagram(m.to, m.kind, m.seq_num)
      /\ m.seq_num \in U!SeqNums /\ m.kind \in {"data", "ack"}
  BY DatagramEta
<1>4. acked' \in [U!Nodes -> SUBSET U!SeqNums]
  BY DEF U!TypeOK
<1>5. x = "client" /\ m.seq_num = chunk[x] => packets["server"][m.seq_num] # "none"
  <2> SUFFICES ASSUME x = "client", m.seq_num = chunk[x]
               PROVE  packets["server"][m.seq_num] # "none"
    OBVIOUS
  <2>1. UnderWay("client", m.kind, m.seq_num)
    BY <1>3 DEF UnderWay
  <2>2. CASE m.kind = "ack"
    BY <1>3, <2>1, <2>2 DEF AnswerInv
  <2>3. CASE m.kind = "data"
    <3>1. m.seq_num = 1 /\ ServerHeard
      BY <1>3, <2>1, <2>3, U!ReliableUdpAssumption
         DEF AnswerInv, U!SeqNums, U!ReliableUdpAssumption
    <3>2. AtFirst
      BY <3>1 DEF AtFirst
    <3> QED
      BY <3>1, <3>2 DEF FirstInv, ServerHeard
  <2> QED
    BY <1>3, <2>2, <2>3
<1>6. U!AckedHasArrived'
  BY <1>5 DEF U!AckedHasArrived, U!TypeOK, U!Nodes
<1> QED
  BY <1>1, <1>2, <1>4, <1>6, MovedInv

(* Receiving a datagram keeps the invariant.                               *)
LEMMA ReceiveInv ==
  ASSUME UdpInv, NEW x \in U!Nodes, NEW m \in U!Messages, U!Receive(x, m)
  PROVE  UdpInv'
<1> USE DEF UdpInv, U!Receive, U!Stored
<1> DEFINE a == U!Datagram(U!Other(x), "ack", m.seq_num)
<1>1. /\ m = U!Datagram(x, m.kind, m.seq_num)
      /\ m.seq_num \in U!SeqNums /\ m.kind \in {"data", "ack"}
  BY DatagramEta
<1>2. a \in U!Messages /\ a # m
  BY <1>1, DatagramType DEF U!Other, U!Nodes
<1>3. \A k \in U!Messages : net'[k] > 0 => net[k] > 0 \/ k = a
  BY <1>2 DEF U!TypeOK
<1>4. /\ packets'[x][m.seq_num] # "none"
      /\ \A s \in U!SeqNums, y \in U!Nodes :
            packets[y][s] # "none" => packets'[y][s] # "none"
      /\ \A s \in U!SeqNums, y \in U!Nodes :
            <<y, s>> # <<x, m.seq_num>> => packets'[y][s] = packets[y][s]
  BY <1>1 DEF U!TypeOK
<1>5. /\ received_chunks[x] < MAX_CHUNKS
      /\ received_chunks' = [received_chunks EXCEPT ![x] = @ + 1]
      /\ at[x] = "recv"
  BY DEF CountInv
<1>6. PICK t \in U!TotalOf(m) :
         /\ at' = IF ~(received_chunks'[x] \in {t, MAX_CHUNKS}) THEN at
                  ELSE [at EXCEPT ![x] = IF x = "client" THEN "done" ELSE "send"]
         /\ delivered' = IF received_chunks'[x] \in {t, MAX_CHUNKS}
                            /\ x = "server" THEN packets'[x] ELSE delivered
  OBVIOUS
<1>7. /\ \A y \in U!Nodes \ {x} : at'[y] = at[y]
      /\ at' \in [U!Nodes -> {"send", "await", "recv", "done"}]
      /\ at'[x] = "recv" => received_chunks'[x] # MAX_CHUNKS
      /\ x = "client" => at'[x] \in {"recv", "done"}
  BY <1>5, <1>6 DEF U!TypeOK
<1>8. packets' \in [U!Nodes -> [U!SeqNums -> {"none", "chunk", "junk"}]]
  BY <1>1 DEF U!TypeOK
<1>9. U!TypeOK'
  <2>1. received_chunks' \in [U!Nodes -> 0..MAX_CHUNKS]
    BY <1>5, U!ReliableUdpAssumption DEF U!TypeOK, U!ReliableUdpAssumption
  <2>2. net' \in [U!Messages -> Nat]
    BY <1>2 DEF U!TypeOK
  <2>3. delivered' \in [U!SeqNums -> {"none", "chunk", "junk"}]
    BY <1>6, <1>8 DEF U!TypeOK
  <2> QED
    BY <1>7, <1>8, <2>1, <2>2, <2>3 DEF U!TypeOK
<1>10. \A to \in U!Nodes, kind \in {"data", "ack"}, s \in U!SeqNums :
          UnderWay(to, kind, s)' =>
             \/ UnderWay(to, kind, s)
             \/ to = U!Other(x) /\ kind = "ack" /\ s = m.seq_num
  BY <1>1, <1>2, <1>3, DatagramType DEF UnderWay, U!Other, U!Nodes
<1>11. ServerHeard => ServerHeard'
  BY <1>4 DEF ServerHeard, U!Nodes
<1>12. x = "server" => ServerHeard'
  BY <1>1, <1>4 DEF ServerHeard
<1>13. AnswerInv'
  BY <1>1, <1>4, <1>7, <1>10, <1>11, <1>12 DEF AnswerInv, U!Other, U!Nodes
<1>14. FirstInv'
  <2>1. CASE x = "client"
    BY <1>7, <2>1 DEF FirstInv, AtFirst
  <2>2. CASE x = "server"
    <3>1. AtFirst' => AtFirst
      BY <1>7, <2>2 DEF AtFirst, U!Nodes
    <3>2. UnderWay("server", m.kind, m.seq_num)
      BY <1>1, <2>2 DEF UnderWay
    <3>3. AtFirst => m.seq_num = 1
      BY <1>1, <3>2 DEF FirstInv
    <3> QED
      BY <1>4, <1>10, <2>2, <3>1, <3>3 DEF FirstInv, U!Other, U!Nodes
  <2> QED
    BY <2>1, <2>2 DEF U!Nodes
<1>15. CountInv'
  <2>1. ASSUME NEW y \in U!Nodes, at'[y] = "recv"
        PROVE  received_chunks'[y] < MAX_CHUNKS
    <3>1. CASE y = x
      BY <1>5, <1>7, <2>1, <3>1, U!ReliableUdpAssumption
         DEF U!TypeOK, U!ReliableUdpAssumption
    <3>2. CASE y # x
      BY <1>5, <1>7, <2>1, <3>2 DEF CountInv, U!TypeOK
    <3> QED
      BY <3>1, <3>2
  <2> QED
    BY <2>1 DEF CountInv
<1>16. U!AckedHasArrived'
  BY <1>4 DEF U!AckedHasArrived, U!TypeOK, U!Nodes
<1> QED
  BY <1>9, <1>13, <1>14, <1>15, <1>16

-----------------------------------------------------------------------------
(* UdpInv is inductive, when the answer is one chunk.                      *)
THEOREM Invariance == ASSUME Chunks["server"] = 1 PROVE U!Spec => []UdpInv
<1>1. UdpInv /\ [U!Next]_U!vars => UdpInv'
  <2> SUFFICES ASSUME UdpInv, [U!Next]_U!vars PROVE UdpInv'
    OBVIOUS
  <2>1. CASE UNCHANGED U!vars
    BY <2>1 DEF U!vars, UdpInv, U!TypeOK, AnswerInv, FirstInv, CountInv,
       U!AckedHasArrived, UnderWay, ServerHeard, AtFirst
  <2>2. CASE U!Next
    BY <2>2, SendInv, TimeOutInv, TakeAckInv, ReceiveInv DEF U!Next, U!Take
  <2> QED
    BY <2>1, <2>2
<1> QED
  BY <1>1, UdpInvInit, PTL DEF U!Spec

(* A chunk for which send_with_retry() returned 0 has reached the server,  *)
(* whatever the network does and however many retries there are.           *)
THEOREM AcknowledgedArrived ==
  ASSUME Chunks["server"] = 1 PROVE U!Spec => []AckedHasArrived
<1>1. UdpInv => AckedHasArrived
  BY DEF UdpInv, AckedHasArrived
<1> QED
  BY <1>1, Invariance, PTL

=============================================================================
