-------------------------------- MODULE MCNet --------------------------------
(* The two programs of networks/, side by side: the game server with its   *)
(* clients and the reliable transfer over UDP.  A behaviour is one of      *)
(* TicTacToe or one of ReliableUdp, as part says.                          *)
EXTENDS TicTacToe, TLC

CONSTANTS c1, c2, c3, Chunks, MaxRetries, MAX_CHUNKS

VARIABLES part, net, at, chunk, retries, packets, received_chunks, acked, delivered

(* A message of two chunks, an answer of one, as the server's text has.    *)
MCChunks == [client |-> 2, server |-> 1]

(* Enough cells for each player to win, to lose and to draw.               *)
MCMoves == c1 :> ((0..2) \X (0..2)) \ {<<0, 0>>, <<1, 1>>, <<2, 1>>}
           @@ c2 :> ((0..2) \X (0..2)) \ {<<0, 2>>, <<1, 0>>, <<2, 0>>, <<2, 2>>}
           @@ c3 :> {}

U == INSTANCE ReliableUdp WITH pc <- at, i <- chunk

ASSUME UdpAssumption == U!ReliableUdpAssumption

gameVars == vars
udpVars == <<net, at, chunk, retries, packets, received_chunks, acked, delivered>>

SumInit == part \in {"udp", "game"} /\ Init /\ U!Init /\ (part = "udp" => transport = "udp")

(* Bound: the third client comes over UDP when no datagram is lost, and    *)
(* while it is there the game goes on for two moves.                       *)
Third == cl'[c3] # "out" =>
    /\ ~Tcp /\ lost' = 0
    /\ pc' \in {"turn", "recv"} => Cardinality({c \in Cells : board'[c] # " "}) <= 2

SumNext ==
    \/ part = "udp" /\ U!Next /\ UNCHANGED <<part, gameVars>>
    \/ part = "game" /\ Next /\ Third /\ UNCHANGED <<part, udpVars>>

(* The fairness of ReliableUdp; the game is checked without any.           *)
SumFairness == \A x \in U!Nodes :
    /\ WF_udpVars(part = "udp" /\ U!Send(x))
    /\ WF_udpVars(part = "udp" /\ (U!TimeOut(x) \/ \E m \in U!Messages : U!TakeAck(x, m)))

SumSpec == SumInit /\ [][SumNext]_<<part, udpVars, gameVars>> /\ SumFairness

(* ReliableUdp's AckedHasArrived: what was acknowledged has arrived.       *)
AckedHasArrived == U!AckedHasArrived

(* ReliableUdp's DeliveredWhole: what the server reassembles is whole.     *)
DeliveredWhole == U!DeliveredWhole

(* ReliableUdp's SendingEnds: who sends a message gets to the end of it.   *)
MessageEnds == part = "udp" => U!SendingEnds

=============================================================================
