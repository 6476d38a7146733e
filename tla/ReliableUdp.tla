----------------------------- MODULE ReliableUdp -----------------------------
(* The chunked, acknowledged transfer over UDP of networks/partB: client.c *)
(* sends a message in chunks and waits for the answer, server.c receives   *)
(* messages for ever and answers each; both send with send_with_retry() of *)
(* common.h and receive with the same loop.                                *)
(*                                                                         *)
(* A chunk is identified by its seq_num, its text is left out.  Datagrams  *)
(* arrive in any order or never (a lost one stays under way for ever), and *)
(* select() may time out before one that is under way arrives.  A receiver *)
(* does not look at the length of a datagram: where a Packet is awaited,   *)
(* an acknowledgement of four bytes fills seq_num and leaves the rest of   *)
(* the uninitialised struct as it was; where an acknowledgement is         *)
(* awaited, a Packet is read as its seq_num.                               *)
EXTENDS Naturals

CONSTANTS
    Chunks,         \* how many chunks each node has to send
    MaxRetries,     \* the 5 of send_with_retry()
    MAX_CHUNKS

Nodes == {"client", "server"}

ReliableUdpAssumption ==
    /\ MAX_CHUNKS \in Nat /\ MaxRetries \in Nat \ {0}
    /\ Chunks \in [Nodes -> 1..MAX_CHUNKS]

Other(x) == IF x = "client" THEN "server" ELSE "client"
SeqNums == 1..MAX_CHUNKS
Messages == [to : Nodes, kind : {"data", "ack"}, seq_num : SeqNums]

VARIABLES
    net,               \* how many copies of each datagram are under way
    pc,                \* "send", "await": in send_with_retry(); "recv"; "done"
    i,                 \* the chunk being sent
    retries,
    packets,           \* what the receiver's array holds at each position
    received_chunks,
    acked,             \* the chunks for which send_with_retry() returned 0
    delivered          \* the packets[] the server last reassembled, if any

sendVars == <<i, retries, acked>>
recvVars == <<packets, received_chunks, delivered>>
vars == <<net, pc, i, retries, packets, received_chunks, acked, delivered>>

Nothing == [s \in SeqNums |-> "none"]

(* The client receives into the array its own message was split into.      *)
OwnChunks ==
    [s \in SeqNums |-> IF s <= Chunks["client"] THEN "chunk" ELSE "none"]

Init ==
    /\ net = [m \in Messages |-> 0]
    /\ pc = [x \in Nodes |-> IF x = "client" THEN "send" ELSE "recv"]
    /\ i = [x \in Nodes |-> 1]
    /\ retries = [x \in Nodes |-> 0]
    /\ packets = [x \in Nodes |-> IF x = "client" THEN OwnChunks ELSE Nothing]
    /\ received_chunks = [x \in Nodes |-> 0]
    /\ acked = [x \in Nodes |-> {}]
    /\ delivered = Nothing

Datagram(to, kind, s) == [to |-> to, kind |-> kind, seq_num |-> s]

-----------------------------------------------------------------------------
(* send_with_retry(), and the loop over the chunks that calls it.          *)

Send(x) ==
    /\ pc[x] = "send"
    /\ net' = [net EXCEPT ![Datagram(Other(x), "data", i[x])] = @ + 1]
    /\ pc' = [pc EXCEPT ![x] = "await"]
    /\ UNCHANGED <<sendVars, recvVars>>

(* send_with_retry() has returned: its result is ignored.                  *)
NextChunk(x) ==
    /\ retries' = [retries EXCEPT ![x] = 0]
    /\ i' = [i EXCEPT ![x] = IF @ = Chunks[x] THEN 1 ELSE @ + 1]
    /\ pc' = [pc EXCEPT ![x] = IF i[x] = Chunks[x] THEN "recv" ELSE "send"]
    /\ received_chunks' =
          [received_chunks EXCEPT ![x] = IF i[x] = Chunks[x] THEN 0 ELSE @]

(* Mutant: retries are not counted.                                        *)
RetryForever(x) ==
    /\ pc' = [pc EXCEPT ![x] = "send"]
    /\ UNCHANGED <<i, received_chunks, retries>>

Retry(x) ==
    IF retries[x] + 1 = MaxRetries THEN NextChunk(x)
    ELSE /\ retries' = [retries EXCEPT ![x] = @ + 1]
         /\ pc' = [pc EXCEPT ![x] = "send"]
         /\ UNCHANGED <<i, received_chunks>>

TimeOut(x) ==
    /\ pc[x] = "await"
    /\ Retry(x)
    /\ UNCHANGED <<net, acked, packets, delivered>>

(* Mutant: any answer is taken for the acknowledgement.                    *)
TakeAckAny(x, m) ==
    /\ pc[x] = "await" /\ m.to = x /\ net[m] > 0
    /\ net' = [net EXCEPT ![m] = @ - 1]
    /\ acked' = [acked EXCEPT ![x] = @ \cup {i[x]}]
    /\ NextChunk(x)
    /\ UNCHANGED <<packets, delivered>>

(* Whatever arrives is read as an acknowledgement; another number than the *)
(* expected one costs a retry.                                             *)
TakeAck(x, m) ==
    /\ pc[x] = "await" /\ m.to = x /\ net[m] > 0
    /\ net' = [net EXCEPT ![m] = @ - 1]
    /\ IF m.seq_num = i[x]
         THEN /\ acked' = [acked EXCEPT ![x] = @ \cup {i[x]}]
              /\ NextChunk(x)
         ELSE Retry(x) /\ UNCHANGED acked
    /\ UNCHANGED <<packets, delivered>>

-----------------------------------------------------------------------------
(* The receiving loop.  The total_chunks of a datagram too short to hold   *)
(* one is whatever the struct held.                                        *)
TotalOf(m) ==
    IF m.kind = "data" THEN {Chunks[Other(m.to)]} ELSE 0..MAX_CHUNKS

Stored(x, m) ==
    [packets EXCEPT ![x][m.seq_num] = IF m.kind = "data" THEN "chunk" ELSE "junk"]

(* recvfrom, store, count, acknowledge; reassemble after total_chunks.     *)
Receive(x, m) ==
    /\ pc[x] = "recv" /\ m.to = x /\ net[m] > 0
    /\ packets' = Stored(x, m)
    /\ received_chunks' = [received_chunks EXCEPT ![x] = @ + 1]
    /\ net' = [net EXCEPT ![m] = @ - 1,
                          ![Datagram(Other(x), "ack", m.seq_num)] = @ + 1]
    /\ \E total_chunks \in TotalOf(m) :
          LET finished == received_chunks'[x] \in {total_chunks, MAX_CHUNKS}
          IN  /\ pc' = IF ~finished THEN pc
                       ELSE [pc EXCEPT ![x] = IF x = "client" THEN "done"
                                                              ELSE "send"]
              /\ delivered' = IF finished /\ x = "server" THEN packets'[x]
                                                         ELSE delivered
    /\ UNCHANGED <<i, retries, acked>>

Take(x) == \E m \in Messages : TakeAck(x, m) \/ Receive(x, m)

Next == \E x \in Nodes : Send(x) \/ TimeOut(x) \/ Take(x)

Spec == Init /\ [][Next]_vars

(* Programs go on, and select() returns.  Nothing obliges the network to   *)
(* deliver.                                                                *)
Fairness ==
    \A x \in Nodes :
        /\ WF_vars(Send(x))
        /\ WF_vars(TimeOut(x) \/ \E m \in Messages : TakeAck(x, m))

FairSpec == Spec /\ Fairness

-----------------------------------------------------------------------------
(* The values of the variables.                                            *)
TypeOK ==
    /\ net \in [Messages -> Nat]
    /\ pc \in [Nodes -> {"send", "await", "recv", "done"}]
    /\ i \in [Nodes -> SeqNums] /\ \A x \in Nodes : i[x] <= Chunks[x]
    /\ retries \in [Nodes -> 0..(MaxRetries - 1)]
    /\ packets \in [Nodes -> [SeqNums -> {"none", "chunk", "junk"}]]
    /\ received_chunks \in [Nodes -> 0..MAX_CHUNKS]
    /\ acked \in [Nodes -> SUBSET SeqNums]
    /\ delivered \in [SeqNums -> {"none", "chunk", "junk"}]

(* An acknowledged chunk has arrived: when send_with_retry() returns 0 to  *)
(* the client, the server has stored that chunk, although the client takes *)
(* late acknowledgements and even the server's answer for one.             *)
AckedHasArrived ==
    \A s \in acked["client"] : packets["server"][s] # "none"

(* send_with_retry() gives up or succeeds for every chunk: who sends a     *)
(* message gets to the end of it, however many datagrams are lost.         *)
SendingEnds ==
    \A x \in Nodes : pc[x] \in {"send", "await"} ~> pc[x] \in {"recv", "done"}

(* What the server reassembles and prints is the message: it has all       *)
(* chunks of it.                                                           *)
DeliveredWhole ==
    delivered # Nothing =>
        \A s \in 1..Chunks["client"] : delivered[s] = "chunk"

=============================================================================
