---------------------------- MODULE TransmitPath ----------------------------
(***************************************************************************)
(* The transmitter program: main() (transmitter.py) hands packets to       *)
(* send_pkt, which queues them for the message source at the head of the   *)
(* flow graph; the source writes their symbols where symbols_to_chips      *)
(* reads them.  The main thread and the flow graph share only the queue.   *)
(* python/ieee802_15_4_pkt.py has a send_pkt of its own, which differs in  *)
(* what it does at the end of the stream.                                  *)
(***************************************************************************)
EXTENDS SymbolsToChips, SequencesExt

CONSTANTS
    msgq_limit,   \* messages the queue holds; insert_tail waits when it is full
    Messages,     \* packets that main() sends
    Sender,       \* whose send_pkt: "transmit_path" or "ieee802_15_4_pkt"
    EofChoices    \* whether a program may end its stream with send_pkt(eof=True)

ASSUME TransmitAssumption ==
    /\ msgq_limit \in Nat \ {0} /\ Messages \in Nat
    /\ Sender \in {"transmit_path", "ieee802_15_4_pkt"}
    /\ EofChoices \subseteq BOOLEAN /\ <<>> \notin Packets

VARIABLES
    sendsEof, \* what this program does at the end of its stream
    main,     \* where the main thread is
    i,        \* packets it has sent
    msgq,     \* the queue of the message source
    source,   \* "running", or "done" once it has met the end of the stream
    handed    \* history: the packets given to send_pkt

txVars == <<vars, sendsEof, main, i, msgq, source, handed>>

Eof == <<>>  \* gr.message(1): a message of another type, with no packet in it

TxInit ==
    /\ Init
    /\ sendsEof \in EofChoices
    /\ main = "loop" /\ i = 0 /\ msgq = <<>>
    /\ source = "running" /\ handed = <<>>

insert_tail(msg) == Len(msgq) < msgq_limit /\ msgq' = Append(msgq, msg)

\* One turn of the loop: send_pkt, then sleep(1).  Mutants: a send_pkt that does
\* not wait for room, one that gives the packet up instead, one that queues the
\* packet in front.
SendPacket_NoWait(pkt) ==
    /\ main = "loop" /\ i < Messages
    /\ msgq' = Append(msgq, pkt)
    /\ handed' = Append(handed, pkt)
    /\ i' = i + 1 /\ main' = "sleep"
    /\ UNCHANGED <<vars, sendsEof, source>>
SendPacket_GivesUp(pkt) ==
    /\ main = "loop" /\ i < Messages
    /\ msgq' = IF Len(msgq) < msgq_limit THEN Append(msgq, pkt) ELSE msgq
    /\ handed' = Append(handed, pkt)
    /\ i' = i + 1 /\ main' = "sleep"
    /\ UNCHANGED <<vars, sendsEof, source>>
SendPacket_InFront(pkt) ==
    /\ main = "loop" /\ i < Messages
    /\ Len(msgq) < msgq_limit /\ msgq' = <<pkt>> \o msgq
    /\ handed' = Append(handed, pkt)
    /\ i' = i + 1 /\ main' = "sleep"
    /\ UNCHANGED <<vars, sendsEof, source>>
SendPacket(pkt) ==
    /\ main = "loop" /\ i < Messages
    /\ insert_tail(pkt)
    /\ handed' = Append(handed, pkt)
    /\ i' = i + 1 /\ main' = "sleep"
    /\ UNCHANGED <<vars, sendsEof, source>>

Wake ==
    /\ main = "sleep" /\ main' = "loop"
    /\ UNCHANGED <<vars, sendsEof, i, msgq, source, handed>>

\* send_pkt(eof=True): the one of transmit_path goes on to build a packet from
\* an FCF it has not computed, and raises UnboundLocalError.  Mutants: the message
\* overtakes the packets, or is made and not queued.
EofRaises == Sender = "transmit_path"
SendEof_InFront ==
    /\ main = "loop" /\ i = Messages /\ sendsEof
    /\ Len(msgq) < msgq_limit /\ msgq' = <<Eof>> \o msgq /\ main' = "wait"
    /\ UNCHANGED <<vars, sendsEof, i, source, handed>>
SendEof_NotQueued ==
    /\ main = "loop" /\ i = Messages /\ sendsEof
    /\ main' = "wait" /\ UNCHANGED msgq
    /\ UNCHANGED <<vars, sendsEof, i, source, handed>>
SendEof ==
    /\ main = "loop" /\ i = Messages /\ sendsEof
    /\ IF EofRaises THEN main' = "raised" /\ UNCHANGED msgq
                    ELSE insert_tail(Eof) /\ main' = "wait"
    /\ UNCHANGED <<vars, sendsEof, i, source, handed>>

\* tb.wait(): it returns when every block is done.
Wait ==
    /\ main = "loop" /\ i = Messages /\ ~sendsEof
    /\ main' = "wait"
    /\ UNCHANGED <<vars, sendsEof, i, msgq, source, handed>>

GraphDone == source = "done" /\ consumed = written

Return ==
    /\ main = "wait" /\ GraphDone
    /\ main' = "done"
    /\ UNCHANGED <<vars, sendsEof, i, msgq, source, handed>>

(***************************************************************************)
(* The flow graph.  The source waits for a message and writes it whole     *)
(* (the buffer of the flow graph is far larger than a packet), or stops at *)
(* the end of the stream; the chip mapper then drains what is left.        *)
(***************************************************************************)
SourceWrites ==
    /\ source = "running" /\ msgq # <<>> /\ Head(msgq) # Eof
    /\ Write(Head(msgq))
    /\ msgq' = Tail(msgq)
    /\ UNCHANGED <<sendsEof, main, i, source, handed>>

SourceStops ==
    /\ source = "running" /\ msgq # <<>> /\ Head(msgq) = Eof
    /\ source' = "done" /\ msgq' = Tail(msgq)
    /\ UNCHANGED <<vars, sendsEof, main, i, handed>>

MapSymbols ==
    /\ \E room \in Room : Work(room)
    /\ UNCHANGED <<sendsEof, main, i, msgq, source, handed>>

MainStep == (\E pkt \in Packets : SendPacket(pkt)) \/ Wake \/ SendEof \/ Wait \/ Return
SourceStep == SourceWrites \/ SourceStops

TxNext == MainStep \/ SourceStep \/ MapSymbols

TxSpec ==
    /\ TxInit /\ [][TxNext]_txVars
    /\ WF_txVars(MainStep) /\ WF_txVars(SourceStep) /\ WF_txVars(MapSymbols)
-----------------------------------------------------------------------------
TxTypeOK ==
    /\ main \in {"loop", "sleep", "wait", "done", "raised"}
    /\ i \in 0 .. Messages /\ source \in {"running", "done"}
    /\ Len(msgq) <= msgq_limit
    /\ Len(handed) = i

\* The packets in the queue: the end of the stream can only be the last of its messages.
Waiting ==
    IF msgq # <<>> /\ msgq[Len(msgq)] = Eof THEN SubSeq(msgq, 1, Len(msgq) - 1) ELSE msgq

\* No packet is lost, doubled or overtaken between send_pkt and the flow graph,
\* however the main thread and the scheduler interleave and though the queue fills;
\* nothing follows the end of the stream.
SentInOrder == queued \o Waiting = handed

\* Between send_pkt and the flow graph the program is a queue: packets come out
\* as main() handed them over, and all of them do, though the queue is bounded and
\* the end of the stream travels in it too.
Fifo == INSTANCE PacketFifo WITH Packet <- Packets, put <- handed, got <- queued
ImplementsFifo == Fifo!FairSpec

\* The source never stops with a packet behind it, and when tb.wait() returns
\* each packet that was handed over has been turned into words.
DoneMeansSent == main = "done" => queued = handed /\ consumed = written

\* A full queue delays main() and never blocks it for good: each packet of the
\* loop is sent, and becomes words.
EveryPacketSent == <>(Len(handed) = Messages /\ consumed = Len(FlattenSeq(handed)))

\* Telling the source that the stream is over ends the program: the source meets
\* the message behind the packets, the flow graph drains, and tb.wait() returns
\* ("tell self.pkt_input we're not sending any more packets", transmit_path.py:291).
EndedStreamFinishes == <>(sendsEof => main = "done")

\* Every program ends: "wait transmission to finish" (transmitter.py:117).
Finishes == <>(main = "done")
=============================================================================
