----------------------------- MODULE ReceivePath ----------------------------
(***************************************************************************)
(* The receiver program (receiver.py, ieee_pkt_receiver.py).  Three actors *)
(* share a queue without a limit: the packet sink, in a thread of the flow *)
(* graph, of which Framing says all that matters here; the watcher, a      *)
(* daemon thread that checks the messages and calls rx_callback; and       *)
(* main(), which starts the watcher by building the flow graph, and only   *)
(* then makes the statistics that rx_callback updates.                     *)
(***************************************************************************)
EXTENDS Integers, Sequences

CONSTANTS
    MaxLen, Bytes,  \* as in Framing
    ok(_),          \* whether the checksum of a message longer than 2 bytes holds
    MaxDelivered    \* bound of the model on the messages delivered

ASSUME ReceiveAssumption == MaxLen \in Nat /\ MaxDelivered \in Nat

VARIABLES
    phase, len, got, queue,  \* the sink: see Framing; queue is _rcvd_pktq
    main,       \* "start", "built", "ready", "running", "stopped", "exited"
    watcher,    \* "none", "wait", "check", "count", "report", "dead"
    msg,        \* what the watcher has taken
    st,         \* the statistics: npkts and nright, or NoStats
    delivered,  \* history: every message the sink has queued
    handled     \* history: the messages the watcher is done with, and what came of each

sinkVars == <<phase, len, got>>
vars == <<phase, len, got, queue, main, watcher, msg, st, delivered, handled>>

Sink == INSTANCE Framing

NoStats == [npkts |-> -1, nright |-> -1]

Init ==
    /\ Sink!Init
    /\ main = "start" /\ watcher = "none" /\ msg = <<>>
    /\ st = NoStats /\ delivered = <<>> /\ handled = <<>>

(***************************************************************************)
(* main(): my_top_block(...), st = stats(), tb.Run(True), and the end of   *)
(* the program, which the user may ask for at any time (^C).               *)
(***************************************************************************)
Build ==
    /\ main = "start" /\ main' = "built"
    /\ watcher' = "wait"
    /\ UNCHANGED <<sinkVars, queue, msg, st, delivered, handled>>

MakeStats ==
    /\ main = "built" /\ main' = "ready"
    /\ st' = [npkts |-> 0, nright |-> 0]
    /\ UNCHANGED <<sinkVars, queue, watcher, msg, delivered, handled>>

\* Mutant: the flow graph runs before there are statistics.
Run_Early ==
    /\ main = "built" /\ main' = "running"
    /\ UNCHANGED <<sinkVars, queue, watcher, msg, st, delivered, handled>>
Run ==
    /\ main = "ready" /\ main' = "running"
    /\ UNCHANGED <<sinkVars, queue, watcher, msg, st, delivered, handled>>

CloseWindow ==
    /\ main = "running" /\ main' = "stopped"
    /\ UNCHANGED <<sinkVars, queue, watcher, msg, st, delivered, handled>>

\* The interpreter ends a daemon thread wherever it is.
Exit ==
    /\ main \notin {"start", "exited"} /\ main' = "exited"
    /\ watcher' = "dead"
    /\ UNCHANGED <<sinkVars, queue, msg, st, delivered, handled>>

(***************************************************************************)
(* The sink works while the flow graph runs.                               *)
(***************************************************************************)
SinkStep ==
    /\ main = "running"
    /\ Len(delivered) < MaxDelivered
    /\ \/ Sink!Synchronise
       \/ \E n \in 0 .. MaxLen : Sink!TakeLength(n)
       \/ \E b \in Bytes : Sink!TakeByte(b) \/ Sink!Deliver(b)
       \/ Sink!GiveUp
    /\ delivered' = IF queue' = queue THEN delivered
                    ELSE Append(delivered, queue'[Len(queue')])
    /\ UNCHANGED <<main, watcher, msg, st, handled>>

(***************************************************************************)
(* The watcher: take a message, drop it if it is too short to hold a       *)
(* checksum, and call rx_callback: count, count the right one, report.     *)
(***************************************************************************)
\* Mutant: the newest message first.
WatcherTakes_Newest ==
    /\ watcher = "wait" /\ queue # <<>>
    /\ msg' = queue[Len(queue)] /\ queue' = SubSeq(queue, 1, Len(queue) - 1)
    /\ watcher' = "check"
    /\ UNCHANGED <<sinkVars, main, st, delivered, handled>>
WatcherTakes ==
    /\ watcher = "wait"
    /\ Sink!Take
    /\ msg' = Head(queue) /\ watcher' = "check"
    /\ UNCHANGED <<main, st, delivered, handled>>

TooShort_Three(payload) == Len(payload) <= 3  \* Mutant.
TooShort(payload)       == Len(payload) <= 2

Done(how) == handled' = Append(handled, [how |-> how, payload |-> msg, st |-> st])

\* Mutant: the loop returns instead of going on.
WatcherDrops_Return ==
    /\ watcher = "check" /\ TooShort(msg)
    /\ watcher' = "returned" /\ Done("dropped")
    /\ UNCHANGED <<sinkVars, queue, main, msg, st, delivered>>
WatcherDrops ==
    /\ watcher = "check" /\ TooShort(msg)
    /\ watcher' = "wait" /\ Done("dropped")
    /\ UNCHANGED <<sinkVars, queue, main, msg, st, delivered>>

\* rx_callback begins: st does not exist before main() makes it, and an
\* exception ends the thread.
CallbackCounts ==
    /\ watcher = "check" /\ ~TooShort(msg)
    /\ IF st = NoStats
       THEN watcher' = "dead" /\ UNCHANGED st
       ELSE watcher' = "count" /\ st' = [st EXCEPT !.npkts = @ + 1]
    /\ UNCHANGED <<sinkVars, queue, main, msg, delivered, handled>>

\* Mutant: every packet counts as right.
Right_All(n, payload) == n + 1
Right(n, payload)     == IF ok(payload) THEN n + 1 ELSE n

CallbackCountsRight ==
    /\ watcher = "count" /\ watcher' = "report"
    /\ st' = [st EXCEPT !.nright = Right(@, msg)]
    /\ UNCHANGED <<sinkVars, queue, main, msg, delivered, handled>>

CallbackReports ==
    /\ watcher = "report" /\ watcher' = "wait"
    /\ Done(IF ok(msg) THEN "right" ELSE "wrong")
    /\ UNCHANGED <<sinkVars, queue, main, msg, st, delivered>>

Callback == CallbackCounts \/ CallbackCountsRight \/ CallbackReports
WatcherStep == WatcherTakes \/ WatcherDrops \/ Callback

MainStep == Build \/ MakeStats \/ Run \/ CloseWindow \/ Exit

Next == MainStep \/ SinkStep \/ WatcherStep

Spec == Init /\ [][Next]_vars /\ WF_vars(WatcherStep)
-----------------------------------------------------------------------------
Stats == [npkts : Int, nright : Int]

TypeOK ==
    /\ main \in {"start", "built", "ready", "running", "stopped", "exited"}
    /\ watcher \in {"none", "wait", "check", "count", "report", "dead"}
    /\ phase \in {"hunt", "length", "body"} /\ len \in 0 .. MaxLen
    /\ got \in Seq(Bytes) /\ msg \in Seq(Bytes)
    /\ queue \in Seq(Seq(Bytes)) /\ delivered \in Seq(Seq(Bytes))
    /\ st \in Stats
    /\ handled \in Seq([how : {"dropped", "right", "wrong"}, payload : Seq(Bytes), st : Stats])

Payloads == [k \in 1 .. Len(handled) |-> handled[k].payload]
InHand == IF watcher \in {"check", "count", "report"} THEN <<msg>> ELSE <<>>

\* While the program lives, every message of the sink is in the queue, in the watcher's
\* hands or dealt with, once, in the order of reception; and what is dealt with has been
\* reported, unless it was too short to hold a byte and its checksum.
NothingLost ==
    /\ main # "exited" => delivered = Payloads \o (InHand \o queue)
    /\ \A k \in 1 .. Len(handled) : handled[k].how = "dropped" <=> Len(handled[k].payload) < 3

\* Between the packet sink and rx_callback the program is a queue: the messages are
\* dealt with as the sink delivered them, one at a time; the end of the program may
\* cut the queue off, never disturb it.
Fifo == INSTANCE PacketFifo WITH Packet <- Seq(Bytes), put <- delivered, got <- Payloads
ImplementsFifo == Fifo!Spec

\* The counters that a report prints agree with the reports: each packet counts once,
\* with the one that is reported, and as right only if it is; a dropped one never does.
Before(k) == IF k = 1 THEN [npkts |-> 0, nright |-> 0] ELSE handled[k - 1].st
CountersAgree ==
    \A k \in 1 .. Len(handled) :
        /\ handled[k].st.npkts =
               Before(k).npkts + (IF handled[k].how = "dropped" THEN 0 ELSE 1)
        /\ handled[k].st.nright =
               Before(k).nright + (IF handled[k].how = "right" THEN 1 ELSE 0)

\* Building the flow graph starts the watcher before main() has made the
\* statistics; no message reaches rx_callback in that time, or the watcher would
\* die of an exception and the program go on without one.
WatcherSurvives == watcher = "dead" => main = "exited"

\* The k-th message that the sink queues is dealt with as the k-th, dropped or reported,
\* unless the program ends: whatever came before it and however much comes behind. That the
\* queue is ever empty is not promised: a callback slower than the air never empties it.
EveryMessageHandled ==
    \A k \in 1 .. MaxDelivered :
        Len(delivered) >= k ~> \/ Len(handled) >= k /\ handled[k].payload = delivered[k]
                               \/ main = "exited"
=============================================================================
