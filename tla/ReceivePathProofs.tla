------------------------- MODULE ReceivePathProofs --------------------------
(***************************************************************************)
(* Proofs about ReceivePath, for every value of its constants: any bytes,  *)
(* any checksum, any number of messages.                                   *)
(***************************************************************************)
EXTENDS ReceivePath, SequenceLemmas

Alive == {"ready", "running", "stopped"}

\* The watcher exists from Build to Exit; before there are statistics, there is nothing
\* that it could report.
Life ==
    /\ watcher = "none" <=> main = "start"
    /\ watcher = "dead" <=> main = "exited"
    /\ main \in {"start", "built"} =>
           queue = <<>> /\ handled = <<>> /\ watcher \in {"none", "wait"}
    /\ main \in Alive => st.npkts \in Nat /\ st.nright \in Nat

\* The counters run ahead of the last report by the packet that is in rx_callback.
Counting ==
    main \in Alive =>
        /\ st.npkts = Before(Len(handled) + 1).npkts
                      + (IF watcher \in {"count", "report"} THEN 1 ELSE 0)
        /\ st.nright = Before(Len(handled) + 1).nright
                       + (IF watcher = "report" /\ ok(msg) THEN 1 ELSE 0)

InCallbackLong == watcher \in {"count", "report"} => ~TooShort(msg)

IInv == TypeOK /\ Life /\ Counting /\ InCallbackLong /\ NothingLost /\ CountersAgree

Record == [how : {"dropped", "right", "wrong"}, payload : Seq(Bytes), st : Stats]

\* The payloads of the messages dealt with are a sequence of messages.
LEMMA PayloadsType ==
    ASSUME NEW h \in Seq(Record)
    PROVE  LET p == [k \in 1 .. Len(h) |-> h[k].payload]
           IN  p \in Seq(Seq(Bytes)) /\ Len(p) = Len(h)
<1>1. ASSUME NEW k \in 1 .. Len(h)
      PROVE  h[k].payload \in Seq(Bytes)
    <2>1. h[k] \in Record
        OBVIOUS
    <2> QED
        BY <2>1 DEF Record
<1>2. [k \in 1 .. Len(h) |-> h[k].payload] \in [1 .. Len(h) -> Seq(Bytes)]
    BY <1>1
<1> QED
    BY <1>2, FunctionIsSeq

\* The invariant holds in the initial state.
LEMMA InitIInv == Init => IInv
<1> SUFFICES ASSUME Init PROVE IInv
    OBVIOUS
<1> USE DEF Init, Sink!Init, NoStats
<1>1. TypeOK
    BY ReceiveAssumption DEF TypeOK, Stats
<1>2. Life /\ Counting /\ InCallbackLong /\ CountersAgree
    BY DEF Life, Counting, InCallbackLong, CountersAgree, Alive
<1>3. Payloads = <<>>
    BY DEF Payloads
<1>4. NothingLost
    BY <1>3 DEF NothingLost, InHand
<1> QED
    BY <1>1, <1>2, <1>4 DEF IInv

\* What a step of the sink does to the queue: nothing, or one message more.
LEMMA SinkQueues ==
    ASSUME TypeOK, SinkStep
    PROVE  \/ queue' = queue /\ delivered' = delivered
           \/ \E m \in Seq(Bytes) :
                 queue' = Append(queue, m) /\ delivered' = Append(delivered, m)
<1> USE DEF SinkStep
<1>1. CASE \E b \in Bytes : Sink!Deliver(b)
    <2> PICK b \in Bytes : Sink!Deliver(b)
        BY <1>1
    <2> DEFINE m == Append(got, b)
    <2>1. m \in Seq(Bytes) /\ queue' = Append(queue, m)
        BY DEF TypeOK, Sink!Deliver
    <2> HIDE DEF m
    <2>2. queue' # queue /\ queue'[Len(queue')] = m
        BY <2>1 DEF TypeOK
    <2> QED
        BY <2>1, <2>2
<1>2. CASE UNCHANGED queue
    BY <1>2
<1> QED
    BY <1>1, <1>2
    DEF Sink!Synchronise, Sink!TakeLength, Sink!TakeByte, Sink!GiveUp

\* The queue and the history stay sequences of messages.
LEMMA SinkQueuesType ==
    ASSUME TypeOK, SinkStep
    PROVE  queue' \in Seq(Seq(Bytes)) /\ delivered' \in Seq(Seq(Bytes))
<1>1. queue \in Seq(Seq(Bytes)) /\ delivered \in Seq(Seq(Bytes))
    BY DEF TypeOK
<1>2. ASSUME NEW m \in Seq(Bytes)
      PROVE  /\ Append(queue, m) \in Seq(Seq(Bytes))
             /\ Append(delivered, m) \in Seq(Seq(Bytes))
    BY <1>1
<1> QED
    BY <1>1, <1>2, SinkQueues

\* A step of the sink keeps the types of its own variables.
LEMMA SinkTypes ==
    ASSUME TypeOK, SinkStep
    PROVE  /\ phase' \in {"hunt", "length", "body"} /\ len' \in 0 .. MaxLen
           /\ got' \in Seq(Bytes)
<1>1. /\ phase \in {"hunt", "length", "body"} /\ len \in 0 .. MaxLen /\ got \in Seq(Bytes)
      /\ 0 \in 0 .. MaxLen /\ <<>> \in Seq(Bytes)
    BY ReceiveAssumption DEF TypeOK
<1>2. CASE Sink!Synchronise \/ Sink!GiveUp
    BY <1>1, <1>2 DEF Sink!Synchronise, Sink!GiveUp
<1>3. CASE \E n \in 0 .. MaxLen : Sink!TakeLength(n)
    BY <1>1, <1>3 DEF Sink!TakeLength
<1>4. ASSUME NEW b \in Bytes, Sink!TakeByte(b) \/ Sink!Deliver(b)
      PROVE  /\ phase' \in {"hunt", "length", "body"} /\ len' \in 0 .. MaxLen
             /\ got' \in Seq(Bytes)
    <2>1. Append(got, b) \in Seq(Bytes)
        BY <1>1
    <2> QED
        BY <1>1, <1>4, <2>1 DEF Sink!TakeByte, Sink!Deliver
<1> QED
    BY <1>2, <1>3, <1>4 DEF SinkStep

\* A message counts as right or it does not.
LEMMA RightAdds ==
    ASSUME NEW n \in Int, NEW m
    PROVE  /\ Right(n, m) \in Int
           /\ ok(m) => Right(n, m) = n + 1
           /\ ~ok(m) => Right(n, m) = n
BY DEF Right

\* The counters before a message are counters.
LEMMA BeforeType ==
    ASSUME TypeOK, NEW k \in 1 .. Len(handled) + 1
    PROVE  Before(k) \in Stats
<1>1. handled \in Seq(Record)
    BY DEF TypeOK, Record
<1>2. CASE k = 1
    BY <1>2 DEF Before, Stats
<1>3. CASE k # 1
    <2>1. k - 1 \in 1 .. Len(handled)
        BY <1>1, <1>3
    <2>2. handled[k - 1] \in Record
        BY <1>1, <2>1
    <2> QED
        BY <1>3, <2>2 DEF Before, Record
<1> QED
    BY <1>2, <1>3

\* What the watcher notes of a message it is done with.
LEMMA DoneAppends ==
    ASSUME TypeOK, NEW h \in {"dropped", "right", "wrong"}, Done(h)
    PROVE  /\ Len(handled') = Len(handled) + 1
           /\ \A k \in 1 .. Len(handled) : handled'[k] = handled[k]
           /\ handled'[Len(handled) + 1] = [how |-> h, payload |-> msg, st |-> st]
           /\ Payloads' = Append(Payloads, msg)
           /\ \A k \in 1 .. Len(handled) + 1 : Before(k)' = Before(k)
           /\ Before(Len(handled) + 1)' = st
<1> DEFINE r == [how |-> h, payload |-> msg, st |-> st]
<1>1. handled \in Seq(Record) /\ r \in Record /\ r.payload = msg /\ r.st = st
    BY DEF TypeOK, Record
<1>2. handled' = Append(handled, r)
    BY DEF Done
<1> HIDE DEF r
<1>3. /\ Len(handled) \in Nat /\ Len(handled') = Len(handled) + 1
      /\ \A k \in 1 .. Len(handled) : handled'[k] = handled[k]
      /\ handled'[Len(handled) + 1] = r
    BY <1>1, <1>2
<1>4. Payloads' = Append(Payloads, msg)
    <2>1. Payloads \in Seq(Seq(Bytes)) /\ Len(Payloads) = Len(handled) /\ msg \in Seq(Bytes)
        BY <1>1, PayloadsType DEF TypeOK, Payloads
    <2>2. Append(Payloads, msg) \in Seq(Seq(Bytes)) /\ Len(Append(Payloads, msg)) = Len(handled) + 1
        BY <2>1
    <2>3. handled' \in Seq(Record)
        BY <1>1, <1>2
    <2>4. Payloads' \in Seq(Seq(Bytes)) /\ Len(Payloads') = Len(handled) + 1
        BY <1>3, <2>3, PayloadsType DEF Payloads
    <2>5. \A k \in 1 .. Len(handled) + 1 : Payloads'[k] = Append(Payloads, msg)[k]
        BY <1>1, <1>3, <2>1 DEF Payloads
    <2> QED
        BY <2>2, <2>4, <2>5, SameSequence
<1>5. \A k \in 1 .. Len(handled) + 1 : Before(k)' = Before(k)
    BY <1>3 DEF Before
<1>6. Before(Len(handled) + 1)' = st
    BY <1>1, <1>3 DEF Before
<1> QED
    BY <1>3, <1>4, <1>5, <1>6 DEF r

(***************************************************************************)
(* The invariant, part by part.                                            *)
(***************************************************************************)
LEMMA TypeStep == TypeOK /\ [Next]_vars => TypeOK'
<1> SUFFICES ASSUME TypeOK, [Next]_vars PROVE TypeOK'
    OBVIOUS
<1> USE DEF TypeOK, Stats
<1>1. CASE MainStep
    BY <1>1 DEF MainStep, Build, MakeStats, Run, CloseWindow, Exit, sinkVars
<1>2. CASE SinkStep
    BY <1>2, SinkTypes, SinkQueuesType DEF SinkStep
<1>3. CASE WatcherTakes
    BY <1>3 DEF WatcherTakes, Sink!Take
<1>4. CASE WatcherDrops
    BY <1>4 DEF WatcherDrops, Done, sinkVars
<1>5. CASE CallbackCounts
    BY <1>5 DEF CallbackCounts, sinkVars
<1>6. CASE CallbackCountsRight
    BY <1>6, RightAdds DEF CallbackCountsRight, sinkVars
<1>7. CASE CallbackReports
    BY <1>7 DEF CallbackReports, Done, sinkVars
<1>8. CASE UNCHANGED vars
    BY <1>8 DEF vars
<1> QED
    BY <1>1, <1>2, <1>3, <1>4, <1>5, <1>6, <1>7, <1>8
    DEF Next, WatcherStep, Callback

\* Threads come to life and die only as main() says.
LEMMA LifeStep == TypeOK /\ Life /\ [Next]_vars => Life'
<1> SUFFICES ASSUME TypeOK, Life, [Next]_vars PROVE Life'
    OBVIOUS
<1>0. st \in Stats
    BY DEF TypeOK
<1> USE DEF Life, Alive
<1>1. CASE Build \/ MakeStats
    BY <1>1 DEF Build, MakeStats
<1>2. CASE Run \/ CloseWindow \/ Exit
    BY <1>2 DEF Run, CloseWindow, Exit
<1>3. CASE SinkStep
    BY <1>3 DEF SinkStep
<1>4. CASE WatcherTakes
    BY <1>4 DEF WatcherTakes, Sink!Take
<1>5. CASE WatcherDrops
    BY <1>5 DEF WatcherDrops
<1>6. CASE CallbackCounts
    <2>1. main \in Alive
        BY <1>6 DEF CallbackCounts, TypeOK
    <2>2. st # NoStats
        BY <2>1 DEF NoStats
    <2>3. st'.npkts = st.npkts + 1 /\ st'.nright = st.nright
        BY <1>0, <1>6, <2>2 DEF CallbackCounts, Stats
    <2> QED
        BY <1>6, <2>1, <2>2, <2>3 DEF CallbackCounts
<1>7. CASE CallbackCountsRight
    <2>1. main \in Alive
        BY <1>7 DEF CallbackCountsRight, TypeOK
    <2>2. st'.npkts = st.npkts /\ st'.nright = Right(st.nright, msg)
        BY <1>0, <1>7 DEF CallbackCountsRight, Stats
    <2> QED
        BY <1>7, <2>1, <2>2, RightAdds DEF CallbackCountsRight
<1>8. CASE CallbackReports
    BY <1>8 DEF CallbackReports
<1>9. CASE UNCHANGED vars
    BY <1>9 DEF vars
<1> QED
    BY <1>1, <1>2, <1>3, <1>4, <1>5, <1>6, <1>7, <1>8, <1>9
    DEF Next, MainStep, WatcherStep, Callback

\* rx_callback is only entered with a message long enough.
LEMMA InCallbackLongStep == TypeOK /\ InCallbackLong /\ [Next]_vars => InCallbackLong'
<1> SUFFICES ASSUME TypeOK, InCallbackLong, [Next]_vars PROVE InCallbackLong'
    OBVIOUS
<1> USE DEF InCallbackLong, TooShort
<1>1. CASE MainStep
    BY <1>1 DEF MainStep, Build, MakeStats, Run, CloseWindow, Exit
<1>2. CASE SinkStep
    BY <1>2 DEF SinkStep
<1>3. CASE WatcherTakes \/ WatcherDrops
    BY <1>3 DEF WatcherTakes, WatcherDrops
<1>4. CASE Callback
    BY <1>4 DEF Callback, CallbackCounts, CallbackCountsRight, CallbackReports
<1>5. CASE UNCHANGED vars
    BY <1>5 DEF vars
<1> QED
    BY <1>1, <1>2, <1>3, <1>4, <1>5 DEF Next, WatcherStep

\* The counters stay ahead of the last report by what is being reported.
LEMMA CountingStep == TypeOK /\ Life /\ Counting /\ [Next]_vars => Counting'
<1> SUFFICES ASSUME TypeOK, Life, Counting, [Next]_vars, main' \in Alive PROVE Counting'
    BY DEF Counting
<1> DEFINE B == Before(Len(handled) + 1)
<1>0. st \in Stats /\ Len(handled) + 1 \in 1 .. Len(handled) + 1
    BY DEF TypeOK
<1>B. B.npkts \in Int /\ B.nright \in Int
    BY <1>0, BeforeType DEF Stats
<1>U. UNCHANGED handled => B' = B
    BY DEF Before
<1> HIDE DEF B
<1> USE DEF Counting, Alive
<1>1. CASE Build \/ Run \/ CloseWindow \/ Exit
    BY <1>1 DEF Build, Run, CloseWindow, Exit, Before
<1>2. CASE MakeStats
    BY <1>2 DEF MakeStats, Before, Life
<1>3. CASE SinkStep
    BY <1>3 DEF SinkStep, Before
<1>4. CASE WatcherTakes
    BY <1>4 DEF WatcherTakes, Before
<1>5. CASE WatcherDrops
    BY <1>5, DoneAppends DEF WatcherDrops, Life
<1>6. CASE CallbackCounts
    <2>1. main \in Alive
        BY <1>6 DEF CallbackCounts, TypeOK, Life
    <2>2. st # NoStats
        BY <2>1 DEF NoStats, Life
    <2>3. st'.npkts = st.npkts + 1 /\ st'.nright = st.nright
        BY <1>0, <1>6, <2>2 DEF CallbackCounts, Stats
    <2> QED
        BY <1>0, <1>B, <1>U, <1>6, <2>1, <2>2, <2>3 DEF CallbackCounts, B
<1>7. CASE CallbackCountsRight
    <2>1. st'.npkts = st.npkts /\ st'.nright = Right(st.nright, msg)
        BY <1>0, <1>7 DEF CallbackCountsRight, Stats
    <2> QED
        BY <1>0, <1>B, <1>U, <1>7, <2>1, RightAdds, SMTT(30) DEF CallbackCountsRight, B, Stats
<1>8. CASE CallbackReports
    <2>1. Before(Len(handled) + 1)' = st
        BY <1>8, DoneAppends DEF CallbackReports
    <2> QED
        BY <1>8, <2>1 DEF CallbackReports, Life
<1>9. CASE UNCHANGED vars
    BY <1>9 DEF vars, Before
<1> QED
    BY <1>1, <1>2, <1>3, <1>4, <1>5, <1>6, <1>7, <1>8, <1>9
    DEF Next, MainStep, WatcherStep, Callback

\* What is noted with a message agrees with the counters before it.
LEMMA CountersAgreeStep ==
    TypeOK /\ Life /\ Counting /\ CountersAgree /\ [Next]_vars => CountersAgree'
<1> SUFFICES ASSUME TypeOK, Life, Counting, CountersAgree, [Next]_vars PROVE CountersAgree'
    OBVIOUS
<1>1. CASE UNCHANGED handled
    BY <1>1 DEF CountersAgree, Before
<1>2. ASSUME NEW h \in {"dropped", "right", "wrong"}, Done(h),
             st.npkts = Before(Len(handled) + 1).npkts + (IF h = "dropped" THEN 0 ELSE 1),
             st.nright = Before(Len(handled) + 1).nright + (IF h = "right" THEN 1 ELSE 0)
      PROVE  CountersAgree'
    <2>1. SUFFICES ASSUME NEW k \in 1 .. Len(handled')
                   PROVE  /\ handled'[k].st.npkts = Before(k)'.npkts
                                + (IF handled'[k].how = "dropped" THEN 0 ELSE 1)
                          /\ handled'[k].st.nright = Before(k)'.nright
                                + (IF handled'[k].how = "right" THEN 1 ELSE 0)
        BY DEF CountersAgree
    <2>2. CASE k \in 1 .. Len(handled)
        BY <1>2, <2>2, DoneAppends DEF CountersAgree
    <2>3. CASE k = Len(handled) + 1
        <3>1. handled'[k] = [how |-> h, payload |-> msg, st |-> st]
              /\ Before(k)' = Before(Len(handled) + 1)
            BY <1>2, <2>3, DoneAppends
        <3> QED
            BY <1>2, <3>1
    <2>4. Len(handled') = Len(handled) + 1 /\ Len(handled) \in Nat
        BY <1>2, DoneAppends DEF TypeOK
    <2> QED
        BY <2>2, <2>3, <2>4
<1> DEFINE B == Before(Len(handled) + 1)
<1>B. B.npkts \in Int /\ B.nright \in Int
    <2>1. Len(handled) + 1 \in 1 .. Len(handled) + 1
        BY DEF TypeOK
    <2> QED
        BY <2>1, BeforeType DEF Stats
<1>3. CASE WatcherDrops
    <2>1. st.npkts = B.npkts + 0 /\ st.nright = B.nright + 0
        BY <1>3 DEF WatcherDrops, Counting, Alive, Life, TypeOK
    <2> QED
        BY <1>2, <1>3, <2>1 DEF WatcherDrops
<1>4. CASE CallbackReports
    <2>1. /\ st.npkts = B.npkts + 1
          /\ st.nright = B.nright + (IF ok(msg) THEN 1 ELSE 0)
        BY <1>4 DEF CallbackReports, Counting, Alive, Life, TypeOK
    <2> QED
        BY <1>2, <1>4, <2>1 DEF CallbackReports
<1> QED
    BY <1>1, <1>3, <1>4
    DEF Next, MainStep, WatcherStep, Callback, Build, MakeStats, Run, CloseWindow, Exit,
        SinkStep, WatcherTakes, CallbackCounts, CallbackCountsRight, vars

\* The order of messages, and how each was dealt with: the two halves of NothingLost.
InOrder == main # "exited" => delivered = Payloads \o (InHand \o queue)

\* A message put at the end of the queue is put at the end of them all.
LEMMA MessageAppended ==
    \A a, b, c \in Seq(Seq(Bytes)) : \A m \in Seq(Bytes) :
        a \o (b \o Append(c, m)) = Append(a \o (b \o c), m)
<1> DEFINE S == Seq(Bytes)
<1> SUFFICES ASSUME NEW a \in Seq(S), NEW b \in Seq(S), NEW c \in Seq(S), NEW m \in S
             PROVE  a \o (b \o Append(c, m)) = Append(a \o (b \o c), m)
    OBVIOUS
<1> HIDE DEF S
<1> QED
    BY AppendLast, SMTT(30)

\* A message between those dealt with and the queue belongs to either.
LEMMA MessageBetween ==
    \A a, b \in Seq(Seq(Bytes)) : \A m \in Seq(Bytes) :
        Append(a, m) \o b = a \o (<<m>> \o b)
<1> DEFINE S == Seq(Bytes)
<1> SUFFICES ASSUME NEW a \in Seq(S), NEW b \in Seq(S), NEW m \in S
             PROVE  Append(a, m) \o b = a \o (<<m>> \o b)
    OBVIOUS
<1> HIDE DEF S
<1> QED
    BY BetweenTwo, SMTT(30)

\* No step loses, doubles or reorders a message.
LEMMA InOrderStep == TypeOK /\ Life /\ InOrder /\ [Next]_vars => InOrder'
<1> SUFFICES ASSUME TypeOK, Life, InOrder, [Next]_vars, main' # "exited" PROVE InOrder'
    BY DEF InOrder
<1>0. main # "exited"
    BY DEF Next, MainStep, Build, MakeStats, Run, CloseWindow, Exit, SinkStep, WatcherStep,
           WatcherTakes, WatcherDrops, Callback, CallbackCounts, CallbackCountsRight,
           CallbackReports, vars
<1>1. /\ delivered = Payloads \o (InHand \o queue)
      /\ queue \in Seq(Seq(Bytes)) /\ msg \in Seq(Bytes)
      /\ InHand \in Seq(Seq(Bytes))
    <2>1. queue \in Seq(Seq(Bytes)) /\ msg \in Seq(Bytes)
        BY DEF TypeOK
    <2>2. <<msg>> \in Seq(Seq(Bytes)) /\ <<>> \in Seq(Seq(Bytes))
        BY <2>1
    <2> QED
        BY <1>0, <2>1, <2>2 DEF InOrder, InHand
<1>2. Payloads \in Seq(Seq(Bytes))
    BY PayloadsType DEF Payloads, TypeOK, Record
<1>3. CASE MainStep
    <2>1. InHand' = InHand /\ Payloads' = Payloads
        BY <1>3 DEF MainStep, Build, MakeStats, Run, CloseWindow, Exit, InHand, Payloads, Life
    <2> QED
        BY <1>1, <1>3, <2>1
        DEF InOrder, MainStep, Build, MakeStats, Run, CloseWindow, Exit
<1>4. CASE SinkStep
    <2>1. InHand' = InHand /\ Payloads' = Payloads
        BY <1>4 DEF SinkStep, InHand, Payloads
    <2>2. CASE queue' = queue /\ delivered' = delivered
        BY <1>1, <2>1, <2>2 DEF InOrder
    <2>3. ASSUME NEW m \in Seq(Bytes),
                 queue' = Append(queue, m), delivered' = Append(delivered, m)
          PROVE  InOrder'
        <3>1. Payloads \o (InHand \o Append(queue, m))
                  = Append(Payloads \o (InHand \o queue), m)
            BY <1>1, <1>2, <2>3, MessageAppended, Zenon
        <3> QED
            BY <1>1, <2>1, <2>3, <3>1, Zenon DEF InOrder
    <2> QED
        BY <1>4, <2>2, <2>3, SinkQueues
<1>5. CASE WatcherTakes
    <2>1. /\ InHand = <<>> /\ InHand' = <<Head(queue)>> /\ queue # <<>>
          /\ queue' = Tail(queue) /\ Payloads' = Payloads /\ delivered' = delivered
        BY <1>5 DEF WatcherTakes, Sink!Take, InHand, Payloads
    <2>2. InHand' \o queue' = InHand \o queue
        BY <1>1, <2>1, HeadInFront, NothingBetween
    <2> QED
        BY <1>1, <2>1, <2>2 DEF InOrder
<1>6. CASE CallbackCounts \/ CallbackCountsRight
    <2>1. main # "exited" => watcher' # "dead"
        BY <1>0, <1>6, LifeStep DEF Life, CallbackCounts, CallbackCountsRight
    <2>2. InHand' = InHand /\ Payloads' = Payloads
        BY <1>0, <1>6, <2>1 DEF CallbackCounts, CallbackCountsRight, InHand, Payloads
    <2> QED
        BY <1>1, <1>6, <2>2 DEF InOrder, CallbackCounts, CallbackCountsRight
<1>7. ASSUME NEW h \in {"dropped", "right", "wrong"}, Done(h),
             watcher \in {"check", "report"}, watcher' = "wait",
             UNCHANGED <<queue, delivered>>
      PROVE  InOrder'
    <2>1. InHand = <<msg>> /\ InHand' = <<>> /\ Payloads' = Append(Payloads, msg)
        BY <1>7, DoneAppends DEF InHand
    <2>2. Append(Payloads, msg) \o queue = Payloads \o (<<msg>> \o queue)
        BY <1>1, <1>2, MessageBetween, Zenon
    <2>3. <<>> \o queue = queue
        BY <1>1, NothingBetween
    <2> QED
        BY <1>1, <1>7, <2>1, <2>2, <2>3 DEF InOrder
<1>8. CASE WatcherDrops
    BY <1>7, <1>8 DEF WatcherDrops
<1>9. CASE CallbackReports
    BY <1>7, <1>9 DEF CallbackReports
<1>10. CASE UNCHANGED vars
    <2>1. InHand' = InHand /\ Payloads' = Payloads
        BY <1>10 DEF vars, InHand, Payloads
    <2> QED
        BY <1>1, <1>10, <2>1 DEF InOrder, vars
<1> QED
    BY <1>3, <1>4, <1>5, <1>6, <1>8, <1>9, <1>10 DEF Next, WatcherStep, Callback

DroppedIffShort ==
    \A k \in 1 .. Len(handled) : handled[k].how = "dropped" <=> Len(handled[k].payload) < 3

\* A message is noted as dropped exactly when it is too short.
LEMMA DroppedIffShortStep ==
    TypeOK /\ InCallbackLong /\ DroppedIffShort /\ [Next]_vars => DroppedIffShort'
<1> SUFFICES ASSUME TypeOK, InCallbackLong, DroppedIffShort, [Next]_vars
             PROVE  DroppedIffShort'
    OBVIOUS
<1>0. msg \in Seq(Bytes) /\ Len(handled) \in Nat
    BY DEF TypeOK
<1>1. CASE UNCHANGED handled
    BY <1>1 DEF DroppedIffShort
<1>2. ASSUME NEW h \in {"dropped", "right", "wrong"}, Done(h), h = "dropped" <=> Len(msg) < 3
      PROVE  DroppedIffShort'
    <2>1. Len(handled') = Len(handled) + 1
          /\ handled'[Len(handled) + 1] = [how |-> h, payload |-> msg, st |-> st]
          /\ \A k \in 1 .. Len(handled) : handled'[k] = handled[k]
        BY <1>2, DoneAppends
    <2> QED
        BY <1>0, <1>2, <2>1, SMTT(30) DEF DroppedIffShort
<1>3. CASE WatcherDrops
    BY <1>0, <1>2, <1>3 DEF WatcherDrops, TooShort
<1>4. CASE CallbackReports
    <2>1. ~(Len(msg) < 3)
        BY <1>0, <1>4 DEF CallbackReports, InCallbackLong, TooShort
    <2> QED
        BY <1>2, <1>4, <2>1 DEF CallbackReports
<1> QED
    BY <1>1, <1>3, <1>4
    DEF Next, MainStep, WatcherStep, Callback, Build, MakeStats, Run, CloseWindow, Exit,
        SinkStep, WatcherTakes, CallbackCounts, CallbackCountsRight, vars

\* Every step preserves the invariant.
LEMMA NextIInv == IInv /\ [Next]_vars => IInv'
<1>1. NothingLost <=> InOrder /\ DroppedIffShort
    BY DEF NothingLost, InOrder, DroppedIffShort
<1>2. NothingLost' <=> InOrder' /\ DroppedIffShort'
    BY DEF NothingLost, InOrder, DroppedIffShort
<1> QED
    BY <1>1, <1>2, TypeStep, LifeStep, InCallbackLongStep, CountingStep, CountersAgreeStep,
       InOrderStep, DroppedIffShortStep
    DEF IInv

(***************************************************************************)
(* Whatever the sink delivers, however main(), watcher and sink interleave *)
(* and whenever the program ends, the invariant holds.                     *)
(***************************************************************************)
THEOREM ReceiveInvariant == Spec => []IInv
BY InitIInv, NextIInv, PTL DEF Spec

\* Every variable has its type in every reachable state.
THEOREM ReceiveTypeCorrect == Spec => []TypeOK
BY ReceiveInvariant, PTL DEF IInv

\* No message is lost, doubled or overtaken on its way to rx_callback, and only those
\* too short to hold a byte and its checksum are dropped (ieee_pkt_receiver.py:84).
THEOREM NoMessageLost == Spec => []NothingLost
BY ReceiveInvariant, PTL DEF IInv

\* The numbers that rx_callback prints count the packets reported so far and the right
\* ones among them (receiver.py:85-95).
THEOREM CountersCorrect == Spec => []CountersAgree
BY ReceiveInvariant, PTL DEF IInv

\* The watcher dies with the program only: rx_callback never runs before main() has made
\* the statistics it updates, though the thread it runs in exists before them.
THEOREM WatcherNeverDies == Spec => []WatcherSurvives
<1>1. IInv => WatcherSurvives
    BY DEF IInv, Life, WatcherSurvives
<1> QED
    BY <1>1, ReceiveInvariant, PTL

\* A step of the program is one of the queue, or none.
LEMMA FifoStep == IInv /\ [Next]_vars => [Fifo!Next]_(Fifo!vars)
<1> SUFFICES ASSUME IInv, [Next]_vars PROVE [Fifo!Next]_(Fifo!vars)
    OBVIOUS
<1>0. TypeOK /\ Life /\ NothingLost
    BY DEF IInv
<1>1. /\ delivered \in Seq(Seq(Bytes)) /\ queue \in Seq(Seq(Bytes)) /\ msg \in Seq(Bytes)
      /\ Payloads \in Seq(Seq(Bytes))
    BY <1>0, PayloadsType DEF TypeOK, Record, Payloads
<1>2. CASE UNCHANGED <<delivered, handled>>
    BY <1>2 DEF Fifo!vars, Payloads
<1>3. CASE SinkStep
    <2>1. Payloads' = Payloads
        BY <1>3 DEF SinkStep, Payloads
    <2>2. CASE delivered' = delivered
        BY <2>1, <2>2 DEF Fifo!vars
    <2>3. ASSUME NEW m \in Seq(Bytes), delivered' = Append(delivered, m)
          PROVE  Fifo!Put
        <3>1. delivered' # <<>> /\ delivered'[Len(delivered')] = m
            BY <1>1, <2>3, LastOfAppend
        <3> QED
            BY <2>1, <2>3, <3>1 DEF Fifo!Put
    <2> QED
        BY <1>0, <1>3, <2>2, <2>3, SinkQueues DEF Fifo!Next
<1>4. ASSUME NEW h \in {"dropped", "right", "wrong"}, Done(h),
             watcher \in {"check", "report"}, UNCHANGED delivered
      PROVE  Fifo!Get
    <2>1. delivered = Payloads \o (<<msg>> \o queue)
        BY <1>0, <1>4 DEF Life, NothingLost, InHand
    <2>2. Len(Payloads) < Len(delivered) /\ delivered[Len(Payloads) + 1] = msg
        BY <1>1, <2>1
    <2>3. Payloads' = Append(Payloads, msg)
        BY <1>0, <1>4, DoneAppends
    <2> QED
        BY <1>4, <2>2, <2>3 DEF Fifo!Get
<1>5. CASE WatcherDrops
    BY <1>4, <1>5 DEF WatcherDrops, Fifo!Next
<1>6. CASE CallbackReports
    BY <1>4, <1>6 DEF CallbackReports, Fifo!Next
<1> QED
    BY <1>2, <1>3, <1>5, <1>6
    DEF Next, MainStep, WatcherStep, Callback, Build, MakeStats, Run, CloseWindow, Exit,
        WatcherTakes, CallbackCounts, CallbackCountsRight, vars

(***************************************************************************)
(* Sink, queue, watcher and rx_callback together are a queue.              *)
(***************************************************************************)
THEOREM ReceiverIsFifo == Spec => ImplementsFifo
<1>1. Init => Fifo!Init
    BY DEF Init, Fifo!Init, Payloads
<1> QED
    BY <1>1, FifoStep, ReceiveInvariant, PTL DEF Spec, ImplementsFifo, Fifo!Spec
=============================================================================
