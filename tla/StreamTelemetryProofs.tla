------------------------- MODULE StreamTelemetryProofs -------------------------
(***************************************************************************)
(* What the telemetry of StreamTelemetry promises, for any number of batches,   *)
(* any bound on the pending receipts and any ring that has room for them.        *)
(*                                                                         *)
(* None of the three promises is inductive by itself.  The argument goes from    *)
(* the receipts to the ring to the logger: the receipts are those of the batches  *)
(* after the last published one (ReceiptsInv), so the bound on them bounds how    *)
(* far the query is ahead; an unpublished batch then lies within reach of the     *)
(* ring's end (RingInv); the list the logger goes through misses none (TodoInv);  *)
(* and the order of the shutdown makes its last list complete (ShutdownInv,        *)
(* CompleteInv).                                                             *)
(***************************************************************************)
EXTENDS StreamTelemetry, FiniteSetTheorems, TLAPS

Ran(b) == [batch |-> b, executed |-> TRUE]

(* A batch has a receipt from record_sink_result until it is published.          *)
ReceiptsInv ==
    /\ last < batch
    /\ exec \in {"sink", "record", "post"} => batch <= MaxBatch
    /\ exec \in {"idle", "sink", "record"} => receipts = last + 1 .. batch - 1
    /\ exec = "post" => receipts = last + 1 .. batch
    /\ ~Live => receipts \in {last + 1 .. batch - 1, last + 1 .. batch}
    /\ batch - 1 - last <= MaxPending
    /\ batch \in receipts => batch - last <= MaxPending

(* The executed batches enter the ring in order, and an unpublished one is         *)
(* followed by no more events than the batches after it and the idle               *)
(* observations since the logger was last up to date.                          *)
RingInv ==
    /\ \A i \in DOMAIN ring : ring[i].executed => ring[i].batch < batch
    /\ \A i, j \in DOMAIN ring :
          i < j /\ ring[i].executed /\ ring[j].executed => ring[i].batch < ring[j].batch
    /\ \A b \in last + 1 .. batch - 1 :
          \E i \in DOMAIN ring :
             ring[i] = Ran(b) /\ i >= Len(ring) - (batch - 1 - b) - idles

(* An event of the logger's list is preceded by those of the unpublished batches  *)
(* before it.                                                                *)
TodoInv ==
    /\ logger # "publish" => todo = <<>>
    /\ \A i \in DOMAIN todo : todo[i].executed => todo[i].batch < batch
    /\ \A i \in DOMAIN todo : todo[i].executed =>
          \A c \in last + 1 .. todo[i].batch - 1 : \E j \in 1 .. i - 1 : todo[j] = Ran(c)

(* The logger is told to finish only when the execution thread has ended, unless  *)
(* run_stream leaves with an exception.                                        *)
ShutdownInv ==
    /\ stopEvent <=> owner \in {"joining", "returned", "raised"}
    /\ final => stopEvent
    /\ stopEvent /\ ~raising => ~Live
    /\ failure # "none" => logger = "exited"
    /\ logger = "exited" /\ failure = "none" => final
    /\ owner = "returned" => ~raising /\ failure = "none" /\ logger = "exited"

(* The list of the last _drain then holds every unpublished batch.               *)
CompleteInv ==
    /\ logger = "publish" /\ final /\ ~raising =>
          \A c \in last + 1 .. batch - 1 : \E j \in DOMAIN todo : todo[j] = Ran(c)
    /\ logger = "exited" /\ failure = "none" /\ ~raising => last = batch - 1
    /\ failure = "none" => published = [b \in 1 .. last |-> b]

IInv ==
    /\ TelemetryTypeOK /\ ReceiptsInv /\ RingInv /\ TodoInv
    /\ ShutdownInv /\ CompleteInv /\ NoFalseAlarm

--------------------------------------------------------------------------------
LEMMA InitInv == Init => IInv
<1> SUFFICES ASSUME Init PROVE IInv
    OBVIOUS
<1> USE TelemetryConstants DEF Init
<1>1. Cardinality(receipts) <= MaxPending
    BY FS_EmptySet
<1>2. TelemetryTypeOK
    <2>1. ring \in Seq(Event) /\ Len(ring) <= Retained
        OBVIOUS
    <2>2. todo \in Seq(Event) /\ Len(todo) <= Retained
        OBVIOUS
    <2>3. published \in Seq(Batches)
        OBVIOUS
    <2>4. batch \in 1 .. MaxBatch + 1 /\ idles \in 0 .. MaxIdle /\ last \in 0 .. MaxBatch
        OBVIOUS
    <2>5. receipts \subseteq Batches
        OBVIOUS
    <2> QED
        BY <1>1, <2>1, <2>2, <2>3, <2>4, <2>5 DEF TelemetryTypeOK
<1>3. ReceiptsInv
    BY DEF ReceiptsInv, Live
<1>4. RingInv /\ TodoInv
    BY DEF RingInv, TodoInv
<1>5. ShutdownInv /\ CompleteInv /\ NoFalseAlarm
    BY DEF ShutdownInv, CompleteInv, NoFalseAlarm
<1> QED
    BY <1>2, <1>3, <1>4, <1>5 DEF IInv

LEMMA EventBatch == \A event \in Event : event.batch \in Nat /\ event.executed \in BOOLEAN
    BY TelemetryConstants DEF Event

(* The ring after an event has entered it. *)
LEMMA PushFacts ==
    ASSUME ring \in Seq(Event), Len(ring) <= Retained, NEW event \in Event
    PROVE  /\ Push(event) \in Seq(Event)
           /\ Len(Push(event)) = IF Len(ring) < Retained THEN Len(ring) + 1 ELSE Retained
           /\ LET gone == IF Len(ring) < Retained THEN 0 ELSE 1
              IN  \A i \in 1 .. Len(Push(event)) :
                     Push(event)[i] =
                        IF i = Len(Push(event)) THEN event ELSE ring[i + gone]
<1> USE TelemetryConstants DEF Push
<1>1. CASE Len(ring) < Retained
    BY <1>1
<1>2. CASE Len(ring) = Retained
    <2>1. ring # <<>>
        BY <1>2
    <2>2. /\ Tail(ring) \in Seq(Event) /\ Len(Tail(ring)) = Retained - 1
          /\ \A i \in 1 .. Retained - 1 : Tail(ring)[i] = ring[i + 1]
        BY <1>2, <2>1
    <2> QED
        BY <1>2, <2>2
<1> QED
    BY <1>1, <1>2

(* How many batches a range of them holds. *)
LEMMA PendingCount ==
    ASSUME NEW a \in Nat, NEW b \in Nat, a <= b
    PROVE  IsFiniteSet(a + 1 .. b) /\ Cardinality(a + 1 .. b) = b - a
<1>1. a + 1 \in Int /\ b \in Int
    OBVIOUS
<1>2. /\ IsFiniteSet(a + 1 .. b)
      /\ Cardinality(a + 1 .. b) = IF a + 1 > b THEN 0 ELSE b - (a + 1) + 1
    BY <1>1, FS_Interval
<1> QED
    BY <1>2

(* The first event of the logger's list, and the list without it. *)
LEMMA TodoFacts ==
    ASSUME todo \in Seq(Event), todo # <<>>
    PROVE  /\ Head(todo) = todo[1] /\ todo[1] \in Event /\ Len(todo) \in Nat \ {0}
           /\ Tail(todo) \in Seq(Event) /\ Len(Tail(todo)) = Len(todo) - 1
           /\ \A i \in 1 .. Len(todo) - 1 : Tail(todo)[i] = todo[i + 1]
    OBVIOUS

(* The first event of the list that the logger has not seen is the next batch. *)
LEMMA UnseenIsNext ==
    ASSUME TelemetryTypeOK, TodoInv, todo # <<>>, ~Seen(Head(todo))
    PROVE  /\ todo[1] = Ran(last + 1)
           /\ last + 1 < batch
<1> DEFINE event == todo[1]
<1>1. /\ event = Head(todo) /\ event \in Event /\ 1 \in DOMAIN todo
    BY TodoFacts DEF TelemetryTypeOK
<1>2. /\ event.batch \in Nat /\ event.executed /\ ~(event.batch <= last)
      /\ event = [batch |-> event.batch, executed |-> TRUE]
    BY <1>1 DEF Seen, Executed, Event
<1>3. event.batch < batch
    BY <1>1, <1>2 DEF TodoInv
<1>4. event.batch = last + 1
    <2> SUFFICES ASSUME last + 1 # event.batch PROVE FALSE
        OBVIOUS
    <2>1. last + 1 \in last + 1 .. event.batch - 1
        BY <1>2 DEF TelemetryTypeOK
    <2>2. PICK j \in 1 .. 1 - 1 : todo[j] = Ran(last + 1)
        BY <1>1, <1>2, <2>1 DEF TodoInv
    <2> QED
        BY <2>2
<1> QED
    BY <1>2, <1>3, <1>4 DEF Ran

LEMMA ReceiptsStep ==
    ASSUME IInv, [Next]_vars
    PROVE  ReceiptsInv'
<1> USE TelemetryConstants DEF IInv, Live
<1>1. TelemetryTypeOK /\ ReceiptsInv
    OBVIOUS
<1>2. CASE Record
    <2>1. receipts = last + 1 .. batch - 1 /\ last < batch
        BY <1>1, <1>2 DEF Record, ReceiptsInv
    <2>2. batch - 1 - last < MaxPending
        <3>1. last \in Nat /\ batch - 1 \in Nat /\ last <= batch - 1
            BY <1>1, <2>1 DEF TelemetryTypeOK
        <3> QED
            BY <1>2, <2>1, <3>1, PendingCount DEF Record
    <2>3. receipts' = last + 1 .. batch
        BY <1>1, <1>2, <2>1 DEF Record, TelemetryTypeOK
    <2> QED
        BY <1>1, <1>2, <2>2, <2>3
        DEF Record, ReceiptsInv, TelemetryTypeOK, loggerVars, ownerVars
<1>3. CASE LoggerPublishes
    <2>1. Head(todo).batch = last + 1 /\ last + 1 < batch
        BY <1>1, <1>3, UnseenIsNext, TodoFacts DEF LoggerPublishes, TelemetryTypeOK, Ran
    <2>2. receipts' = receipts \ {last + 1} /\ last' = last + 1
        BY <1>3, <2>1 DEF LoggerPublishes
    <2>3. \A n \in Nat : receipts = last + 1 .. n => receipts' = last' + 1 .. n
        BY <1>1, <2>2 DEF TelemetryTypeOK
    <2>4. batch \in Nat /\ batch - 1 \in Nat /\ last \in Nat
        BY <1>1 DEF TelemetryTypeOK
    <2>5. UNCHANGED <<exec, batch>>
        BY <1>3 DEF LoggerPublishes, sparkVars
    <2> HIDE DEF Live
    <2>6. Live' = Live
        BY <2>5 DEF Live
    <2> QED
        BY <1>1, <2>1, <2>2, <2>3, <2>4, <2>5, <2>6 DEF ReceiptsInv
<1>4. CASE StartBatch \/ ObserveIdle \/ SinkWrites \/ RecordRaises \/ ObserveStop
    BY <1>1, <1>4
    DEF StartBatch, ObserveIdle, SinkWrites, RecordRaises, ObserveStop, ReceiptsInv,
        TelemetryTypeOK, loggerVars, ownerVars
<1>5. CASE PostProgress
    BY <1>1, <1>5 DEF PostProgress, ReceiptsInv, TelemetryTypeOK, loggerVars, ownerVars
<1>6. CASE LoggerWakes \/ LoggerReads \/ LoggerSkips \/ LoggerFails \/ LoggerBreaks
           \/ LoggerDrained
    BY <1>1, <1>6
    DEF LoggerWakes, LoggerReads, LoggerSkips, LoggerFails, LoggerBreaks, LoggerDrained,
        ReceiptsInv, sparkVars, ownerVars
<1>7. CASE OwnerNext \/ UNCHANGED vars
    BY <1>1, <1>7
    DEF OwnerNext, OwnerStops, StopReturns, StopRaises, OwnerEnds, ReceiptsInv,
        sparkVars, loggerVars, vars
<1> QED
    BY <1>2, <1>3, <1>4, <1>5, <1>6, <1>7 DEF Next, SparkNext, LoggerNext

LEMMA TypesStep ==
    ASSUME IInv, [Next]_vars
    PROVE  TelemetryTypeOK'
<1> USE TelemetryConstants
<1>1. TelemetryTypeOK /\ ReceiptsInv /\ ReceiptsInv'
    BY ReceiptsStep DEF IInv
<1>2. /\ batch' \in 1 .. MaxBatch + 1 /\ last' \in 0 .. MaxBatch
      /\ idles' \in 0 .. MaxIdle /\ receipts' \subseteq Batches
      /\ exec' \in {"idle", "sink", "record", "post", "ended", "broken"}
    <2>1. CASE SparkNext
        <3>1. CASE ObserveIdle
            BY <1>1, <3>1 DEF ObserveIdle, TelemetryTypeOK, loggerVars
        <3>2. CASE PostProgress
            <4>1. batch + 1 \in 1 .. MaxBatch + 1
                BY <1>1, <3>2 DEF PostProgress, TelemetryTypeOK, ReceiptsInv
            <4> QED
                BY <1>1, <3>2, <4>1 DEF PostProgress, TelemetryTypeOK, loggerVars
        <3>3. CASE Record
            <4>1. batch \in Batches
                BY <1>1, <3>3 DEF Record, TelemetryTypeOK, ReceiptsInv, Batches
            <4> QED
                BY <1>1, <3>3, <4>1 DEF Record, TelemetryTypeOK, loggerVars
        <3>4. CASE StartBatch \/ SinkWrites \/ RecordRaises \/ ObserveStop
            BY <1>1, <3>4
            DEF StartBatch, SinkWrites, RecordRaises, ObserveStop, TelemetryTypeOK,
                loggerVars
        <3> QED
            BY <2>1, <3>1, <3>2, <3>3, <3>4 DEF SparkNext
    <2>2. CASE LoggerPublishes
        <3>1. Head(todo).batch = last + 1 /\ last + 1 < batch
            BY <2>2, UnseenIsNext, TodoFacts DEF LoggerPublishes, TelemetryTypeOK, Ran, IInv
        <3> QED
            BY <1>1, <2>2, <3>1, SMTT(60) DEF LoggerPublishes, TelemetryTypeOK, sparkVars
    <2>3. CASE LoggerWakes \/ LoggerReads \/ LoggerSkips \/ LoggerFails \/ LoggerBreaks
               \/ LoggerDrained
        BY <1>1, <2>3
        DEF LoggerWakes, LoggerReads, LoggerSkips, LoggerFails, LoggerBreaks, LoggerDrained,
            TelemetryTypeOK, sparkVars
    <2>4. CASE OwnerNext
        BY <1>1, <2>4
        DEF OwnerNext, OwnerStops, StopReturns, StopRaises, OwnerEnds, TelemetryTypeOK,
            sparkVars, loggerVars
    <2>5. CASE UNCHANGED vars
        BY <1>1, <2>5 DEF TelemetryTypeOK, vars
    <2> QED
        BY <2>1, <2>2, <2>3, <2>4, <2>5 DEF Next, LoggerNext
<1>3. Cardinality(receipts') <= MaxPending
    <2> DEFINE l == last'
               b == batch'
    <2>4. l < b
        BY <1>1 DEF ReceiptsInv
    <2>6. l \in 0 .. MaxBatch /\ b \in 1 .. MaxBatch + 1
        BY <1>2
    <2>5. /\ b - 1 - l <= MaxPending
          /\ b \in receipts' => b - l <= MaxPending
          /\ receipts' \in {l + 1 .. b - 1, l + 1 .. b}
        BY <1>1, <1>2 DEF ReceiptsInv, Live
    <2> HIDE DEF l, b
    <2>1. l \in Nat /\ b \in Nat /\ b - 1 \in Nat /\ l <= b - 1
        BY <2>4, <2>6
    <2>2. CASE receipts' = l + 1 .. b - 1
        BY <2>1, <2>2, <2>5, PendingCount
    <2>3. CASE receipts' = l + 1 .. b
        <3>1. b \in receipts'
            BY <2>1, <2>3
        <3> QED
            BY <2>1, <2>3, <2>5, <3>1, PendingCount
    <2> QED
        BY <2>2, <2>3, <2>5
<1>4. ring' \in Seq(Event) /\ Len(ring') <= Retained
    <2>1. ASSUME NEW event \in Event, ring' = Push(event)
          PROVE  ring' \in Seq(Event) /\ Len(ring') <= Retained
        BY <1>1, <2>1, PushFacts DEF TelemetryTypeOK
    <2>2. CASE ObserveIdle
        BY <1>1, <2>1, <2>2 DEF ObserveIdle, TelemetryTypeOK, Event
    <2>3. CASE PostProgress
        BY <1>1, <2>1, <2>3 DEF PostProgress, TelemetryTypeOK, Event
    <2>4. CASE UNCHANGED ring
        BY <1>1, <2>4 DEF TelemetryTypeOK
    <2> QED
        BY <2>2, <2>3, <2>4
        DEF Next, SparkNext, StartBatch, SinkWrites, Record, RecordRaises, ObserveStop,
            LoggerNext, LoggerWakes, LoggerReads, LoggerSkips, LoggerPublishes,
            LoggerFails, LoggerBreaks, LoggerDrained, OwnerNext, OwnerStops, StopReturns,
            StopRaises, OwnerEnds, sparkVars, vars
<1>5. todo' \in Seq(Event) /\ Len(todo') <= Retained
    <2>1. CASE LoggerReads
        BY <1>1, <2>1 DEF LoggerReads, TelemetryTypeOK
    <2>2. CASE todo # <<>> /\ todo' = Tail(todo)
        BY <1>1, <2>2, TodoFacts DEF TelemetryTypeOK
    <2>3. CASE todo' = <<>>
        BY <2>3
    <2>4. CASE UNCHANGED todo
        BY <1>1, <2>4 DEF TelemetryTypeOK
    <2> QED
        BY <2>1, <2>2, <2>3, <2>4
        DEF Next, SparkNext, StartBatch, ObserveIdle, SinkWrites, Record, RecordRaises,
            PostProgress, ObserveStop, LoggerNext, LoggerWakes, LoggerSkips,
            LoggerPublishes, LoggerFails, LoggerBreaks, LoggerDrained, OwnerNext, OwnerStops,
            StopReturns, StopRaises, OwnerEnds, loggerVars, vars
<1>6. published' \in Seq(Batches)
    <2>1. ASSUME todo # <<>>, ~Seen(Head(todo))
          PROVE  Head(todo).batch \in Batches
        <3>1. Head(todo).batch = last + 1 /\ last + 1 < batch
            BY <1>1, <2>1, UnseenIsNext, TodoFacts DEF TelemetryTypeOK, Ran, IInv
        <3> QED
            BY <1>1, <3>1 DEF TelemetryTypeOK, Batches
    <2>2. CASE LoggerPublishes
        BY <1>1, <2>1, <2>2 DEF LoggerPublishes, TelemetryTypeOK
    <2>3. CASE LoggerFails
        BY <1>1, <2>1, <2>3, SMTT(60) DEF LoggerFails, TelemetryTypeOK
    <2>4. CASE UNCHANGED published
        BY <1>1, <2>4 DEF TelemetryTypeOK
    <2> QED
        BY <2>2, <2>3, <2>4
        DEF Next, SparkNext, StartBatch, ObserveIdle, SinkWrites, Record, RecordRaises,
            PostProgress, ObserveStop, LoggerNext, LoggerWakes, LoggerReads, LoggerSkips,
            LoggerBreaks, LoggerDrained, OwnerNext, OwnerStops, StopReturns, StopRaises, OwnerEnds,
            loggerVars, vars
<1>7. /\ failure' \in {"none", "lost", "unmatched", "publication", "logger"}
      /\ logger' \in {"wait", "read", "publish", "exited"}
      /\ final' \in BOOLEAN
    BY <1>1
    DEF Next, SparkNext, StartBatch, ObserveIdle, SinkWrites, Record, RecordRaises,
        PostProgress, ObserveStop, LoggerNext, LoggerWakes, LoggerReads, LoggerSkips,
        LoggerPublishes, LoggerFails, LoggerBreaks, LoggerDrained, Trouble, OwnerNext, OwnerStops,
        StopReturns, StopRaises, OwnerEnds, loggerVars, vars, TelemetryTypeOK
<1>8. /\ stopEvent' \in BOOLEAN /\ raising' \in BOOLEAN
      /\ owner' \in {"watching", "stopping", "joining", "returned", "raised"}
    BY <1>1
    DEF Next, SparkNext, StartBatch, ObserveIdle, SinkWrites, Record, RecordRaises,
        PostProgress, ObserveStop, LoggerNext, LoggerWakes, LoggerReads, LoggerSkips,
        LoggerPublishes, LoggerFails, LoggerBreaks, LoggerDrained, OwnerNext, OwnerStops,
        StopReturns, StopRaises, OwnerEnds, ownerVars, vars, TelemetryTypeOK
<1> QED
    BY <1>2, <1>3, <1>4, <1>5, <1>6, <1>7, <1>8 DEF TelemetryTypeOK

(* An event that is far enough from the head of the ring stays in it. *)
LEMMA PushKeeps ==
    ASSUME ring \in Seq(Event), Len(ring) <= Retained, NEW event \in Event,
           NEW k \in Nat, k + 2 <= Retained,
           NEW i \in DOMAIN ring, i >= Len(ring) - k
    PROVE  \E j \in DOMAIN Push(event) :
              Push(event)[j] = ring[i] /\ j >= Len(Push(event)) - (k + 1)
<1> DEFINE gone == IF Len(ring) < Retained THEN 0 ELSE 1
           new == Push(event)
<1>0. Len(ring) \in Nat /\ Retained \in Nat
    BY TelemetryConstants
<1>1. /\ new \in Seq(Event) /\ Len(new) = Len(ring) + 1 - gone
      /\ \A j \in 1 .. Len(new) : new[j] = IF j = Len(new) THEN event ELSE ring[j + gone]
    <2>1. /\ new \in Seq(Event)
          /\ Len(new) = IF Len(ring) < Retained THEN Len(ring) + 1 ELSE Retained
        BY PushFacts
    <2>2. Len(new) = Len(ring) + 1 - gone
        BY <1>0, <2>1
    <2>3. \A j \in 1 .. Len(new) : new[j] = IF j = Len(new) THEN event ELSE ring[j + gone]
        BY PushFacts
    <2> QED
        BY <2>1, <2>2, <2>3
<1>2. i \in 1 .. Len(ring) /\ Len(ring) \in Nat
    OBVIOUS
<1>3. i - gone \in 1 .. Len(new) /\ i - gone # Len(new)
    BY <1>1, <1>2, TelemetryConstants
<1>4. new[i - gone] = ring[i]
    <2>1. new[i - gone] = ring[(i - gone) + gone]
        BY <1>1, <1>3
    <2>2. (i - gone) + gone = i
        BY <1>2
    <2> QED
        BY <2>1, <2>2
<1>5. DOMAIN new = 1 .. Len(new) /\ i - gone >= Len(new) - (k + 1)
    BY <1>1, <1>2
<1> HIDE DEF new, gone
<1> QED
    BY <1>3, <1>4, <1>5 DEF new

(* The executed events of the ring stay in the order of their batches. *)
LEMMA PushKeepsOrder ==
    ASSUME TelemetryTypeOK, RingInv, NEW event \in Event,
           event.executed => event.batch = batch
    PROVE  LET new == Push(event)
           IN  /\ \A i \in DOMAIN new : new[i].executed => new[i].batch <= batch
               /\ \A i \in DOMAIN new : i # Len(new) /\ new[i].executed => new[i].batch < batch
               /\ new[Len(new)] = event /\ Len(new) \in DOMAIN new
               /\ \A i, j \in DOMAIN new :
                     i < j /\ new[i].executed /\ new[j].executed
                        => new[i].batch < new[j].batch
<1> DEFINE gone == IF Len(ring) < Retained THEN 0 ELSE 1
           new == Push(event)
<1>1. /\ new \in Seq(Event) /\ Len(new) = Len(ring) + 1 - gone
      /\ \A j \in 1 .. Len(new) : new[j] = IF j = Len(new) THEN event ELSE ring[j + gone]
    <2>1. ring \in Seq(Event) /\ Len(ring) \in Nat /\ Len(ring) <= Retained
        BY DEF TelemetryTypeOK
    <2>2. /\ new \in Seq(Event)
          /\ Len(new) = IF Len(ring) < Retained THEN Len(ring) + 1 ELSE Retained
        BY <2>1, PushFacts
    <2>3. Len(new) = Len(ring) + 1 - gone
        BY <2>1, <2>2, TelemetryConstants
    <2>4. \A j \in 1 .. Len(new) : new[j] = IF j = Len(new) THEN event ELSE ring[j + gone]
        BY <2>1, PushFacts
    <2> QED
        BY <2>2, <2>3, <2>4
<1>2. DOMAIN new = 1 .. Len(new) /\ DOMAIN ring = 1 .. Len(ring) /\ Len(ring) \in Nat
      /\ Len(new) >= 1
    BY <1>1, TelemetryConstants DEF TelemetryTypeOK
<1>3. \A i \in DOMAIN new :
         i # Len(new) => new[i] = ring[i + gone] /\ i + gone \in DOMAIN ring
    BY <1>1, <1>2
<1>4. new[Len(new)] = event /\ Len(new) \in DOMAIN new
    BY <1>1, <1>2
<1>5. \A i \in DOMAIN new : i # Len(new) /\ new[i].executed => new[i].batch < batch
    BY <1>3 DEF RingInv
<1>6. batch \in Nat
    BY TelemetryConstants DEF TelemetryTypeOK
<1>7. \A i \in DOMAIN new : new[i].executed => new[i].batch <= batch
    <2> SUFFICES ASSUME NEW i \in DOMAIN new, new[i].executed
                 PROVE  new[i].batch <= batch
        OBVIOUS
    <2>1. CASE i = Len(new)
        BY <1>4, <1>6, <2>1
    <2>2. CASE i # Len(new)
        <3>1. new[i].batch \in Nat
            <4>1. new[i] \in Event
                BY <1>1, <1>2
            <4> QED
                BY <4>1, EventBatch
        <3> QED
            BY <1>5, <1>6, <2>2, <3>1
    <2> QED
        BY <2>1, <2>2
<1>8. ASSUME NEW i \in DOMAIN new, NEW j \in DOMAIN new,
             i < j, new[i].executed, new[j].executed
      PROVE  new[i].batch < new[j].batch
    <2>1. i # Len(new)
        BY <1>2, <1>8
    <2>2. CASE j = Len(new)
        BY <1>4, <1>5, <1>8, <2>1, <2>2
    <2>3. CASE j # Len(new)
        <3>1. i + gone < j + gone
            BY <1>2, <1>8
        <3>2. /\ new[i] = ring[i + gone] /\ i + gone \in DOMAIN ring
              /\ new[j] = ring[j + gone] /\ j + gone \in DOMAIN ring
            BY <1>3, <2>1, <2>3
        <3> HIDE DEF gone, new
        <3> QED
            BY <1>8, <3>1, <3>2 DEF RingInv
    <2> QED
        BY <2>2, <2>3
<1> HIDE DEF gone
<1> QED
    BY <1>4, <1>5, <1>7, <1>8

LEMMA RingStep ==
    ASSUME IInv, [Next]_vars
    PROVE  RingInv'
<1> DEFINE Slack(b) == (batch - 1 - b) + idles
<1>1. /\ TelemetryTypeOK /\ ReceiptsInv /\ RingInv
      /\ batch \in Nat /\ last \in Nat /\ idles \in Nat /\ idles <= MaxIdle
    BY TelemetryConstants DEF IInv, TelemetryTypeOK
<1>2. CASE ObserveIdle
    <2> DEFINE event == [batch |-> batch, executed |-> FALSE]
    <2>1. event \in Event /\ ring' = Push(event) /\ UNCHANGED <<batch, last>>
        BY <1>1, <1>2 DEF ObserveIdle, TelemetryTypeOK, Event, loggerVars
    <2>2. ASSUME NEW b \in last' + 1 .. batch' - 1
          PROVE  \E j \in DOMAIN ring' :
                    ring'[j] = Ran(b) /\ j >= Len(ring') - (batch' - 1 - b) - idles'
        <3>1. b \in last + 1 .. batch - 1 /\ b \in Nat /\ Behind
            BY <1>1, <2>1, <2>2 DEF Behind
        <3>2. idles < MaxIdle /\ idles' = idles + 1
            BY <1>2, <3>1 DEF ObserveIdle
        <3>3. Slack(b) \in Nat /\ Slack(b) + 2 <= Retained
            BY <1>1, <3>1, <3>2, TelemetryConstants, RoomForPending DEF ReceiptsInv
        <3>4. PICK i \in DOMAIN ring : ring[i] = Ran(b) /\ i >= Len(ring) - Slack(b)
            <4>1. PICK i \in DOMAIN ring :
                     ring[i] = Ran(b) /\ i >= Len(ring) - (batch - 1 - b) - idles
                BY <1>1, <3>1 DEF RingInv
            <4>2. Len(ring) \in Nat /\ i \in Nat
                BY <1>1 DEF TelemetryTypeOK
            <4> QED
                BY <1>1, <3>1, <4>1, <4>2
        <3> HIDE DEF event
        <3>5. PICK j \in DOMAIN Push(event) :
                 Push(event)[j] = ring[i] /\ j >= Len(Push(event)) - (Slack(b) + 1)
            BY <1>1, <2>1, <3>3, <3>4, PushKeeps DEF TelemetryTypeOK
        <3>6. j \in Nat /\ Len(ring') \in Nat
            BY <1>1, <2>1, PushFacts, SMTT(60) DEF TelemetryTypeOK
        <3>7. j >= Len(ring') - (batch' - 1 - b) - idles'
            BY <1>1, <2>1, <3>1, <3>2, <3>5, <3>6
        <3> QED
            BY <2>1, <3>4, <3>5, <3>7
    <2>3. ~event.executed
        OBVIOUS
    <2> HIDE DEF event
    <2>4. /\ \A i \in DOMAIN ring' : ring'[i].executed => ring'[i].batch < batch'
          /\ \A i, j \in DOMAIN ring' :
                i < j /\ ring'[i].executed /\ ring'[j].executed
                   => ring'[i].batch < ring'[j].batch
        BY <1>1, <2>1, <2>3, PushKeepsOrder
    <2> QED
        BY <2>2, <2>4 DEF RingInv
<1>3. CASE PostProgress
    <2> DEFINE event == [batch |-> batch, executed |-> TRUE]
    <2>1. /\ event \in Event /\ ring' = Push(event) /\ batch' = batch + 1 /\ last' = last
          /\ event = Ran(batch) /\ event.batch = batch
        BY <1>1, <1>3 DEF PostProgress, TelemetryTypeOK, Event, loggerVars, Ran
    <2>2. Len(ring') \in Nat
        BY <1>1, <2>1, PushFacts DEF TelemetryTypeOK
    <2> HIDE DEF event
    <2>3. ASSUME NEW b \in last' + 1 .. batch' - 1
          PROVE  \E j \in DOMAIN ring' :
                    ring'[j] = Ran(b) /\ j >= Len(ring') - (batch' - 1 - b) - idles'
        <3>1. idles' \in Nat
            BY <1>1, <1>3 DEF PostProgress
        <3>2. CASE b = batch
            <4>1. /\ Push(event)[Len(Push(event))] = event
                  /\ Len(Push(event)) \in DOMAIN Push(event)
                BY <1>1, <2>1, PushKeepsOrder
            <4>2. Len(ring') >= Len(ring') - (batch' - 1 - b) - idles'
                BY <1>1, <2>1, <2>2, <3>1, <3>2
            <4> QED
                BY <2>1, <3>2, <4>1, <4>2
        <3>3. CASE b # batch
            <4>1. b \in last + 1 .. batch - 1 /\ b \in Nat /\ Behind
                BY <1>1, <2>1, <2>3, <3>3 DEF Behind
            <4>2. idles' = idles
                BY <1>3, <4>1 DEF PostProgress
            <4>3. batch - last <= MaxPending
                BY <1>1, <1>3 DEF PostProgress, ReceiptsInv
            <4>4. Slack(b) \in Nat /\ Slack(b) + 2 <= Retained
                BY <1>1, <4>1, <4>3, TelemetryConstants, RoomForPending
            <4>5. PICK i \in DOMAIN ring : ring[i] = Ran(b) /\ i >= Len(ring) - Slack(b)
                <5>1. PICK i \in DOMAIN ring :
                         ring[i] = Ran(b) /\ i >= Len(ring) - (batch - 1 - b) - idles
                    BY <1>1, <4>1 DEF RingInv
                <5>2. Len(ring) \in Nat /\ i \in Nat
                    BY <1>1 DEF TelemetryTypeOK
                <5> QED
                    BY <1>1, <4>1, <5>1, <5>2
            <4>6. PICK j \in DOMAIN Push(event) :
                     Push(event)[j] = ring[i] /\ j >= Len(Push(event)) - (Slack(b) + 1)
                BY <1>1, <2>1, <4>4, <4>5, PushKeeps DEF TelemetryTypeOK
            <4>7. j \in Nat
                BY <1>1, <2>1, PushFacts, SMTT(60) DEF TelemetryTypeOK
            <4>8. j >= Len(ring') - (batch' - 1 - b) - idles'
                BY <1>1, <2>1, <2>2, <4>1, <4>2, <4>6, <4>7
            <4> QED
                BY <2>1, <4>5, <4>6, <4>8
        <3> QED
            BY <3>2, <3>3
    <2>4. /\ \A i \in DOMAIN ring' : ring'[i].executed => ring'[i].batch <= batch
          /\ \A i, j \in DOMAIN ring' :
                i < j /\ ring'[i].executed /\ ring'[j].executed
                   => ring'[i].batch < ring'[j].batch
        BY <1>1, <2>1, PushKeepsOrder
    <2>5. ring' \in Seq(Event)
        BY <1>1, <2>1, PushFacts DEF TelemetryTypeOK
    <2>6. \A i \in DOMAIN ring' : ring'[i].executed => ring'[i].batch < batch'
        <3>1. \A i \in DOMAIN ring' : ring'[i].batch \in Nat
            <4>1. \A i \in DOMAIN ring' : ring'[i] \in Event
                BY <2>5
            <4> QED
                BY <4>1, EventBatch
        <3> QED
            BY <1>1, <2>1, <2>4, <3>1
    <2> QED
        BY <2>3, <2>4, <2>6 DEF RingInv
<1>4. CASE LoggerPublishes
    <2>1. last' = last + 1
        BY <1>1, <1>4, UnseenIsNext, TodoFacts
        DEF LoggerPublishes, TelemetryTypeOK, Ran, IInv
    <2>2. UNCHANGED <<ring, batch, idles>>
        BY <1>4 DEF LoggerPublishes, sparkVars
    <2>3. \A b \in last' + 1 .. batch' - 1 : b \in last + 1 .. batch - 1
        BY <1>1, <2>1, <2>2
    <2> QED
        BY <1>1, <2>2, <2>3 DEF RingInv
<1>5. CASE UNCHANGED <<ring, batch, idles, last>>
    BY <1>1, <1>5 DEF RingInv
<1> QED
    BY <1>2, <1>3, <1>4, <1>5
    DEF Next, SparkNext, StartBatch, SinkWrites, Record, RecordRaises, ObserveStop,
        LoggerNext, LoggerWakes, LoggerReads, LoggerSkips, LoggerFails, LoggerBreaks, LoggerDrained,
        OwnerNext, OwnerStops, StopReturns, StopRaises, OwnerEnds, sparkVars,
        loggerVars, vars

(* The list without a first event that has been seen. *)
LEMMA RestOfTodo ==
    ASSUME TelemetryTypeOK, TodoInv, todo # <<>>, NEW l \in Nat, last <= l,
           todo[1].executed => todo[1].batch <= l
    PROVE  LET rest == Tail(todo)
           IN  /\ \A i \in DOMAIN rest : rest[i].executed =>
                     /\ rest[i].batch < batch
                     /\ \A c \in l + 1 .. rest[i].batch - 1 :
                           \E j \in 1 .. i - 1 : rest[j] = Ran(c)
               /\ \A c \in l + 1 .. batch - 1 :
                     (\E j \in DOMAIN todo : todo[j] = Ran(c))
                        => \E j \in DOMAIN rest : rest[j] = Ran(c)
<1> DEFINE rest == Tail(todo)
<1>1. /\ rest \in Seq(Event) /\ Len(rest) = Len(todo) - 1 /\ Len(todo) \in Nat \ {0}
      /\ \A i \in 1 .. Len(todo) - 1 : rest[i] = todo[i + 1]
      /\ DOMAIN todo = 1 .. Len(todo) /\ DOMAIN rest = 1 .. Len(todo) - 1
    BY TodoFacts DEF TelemetryTypeOK
<1>2. last \in Nat /\ batch \in Nat
    BY TelemetryConstants DEF TelemetryTypeOK
<1>3. \A c : todo[1] = Ran(c) => c \notin l + 1 .. batch - 1
    BY <1>2 DEF Ran
<1>4. ASSUME NEW j \in DOMAIN todo, NEW c, c > l, c \in Nat, todo[j] = Ran(c)
      PROVE  j - 1 \in DOMAIN rest /\ rest[j - 1] = Ran(c)
    <2>1. j # 1
        BY <1>4 DEF Ran
    <2>2. j - 1 \in 1 .. Len(todo) - 1 /\ (j - 1) + 1 = j
        BY <1>1, <2>1
    <2> QED
        BY <1>1, <1>4, <2>2
<1>5. ASSUME NEW i \in DOMAIN rest, rest[i].executed
      PROVE  /\ rest[i].batch < batch
             /\ \A c \in l + 1 .. rest[i].batch - 1 :
                   \E j \in 1 .. i - 1 : rest[j] = Ran(c)
    <2>1. i + 1 \in DOMAIN todo /\ rest[i] = todo[i + 1] /\ i \in Nat
        BY <1>1
    <2>2. rest[i].batch \in Nat
        BY <1>1, EventBatch
    <2>3. ASSUME NEW c \in l + 1 .. rest[i].batch - 1
          PROVE  \E j \in 1 .. i - 1 : rest[j] = Ran(c)
        <3>1. c \in last + 1 .. todo[i + 1].batch - 1 /\ c > l /\ c \in Nat
            BY <1>2, <2>1, <2>2
        <3>2. PICK j \in 1 .. (i + 1) - 1 : todo[j] = Ran(c)
            BY <1>5, <2>1, <3>1 DEF TodoInv
        <3>3. j \in DOMAIN todo /\ j - 1 <= i - 1
            BY <1>1, <2>1, <3>2
        <3>4. j - 1 \in DOMAIN rest /\ rest[j - 1] = Ran(c)
            BY <1>4, <3>1, <3>2, <3>3
        <3>5. j - 1 \in 1 .. i - 1
            BY <1>1, <2>1, <3>3, <3>4
        <3> QED
            BY <3>4, <3>5
    <2> QED
        BY <1>5, <2>1, <2>3 DEF TodoInv
<1>6. ASSUME NEW c \in l + 1 .. batch - 1, NEW j \in DOMAIN todo, todo[j] = Ran(c)
      PROVE  \E k \in DOMAIN rest : rest[k] = Ran(c)
    <2>1. c \in Nat /\ c > l
        BY <1>2
    <2> QED
        BY <1>4, <1>6, <2>1
<1> HIDE DEF rest
<1> QED
    BY <1>5, <1>6 DEF rest

(* Reading the ring gives a list that misses no unpublished batch. *)
LEMMA RingIsInOrder ==
    ASSUME TelemetryTypeOK, RingInv, NEW i \in DOMAIN ring, ring[i].executed,
           NEW c \in last + 1 .. ring[i].batch - 1
    PROVE  \E j \in 1 .. i - 1 : ring[j] = Ran(c)
<1>1. ring[i].batch \in Nat /\ ring[i].batch < batch /\ batch \in Nat /\ last \in Nat
    BY EventBatch, TelemetryConstants DEF TelemetryTypeOK, RingInv
<1>2. PICK j \in DOMAIN ring : ring[j] = Ran(c)
    BY <1>1 DEF RingInv
<1>3. ~(j >= i)
    <2>1. ring[j].batch = c /\ ring[j].executed /\ c < ring[i].batch
        BY <1>1, <1>2 DEF Ran
    <2>2. j # i /\ ~(i < j)
        BY <1>1, <2>1 DEF RingInv
    <2> QED
        BY <2>2 DEF TelemetryTypeOK
<1>4. j \in 1 .. i - 1
    BY <1>3 DEF TelemetryTypeOK
<1> QED
    BY <1>2, <1>4

LEMMA TodoStep ==
    ASSUME IInv, [Next]_vars
    PROVE  TodoInv'
<1>1. /\ TelemetryTypeOK /\ RingInv /\ TodoInv /\ last \in Nat /\ batch \in Nat
    BY TelemetryConstants DEF IInv, TelemetryTypeOK
<1>2. CASE LoggerReads
    <2>1. todo' = ring /\ last' = last /\ batch' = batch /\ logger' = "publish"
        BY <1>2 DEF LoggerReads, sparkVars
    <2>2. \A i \in DOMAIN ring : ring[i].executed =>
             \A c \in last + 1 .. ring[i].batch - 1 : \E j \in 1 .. i - 1 : ring[j] = Ran(c)
        BY <1>1, RingIsInOrder
    <2> QED
        BY <1>1, <2>1, <2>2 DEF TodoInv, RingInv
<1>3. CASE LoggerSkips
    <2>1. /\ todo # <<>> /\ todo' = Tail(todo) /\ last' = last /\ batch' = batch
          /\ logger' = "publish" /\ (todo[1].executed => todo[1].batch <= last)
        BY <1>1, <1>3, TodoFacts
        DEF LoggerSkips, sparkVars, Seen, Executed, TelemetryTypeOK
    <2>2. TelemetryTypeOK /\ TodoInv /\ last \in Nat /\ last <= last
        BY <1>1
    <2>3. \A i \in DOMAIN Tail(todo) : Tail(todo)[i].executed =>
             /\ Tail(todo)[i].batch < batch
             /\ \A c \in last + 1 .. Tail(todo)[i].batch - 1 :
                   \E j \in 1 .. i - 1 : Tail(todo)[j] = Ran(c)
        BY <2>1, <2>2, RestOfTodo
    <2> QED
        BY <2>1, <2>3 DEF TodoInv
<1>4. CASE LoggerPublishes
    <2>1. /\ todo # <<>> /\ todo' = Tail(todo) /\ batch' = batch /\ logger' = "publish"
          /\ Head(todo).batch = todo[1].batch /\ todo[1] = Ran(last + 1)
          /\ last' = Head(todo).batch
        BY <1>1, <1>4, TodoFacts, UnseenIsNext DEF LoggerPublishes, sparkVars, TelemetryTypeOK
    <2>2. last' = last + 1 /\ last <= last' /\ todo[1].batch <= last' /\ last' \in Nat
        BY <1>1, <2>1 DEF Ran
    <2> QED
        <3>1. /\ TelemetryTypeOK /\ TodoInv /\ todo # <<>> /\ last + 1 \in Nat
              /\ last <= last + 1 /\ (todo[1].executed => todo[1].batch <= last + 1)
            BY <1>1, <2>1, <2>2
        <3>2. \A i \in DOMAIN Tail(todo) : Tail(todo)[i].executed =>
                 /\ Tail(todo)[i].batch < batch
                 /\ \A c \in (last + 1) + 1 .. Tail(todo)[i].batch - 1 :
                       \E j \in 1 .. i - 1 : Tail(todo)[j] = Ran(c)
            BY <3>1, RestOfTodo
        <3> QED
            BY <2>1, <2>2, <3>2 DEF TodoInv
<1>5. CASE todo' = <<>>
    BY <1>5 DEF TodoInv
<1>6. CASE UNCHANGED <<todo, last, logger>> /\ batch' \in {batch, batch + 1}
    <2>1. \A i \in DOMAIN todo : todo[i].batch \in Nat
        BY <1>1, EventBatch DEF TelemetryTypeOK
    <2>2. \A i \in DOMAIN todo : todo[i].executed => todo[i].batch < batch'
        BY <1>1, <1>6, <2>1 DEF TodoInv
    <2>3. todo' = todo /\ last' = last /\ logger' = logger
        BY <1>6
    <2>4. \A i \in DOMAIN todo : todo[i].executed =>
             \A c \in last + 1 .. todo[i].batch - 1 : \E j \in 1 .. i - 1 : todo[j] = Ran(c)
        BY <1>1 DEF TodoInv
    <2>5. logger # "publish" => todo = <<>>
        BY <1>1 DEF TodoInv
    <2> QED
        BY <2>2, <2>3, <2>4, <2>5 DEF TodoInv
<1>7. CASE LoggerWakes
    BY <1>1, <1>7 DEF LoggerWakes, TodoInv, sparkVars
<1>8. CASE LoggerDrained
    BY <1>1, <1>5, <1>8 DEF LoggerDrained
<1> QED
    BY <1>2, <1>3, <1>4, <1>5, <1>6, <1>7, <1>8
    DEF Next, SparkNext, StartBatch, ObserveIdle, SinkWrites, Record, RecordRaises,
        PostProgress, ObserveStop, LoggerNext, LoggerFails, LoggerBreaks, OwnerNext, OwnerStops,
        StopReturns, StopRaises, OwnerEnds, sparkVars, loggerVars, vars

LEMMA NoFalseAlarmStep ==
    ASSUME IInv, [Next]_vars
    PROVE  NoFalseAlarm'
<1>1. CASE LoggerFails
    <2>1. Head(todo).batch = last + 1 /\ last + 1 < batch /\ last \in Nat /\ batch \in Nat
        BY <1>1, UnseenIsNext, TodoFacts, TelemetryConstants
        DEF LoggerFails, TelemetryTypeOK, Ran, IInv
    <2>2. last + 1 \in receipts
        BY <2>1 DEF IInv, ReceiptsInv, TelemetryTypeOK, Live
    <2>3. Trouble(Head(todo)) = "publication"
        BY <2>1, <2>2 DEF Trouble, Gap
    <2> QED
        BY <1>1, <2>3 DEF LoggerFails, NoFalseAlarm
<1>2. CASE LoggerBreaks
    BY <1>2 DEF LoggerBreaks, NoFalseAlarm
<1>3. CASE UNCHANGED failure
    BY <1>3 DEF IInv, NoFalseAlarm
<1> QED
    BY <1>1, <1>2, <1>3
    DEF Next, SparkNext, StartBatch, ObserveIdle, SinkWrites, Record, RecordRaises,
        PostProgress, ObserveStop, LoggerNext, LoggerWakes, LoggerReads, LoggerSkips,
        LoggerPublishes, LoggerDrained, OwnerNext, OwnerStops, StopReturns, StopRaises,
        OwnerEnds, vars

LEMMA ShutdownStep ==
    ASSUME IInv, [Next]_vars
    PROVE  ShutdownInv'
<1>1. TelemetryTypeOK /\ ShutdownInv
    BY DEF IInv
<1>2. CASE SparkNext
    BY <1>1, <1>2
    DEF SparkNext, StartBatch, ObserveIdle, SinkWrites, Record, RecordRaises, PostProgress,
        ObserveStop, ShutdownInv, Live, Stopped, loggerVars, ownerVars
<1>3. CASE LoggerNext
    <2>1. CASE LoggerFails
        <3>1. failure' # "none"
            BY <2>1 DEF LoggerFails, Trouble
        <3> QED
            BY <1>1, <2>1, <3>1 DEF LoggerFails, ShutdownInv, Live, sparkVars, ownerVars
    <2>2. CASE LoggerBreaks
        BY <1>1, <2>2 DEF LoggerBreaks, ShutdownInv, Live, sparkVars, ownerVars
    <2>3. CASE LoggerDrained
        BY <1>1, <2>3
        DEF LoggerDrained, ShutdownInv, Live, sparkVars, ownerVars, TelemetryTypeOK
    <2>4. CASE LoggerWakes \/ LoggerReads \/ LoggerSkips \/ LoggerPublishes
        BY <1>1, <2>4
        DEF LoggerWakes, LoggerReads, LoggerSkips, LoggerPublishes, ShutdownInv, Live,
            sparkVars, ownerVars, TelemetryTypeOK
    <2> QED
        BY <1>3, <2>1, <2>2, <2>3, <2>4 DEF LoggerNext
<1>4. CASE OwnerNext
    BY <1>1, <1>4
    DEF OwnerNext, OwnerStops, StopReturns, StopRaises, OwnerEnds, MetricsError,
        ShutdownInv, Live, sparkVars, loggerVars, TelemetryTypeOK
<1>5. CASE UNCHANGED vars
    BY <1>1, <1>5 DEF ShutdownInv, Live, vars
<1> QED
    BY <1>2, <1>3, <1>4, <1>5 DEF Next

LEMMA CompleteStep ==
    ASSUME IInv, [Next]_vars
    PROVE  CompleteInv'
<1>1. /\ TelemetryTypeOK /\ ReceiptsInv /\ RingInv /\ TodoInv /\ ShutdownInv /\ CompleteInv
      /\ last \in Nat /\ batch \in Nat /\ last < batch
    BY TelemetryConstants DEF IInv, TelemetryTypeOK, ReceiptsInv
<1>2. CASE LoggerPublishes
    <2>1. /\ todo # <<>> /\ todo' = Tail(todo) /\ todo[1] = Ran(last + 1)
          /\ Head(todo) = todo[1] /\ last + 1 < batch
        BY <1>1, <1>2, TodoFacts, UnseenIsNext DEF LoggerPublishes, TelemetryTypeOK
    <2>2. /\ last' = last + 1 /\ published' = Append(published, last + 1)
          /\ failure = "none" /\ logger = "publish"
        BY <1>2, <2>1 DEF LoggerPublishes, Ran
    <2>3. UNCHANGED <<batch, final, raising, logger, failure>>
        BY <1>2 DEF LoggerPublishes, sparkVars, ownerVars
    <2>4. published' = [b \in 1 .. last' |-> b]
        <3>1. published = [b \in 1 .. last |-> b]
            BY <1>1, <2>2 DEF CompleteInv
        <3>2. published \in Seq(Batches) /\ Len(published) = last
            BY <1>1, <3>1 DEF TelemetryTypeOK
        <3> QED
            BY <1>1, <2>2, <3>1, <3>2
    <2>5. todo[1].executed => todo[1].batch <= last'
        BY <1>1, <2>1, <2>2 DEF Ran
    <2>6. \A c \in last' + 1 .. batch - 1 :
             (\E j \in DOMAIN todo : todo[j] = Ran(c))
                => \E j \in DOMAIN todo' : todo'[j] = Ran(c)
        <3>1. last' \in Nat /\ last <= last'
            BY <1>1, <2>2, TelemetryConstants DEF TelemetryTypeOK
        <3>2. TelemetryTypeOK /\ TodoInv
            BY <1>1
        <3>3. \A c \in last' + 1 .. batch - 1 :
                 (\E j \in DOMAIN todo : todo[j] = Ran(c))
                    => \E j \in DOMAIN Tail(todo) : Tail(todo)[j] = Ran(c)
            BY <2>1, <2>5, <3>1, <3>2, RestOfTodo
        <3> QED
            BY <2>1, <3>3
    <2>7. \A c \in last' + 1 .. batch' - 1 : c \in last + 1 .. batch - 1
        BY <1>1, <2>2, <2>3
    <2> QED
        BY <1>1, <2>2, <2>3, <2>4, <2>6, <2>7 DEF CompleteInv
<1>3. CASE LoggerSkips
    <2>1. /\ todo # <<>> /\ todo' = Tail(todo) /\ logger = "publish"
          /\ (todo[1].executed => todo[1].batch <= last)
        BY <1>1, <1>3, TodoFacts DEF LoggerSkips, Seen, Executed, TelemetryTypeOK
    <2>2. UNCHANGED <<batch, last, final, raising, logger, failure, published>>
        BY <1>3 DEF LoggerSkips, sparkVars, ownerVars
    <2>3. \A c \in last + 1 .. batch - 1 :
             (\E j \in DOMAIN todo : todo[j] = Ran(c))
                => \E j \in DOMAIN todo' : todo'[j] = Ran(c)
        <3>1. last \in Nat /\ TelemetryTypeOK /\ TodoInv
            BY <1>1, TelemetryConstants DEF TelemetryTypeOK
        <3>2. \A c \in last + 1 .. batch - 1 :
                 (\E j \in DOMAIN todo : todo[j] = Ran(c))
                    => \E j \in DOMAIN Tail(todo) : Tail(todo)[j] = Ran(c)
            BY <2>1, <3>1, RestOfTodo
        <3> QED
            BY <2>1, <3>2
    <2> QED
        BY <1>1, <2>2, <2>3 DEF CompleteInv
<1>4. CASE LoggerReads
    <2>1. /\ todo' = ring /\ logger' = "publish"
          /\ UNCHANGED <<batch, last, final, raising, failure, published>>
        BY <1>4 DEF LoggerReads, sparkVars, ownerVars
    <2>2. \A c \in last + 1 .. batch - 1 : \E j \in DOMAIN ring : ring[j] = Ran(c)
        BY <1>1 DEF RingInv
    <2> QED
        BY <1>1, <2>1, <2>2 DEF CompleteInv
<1>5. CASE LoggerDrained
    <2>1. /\ logger = "publish" /\ logger' = (IF final THEN "exited" ELSE "wait")
          /\ todo = <<>> /\ UNCHANGED <<batch, last, final, raising, failure, published>>
        BY <1>5 DEF LoggerDrained, sparkVars, ownerVars
    <2>2. final /\ ~raising => last = batch - 1
        <3> SUFFICES ASSUME final, ~raising, last # batch - 1 PROVE FALSE
            OBVIOUS
        <3>1. last + 1 \in last + 1 .. batch - 1
            BY <1>1
        <3>2. PICK j \in DOMAIN todo : todo[j] = Ran(last + 1)
            BY <1>1, <2>1, <3>1 DEF CompleteInv
        <3> QED
            BY <2>1, <3>2
    <2> QED
        BY <1>1, <2>1, <2>2 DEF CompleteInv
<1>6. CASE LoggerFails \/ LoggerBreaks
    <2>1. failure' # "none" /\ logger' = "exited"
        BY <1>6 DEF LoggerFails, LoggerBreaks, Trouble
    <2> QED
        BY <2>1 DEF CompleteInv
<1>7. CASE LoggerWakes
    BY <1>1, <1>7 DEF LoggerWakes, CompleteInv, sparkVars
<1>8. CASE PostProgress
    <2>1. exec = "post" /\ UNCHANGED <<last, todo, logger, final, raising, failure, published>>
        BY <1>8 DEF PostProgress, loggerVars, ownerVars
    <2>2. ~(final /\ ~raising)
        BY <1>1, <2>1 DEF ShutdownInv, Live
    <2>3. ~(logger = "exited" /\ failure = "none" /\ ~raising)
        BY <1>1, <2>1, <2>2 DEF ShutdownInv
    <2> QED
        BY <1>1, <2>1, <2>2, <2>3 DEF CompleteInv
<1>9. CASE OwnerNext
    <2>1. UNCHANGED <<batch, last, todo, logger, final, failure, published>>
        BY <1>9
        DEF OwnerNext, OwnerStops, StopReturns, StopRaises, OwnerEnds, sparkVars, loggerVars
    <2>2. final /\ ~raising' => ~raising
        BY <1>1, <1>9
        DEF OwnerNext, OwnerStops, StopReturns, StopRaises, OwnerEnds, ShutdownInv
    <2>3. logger = "exited" /\ failure = "none" => final
        BY <1>1 DEF ShutdownInv
    <2> QED
        BY <1>1, <2>1, <2>2, <2>3 DEF CompleteInv
<1>10. CASE UNCHANGED <<batch, last, todo, logger, final, raising, failure, published>>
    BY <1>1, <1>10 DEF CompleteInv
<1> QED
    BY <1>2, <1>3, <1>4, <1>5, <1>6, <1>7, <1>8, <1>9, <1>10
    DEF Next, SparkNext, StartBatch, ObserveIdle, SinkWrites, Record, RecordRaises,
        ObserveStop, LoggerNext, sparkVars, loggerVars, ownerVars, vars

--------------------------------------------------------------------------------

LEMMA Inductive == Spec => []IInv
<1>1. Init => IInv
    BY InitInv
<1>2. IInv /\ [Next]_vars => IInv'
    BY TypesStep, ReceiptsStep, RingStep, TodoStep, ShutdownStep, CompleteStep,
       NoFalseAlarmStep
    DEF IInv
<1> QED
    BY <1>1, <1>2, PTL DEF Spec

(* The variables of the three threads keep their types, and the receipts stay  *)
(* within the bound of record_sink_result.                                    *)
THEOREM TypeCorrect == Spec => []TelemetryTypeOK
<1>1. IInv => TelemetryTypeOK
    BY DEF IInv
<1> QED
    BY <1>1, Inductive, PTL

(* Backpressure on the receipts keeps the progress of every unpublished batch   *)
(* in Spark's bounded ring while the logger runs, however many batches the       *)
(* query executes.                                                           *)
THEOREM EvidenceKept == Spec => []NothingEvicted
<1>1. IInv => NothingEvicted
    <2> SUFFICES ASSUME IInv, NEW b \in Posted PROVE InReach(b)
        BY DEF NothingEvicted
    <2>1. batch \in Nat /\ last \in Nat /\ b \in Nat /\ b <= batch - 1
        BY TelemetryConstants DEF IInv, TelemetryTypeOK, Posted
    <2>2. CASE b <= last
        BY <2>2 DEF InReach
    <2>3. CASE ~(b <= last)
        <3>1. b \in last + 1 .. batch - 1
            BY <2>1, <2>3
        <3> QED
            BY <3>1 DEF IInv, RingInv, InReach, Ran
    <2> QED
        BY <2>2, <2>3
<1> QED
    BY <1>1, Inductive, PTL

(* The logger never reports a lost batch or a missing receipt: what it meets     *)
(* first among the events it has not seen is the batch after the last one, and    *)
(* its receipt is there.                                                      *)
THEOREM AlarmsAreReal == Spec => []NoFalseAlarm
<1>1. IInv => NoFalseAlarm
    BY DEF IInv
<1> QED
    BY <1>1, Inductive, PTL

(* A run of the stream that returns normally has published every batch whose     *)
(* progress was posted, once and in order.                                    *)
THEOREM ReturnedIsComplete == Spec => []ReturnIsComplete
<1>1. IInv => ReturnIsComplete
    <2> SUFFICES ASSUME IInv, owner = "returned"
                 PROVE  published = [b \in Posted |-> b]
        BY DEF ReturnIsComplete
    <2>1. ~raising /\ failure = "none" /\ logger = "exited"
        BY DEF IInv, ShutdownInv
    <2> QED
        BY <2>1 DEF IInv, CompleteInv, Posted
<1> QED
    BY <1>1, Inductive, PTL
================================================================================
