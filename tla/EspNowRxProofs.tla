---------------------------- MODULE EspNowRxProofs ----------------------------
(***************************************************************************)
(* The receiving half of the radio link, proved for every length of the     *)
(* queue, every set of streams and every length of the 250 ms: when the     *)
(* receive task has the speaker, what the silence between two calls is good *)
(* for, and how long the speaker stays away once no frame comes.            *)
(***************************************************************************)
EXTENDS EspNowRxTimed, SequenceTheorems, TLAPS

\* A START packet that opens a session finds none open: the one before was stopped.
RxIInv == RxInv /\ (rpc = "start" => ~speaker_started)

-----------------------------------------------------------------------------
(* Queues *)

\* What Append does to a queue, element by element.
LEMMA QueueAppend ==
    ASSUME NEW S, NEW q \in Seq(S), NEW p \in S
    PROVE  /\ Append(q, p) \in Seq(S)
           /\ Len(Append(q, p)) = Len(q) + 1
           /\ \A k \in 1..Len(q) : Append(q, p)[k] = q[k]
           /\ Append(q, p)[Len(q) + 1] = p
BY AppendProperties

\* What taking the head off a queue leaves, element by element.
LEMMA QueueTake ==
    ASSUME NEW S, NEW q \in Seq(S), q # <<>>
    PROVE  /\ Head(q) = q[1] /\ Head(q) \in S
           /\ Tail(q) \in Seq(S)
           /\ Len(q) \in Nat \ {0} /\ Len(Tail(q)) = Len(q) - 1
           /\ \A k \in 1..Len(q) - 1 : Tail(q)[k] = q[k + 1]
BY HeadTailProperties, EmptySeq, LenProperties

-----------------------------------------------------------------------------
(* The receive task without its clock *)

\* The receive task starts outside a session, with an empty queue.
LEMMA InitRx == ASSUME RxInit PROVE RxIInv
<1>1. \E p \in Packets : TRUE
  <2>1. PICK s \in Streams, n \in Numbers : TRUE BY RxAssumption
  <2>2. [stream |-> s, number |-> n, sequence |-> 0, start |-> FALSE,
         end |-> FALSE] \in Packets
    BY <2>1, RxAssumption DEF Packets
  <2> QED BY <2>2
<1>2. packet \in Packets BY <1>1 DEF RxInit
<1>3. s_rx_queue \in Seq(Packets) /\ Len(s_rx_queue) = 0
  BY EmptySeq DEF RxInit
<1>4. expected_sequence \in 0..SeqMod - 1 BY RxAssumption DEF RxInit
<1>5. 0 <= QueueLen BY RxAssumption
<1> QED
  BY <1>2, <1>3, <1>4, <1>5
     DEF RxInit, RxIInv, RxInv, RxTypeOK, RxPcs, SpeakerOnlyInSession, DroppingIsSilent

\* A frame that arrives lengthens the queue up to its limit and does nothing else.
LEMMA ArrivesRx ==
    ASSUME RxIInv, NEW p \in Packets, Arrives(p)
    PROVE  RxIInv'
<1>1. s_rx_queue' \in Seq(Packets) /\ Len(s_rx_queue') <= QueueLen
  <2>1. CASE Len(s_rx_queue) < QueueLen
    <3>1. s_rx_queue \in Seq(Packets) BY DEF RxIInv, RxInv, RxTypeOK
    <3>2. Len(s_rx_queue) \in Nat BY <3>1, LenProperties
    <3> QED BY <2>1, <3>1, <3>2, QueueAppend, RxAssumption DEF Arrives
  <2>2. CASE ~(Len(s_rx_queue) < QueueLen)
    BY <2>2 DEF Arrives, RxIInv, RxInv, RxTypeOK
  <2> QED BY <2>1, <2>2
<1> QED
  BY <1>1 DEF Arrives, session, RxIInv, RxInv, RxTypeOK, SpeakerOnlyInSession,
              DroppingIsSilent

\* Each statement of network_audio_rx_task keeps the invariant.
LEMMA TaskRx ==
    ASSUME RxIInv, RxTask
    PROVE  RxIInv'
<1> USE RxAssumption
    DEF RxIInv, RxInv, RxTypeOK, RxPcs, SpeakerOnlyInSession, DroppingIsSilent, session
<1>1. CASE Receive
  BY <1>1, QueueTake DEF Receive
<1>2. CASE Silence
  <2>1. CASE speaker_started /\ Stopped BY <1>2, <2>1 DEF Silence, Stopped
  <2>2. CASE speaker_started /\ StopFails BY <1>2, <2>2 DEF Silence, StopFails
  <2>3. CASE ~speaker_started /\ UNCHANGED <<speaker_started, spk, s_rx_active>>
    BY <1>2, <2>3 DEF Silence
  <2> QED BY <1>2, <2>1, <2>2, <2>3 DEF Silence
<1>3. CASE DropPacket BY <1>3 DEF DropPacket, Packets
<1>4. CASE StartPacket BY <1>4 DEF StartPacket
<1>5. CASE StrayPacket BY <1>5 DEF StrayPacket
<1>6. CASE RestartSpeaker BY <1>6 DEF RestartSpeaker, Stopped
<1>7. CASE RestartFails BY <1>7 DEF RestartFails, Refuse, StopFails
<1>8. CASE StartSpeaker BY <1>8 DEF StartSpeaker, Packets
<1>9. CASE StartFails BY <1>9 DEF StartFails, Refuse
<1>10. CASE NextPacket BY <1>10 DEF NextPacket
<1>11. ASSUME CheckSequence PROVE expected_sequence' \in 0..SeqMod - 1
  BY <1>11 DEF CheckSequence, Packets
<1>12. CASE Write BY <1>11, <1>12 DEF Write
<1>13. CASE WriteFails BY <1>11, <1>13 DEF WriteFails
<1>14. CASE EndStream
  <2>1. CASE Stopped BY <1>14, <2>1 DEF EndStream, Stopped
  <2>2. CASE StopFails BY <1>14, <2>2 DEF EndStream, StopFails
  <2> QED BY <1>14, <2>1, <2>2 DEF EndStream
<1> QED
  BY <1>1, <1>2, <1>3, <1>4, <1>5, <1>6, <1>7, <1>8, <1>9, <1>10, <1>12, <1>13,
     <1>14 DEF RxTask

\* Main's use of the speaker and of the LED keeps it too.
LEMMA MainRx ==
    ASSUME RxIInv, MainPlays \/ MainEndsPlaying \/ MainDims
    PROVE  RxIInv'
<1> USE DEF RxIInv, RxInv, RxTypeOK, SpeakerOnlyInSession, DroppingIsSilent, session
<1>1. CASE MainPlays BY <1>1 DEF MainPlays
<1>2. CASE MainEndsPlaying BY <1>2 DEF MainEndsPlaying
<1>3. CASE MainDims BY <1>3 DEF MainDims
<1> QED BY <1>1, <1>2, <1>3

\* One step of the receiver, or none.
LEMMA StepRx == ASSUME RxIInv, [RxNext]_rxVars PROVE RxIInv'
<1>1. CASE UNCHANGED rxVars
  BY <1>1 DEF rxVars, session, RxIInv, RxInv, RxTypeOK, SpeakerOnlyInSession,
              DroppingIsSilent
<1> QED
  BY <1>1, ArrivesRx, TaskRx, MainRx DEF RxNext, Receiver

\* Whatever arrives, in whatever order, and whatever the driver refuses: the receive
\* task has the speaker, and the LED is lit, in a session only; and nothing is heard
\* while a stream is being dropped.
THEOREM ReceiverIsSafe == RxSpec => []RxInv
<1>1. RxIInv => RxInv BY DEF RxIInv
<1> QED BY <1>1, InitRx, StepRx, PTL DEF RxSpec

-----------------------------------------------------------------------------
(* The receive task with its clock *)

\* The ticks that the packet in hand may still take.
InHand == CASE rpc \in {"look", "restart", "start"} -> 1
            [] rpc = "write" -> 1 - waited
            [] OTHER -> 0

ClockOK ==
    /\ waited \in 0..SilenceTicks /\ (rpc = "write" => waited <= 1)
    /\ quiet \in 0..Pause

\* As long as there is something to play the last frame is not long ago: every tick
\* since then was one of a packet that is gone from the queue.
BusyMeansRecent ==
    rpc # "receive" \/ s_rx_queue # <<>> =>
        quiet + Len(s_rx_queue) + InHand <= QueueLen + 1

\* While a stream is dropped the task does nothing that takes time but wait for the
\* next packet, and one packet of those it had was refused and not played.
DroppingIsRecent ==
    dropping_stream =>
        quiet + Len(s_rx_queue) <=
            QueueLen + IF rpc = "receive" /\ s_rx_queue = <<>> THEN waited ELSE 0

\* The packet after a pause finds the queue empty and nothing being dropped.
PauseFindsIdle ==
    \A k \in 1..Len(s_rx_queue) : s_rx_queue[k].number = 1 =>
        k = 1 /\ rpc = "receive" /\ ~dropping_stream

TimedIInv ==
    /\ RxIInv /\ ClockOK
    /\ BusyMeansRecent /\ DroppingIsRecent
    /\ PauseFindsIdle /\ PauseEndsDropping

\* At start-up there has been silence for long, and there is nothing to play.
LEMMA InitTimed == ASSUME TimedInit PROVE TimedIInv
<1>1. RxIInv BY InitRx DEF TimedInit
<1>2. Len(s_rx_queue) = 0 BY EmptySeq DEF TimedInit, RxInit
<1>3. Pause \in Nat BY RxAssumption, TimedAssumption DEF Pause
<1> QED
  BY <1>1, <1>2, <1>3, TimedAssumption
     DEF TimedInit, RxInit, TimedIInv, ClockOK, BusyMeansRecent, DroppingIsRecent,
         PauseFindsIdle, PauseEndsDropping

\* A frame that comes after a pause comes to an idle task; any other makes the
\* silence short.
LEMMA RecvTimed == ASSUME TimedIInv, RecvCb PROVE TimedIInv'
<1> USE RxAssumption, TimedAssumption
<1>1. PICK p \in Packets : /\ p.number = IF quiet = Pause THEN 1 ELSE 0
                           /\ Arrives(p)
  BY DEF RecvCb
<1>2. RxIInv' BY <1>1, ArrivesRx DEF TimedIInv
<1>3. UNCHANGED <<rpc, dropping_stream, packet, waited>> /\ quiet' = 0
  BY <1>1 DEF RecvCb, Arrives, session
<1>4. s_rx_queue \in Seq(Packets) /\ Len(s_rx_queue) \in 0..QueueLen
  BY LenProperties DEF TimedIInv, RxIInv, RxInv, RxTypeOK
<1>5. Len(s_rx_queue') \in 0..QueueLen /\ Len(s_rx_queue') > 0
  BY <1>1, <1>4, QueueAppend DEF Arrives
<1>6. ClockOK' BY <1>3 DEF TimedIInv, ClockOK, Pause
<1>7. BusyMeansRecent'
  BY <1>3, <1>5 DEF TimedIInv, ClockOK, BusyMeansRecent, InHand
<1>8. DroppingIsRecent'
  BY <1>3, <1>5 DEF TimedIInv, ClockOK, DroppingIsRecent
<1>9. PauseFindsIdle'
  <2>1. SUFFICES ASSUME NEW k \in 1..Len(s_rx_queue'), s_rx_queue'[k].number = 1
                 PROVE  k = 1 /\ rpc = "receive" /\ ~dropping_stream
    BY <1>3 DEF PauseFindsIdle
  <2>2. CASE k \in 1..Len(s_rx_queue) /\ s_rx_queue'[k] = s_rx_queue[k]
    BY <2>1, <2>2 DEF TimedIInv, PauseFindsIdle
  <2>3. CASE k = Len(s_rx_queue) + 1 /\ s_rx_queue'[k] = p
    <3>1. quiet = Pause BY <1>1, <2>1, <2>3
    <3>2. Pause > QueueLen + 1 /\ Pause > QueueLen + SilenceTicks BY DEF Pause
    <3>3. rpc = "receive" /\ s_rx_queue = <<>>
      BY <1>4, <3>1, <3>2 DEF TimedIInv, ClockOK, BusyMeansRecent, InHand
    <3>4. ~dropping_stream
      BY <1>4, <3>1, <3>2 DEF TimedIInv, ClockOK, DroppingIsRecent
    <3> QED BY <2>3, <3>3, <3>4, EmptySeq
  <2> QED BY <1>1, <1>4, <2>1, <2>2, <2>3, QueueAppend DEF Arrives
<1>10. PauseEndsDropping' BY <1>3 DEF TimedIInv, PauseEndsDropping
<1> QED BY <1>2, <1>6, <1>7, <1>8, <1>9, <1>10 DEF TimedIInv

\* A tick that passes while a packet is played is one that the packet had left, and
\* one that passes in a wait is counted there.
LEMMA TickTimed == ASSUME TimedIInv, Tick PROVE TimedIInv'
<1> USE RxAssumption, TimedAssumption
<1>1. UNCHANGED <<s_rx_queue, speaker_started, dropping_stream, expected_sequence,
                  packet, rpc, spk, s_rx_active>>
  BY DEF Tick, rxVars, session
<1>2. RxIInv' BY <1>1, StepRx DEF TimedIInv, rxVars, session
<1>3. Len(s_rx_queue) \in 0..QueueLen
  BY LenProperties DEF TimedIInv, RxIInv, RxInv, RxTypeOK
<1>4. Pause \in Nat /\ Pause > QueueLen + 1 /\ Pause > QueueLen + SilenceTicks
  BY DEF Pause
<1>5. ClockOK' BY <1>1, <1>4 DEF Tick, TimedIInv, ClockOK
<1>6. BusyMeansRecent'
  BY <1>1, <1>3, <1>4 DEF Tick, TimedIInv, ClockOK, BusyMeansRecent, InHand
<1>7. DroppingIsRecent'
  <2>1. dropping_stream => rpc # "write"
    BY DEF TimedIInv, RxIInv, RxInv, DroppingIsSilent
  <2> QED
    BY <1>1, <1>3, <1>4, <2>1 DEF Tick, TimedIInv, ClockOK, DroppingIsRecent
<1>8. PauseFindsIdle' /\ PauseEndsDropping'
  BY <1>1 DEF TimedIInv, PauseFindsIdle, PauseEndsDropping
<1> QED BY <1>2, <1>5, <1>6, <1>7, <1>8 DEF TimedIInv

\* A packet is taken from the queue: it is in hand, and as recent as it was.
LEMMA ReceiveTimed ==
    ASSUME TimedIInv, TimedTask, Receive
    PROVE  /\ BusyMeansRecent' /\ DroppingIsRecent'
           /\ PauseFindsIdle' /\ PauseEndsDropping'
<1> USE RxAssumption, TimedAssumption DEF TimedTask, Receive
<1>1. s_rx_queue \in Seq(Packets) /\ s_rx_queue # <<>>
  BY DEF TimedIInv, RxIInv, RxInv, RxTypeOK
<1>2. /\ packet' = s_rx_queue[1]
      /\ Len(s_rx_queue) \in Nat \ {0}
      /\ Len(s_rx_queue') = Len(s_rx_queue) - 1
      /\ \A k \in 1..Len(s_rx_queue) - 1 : s_rx_queue'[k] = s_rx_queue[k + 1]
  BY <1>1, QueueTake
<1>3. BusyMeansRecent'
  BY <1>1, <1>2 DEF TimedIInv, ClockOK, BusyMeansRecent, InHand
<1>4. DroppingIsRecent'
  BY <1>1, <1>2 DEF TimedIInv, ClockOK, DroppingIsRecent
<1>5. PauseFindsIdle'
  <2>1. SUFFICES ASSUME NEW k \in 1..Len(s_rx_queue'), s_rx_queue'[k].number = 1
                 PROVE  FALSE
    BY DEF PauseFindsIdle
  <2>2. k + 1 \in 1..Len(s_rx_queue) /\ s_rx_queue[k + 1].number = 1
    BY <1>2, <2>1
  <2> QED BY <2>2 DEF TimedIInv, PauseFindsIdle
<1>6. PauseEndsDropping'
  BY <1>2 DEF TimedIInv, PauseFindsIdle, PauseEndsDropping
<1> QED BY <1>3, <1>4, <1>5, <1>6

\* The other statements of the task leave the queue alone.  Those that make it
\* drop a stream have a packet in hand that will not be played.
LEMMA FollowTimed ==
    ASSUME TimedIInv, TimedTask, ~Receive
    PROVE  /\ BusyMeansRecent' /\ DroppingIsRecent'
           /\ PauseFindsIdle' /\ PauseEndsDropping'
<1> USE RxAssumption, TimedAssumption
<1>1. waited' = 0 /\ quiet' = quiet BY DEF TimedTask
<1>2. Len(s_rx_queue) \in Nat /\ waited \in Nat /\ quiet \in Nat
  BY LenProperties DEF TimedIInv, ClockOK, Pause, RxIInv, RxInv, RxTypeOK
<1>3. s_rx_queue' = s_rx_queue /\ packet' = packet
  BY DEF TimedTask, RxTask, Silence, DropPacket, StartPacket, StrayPacket,
         RestartSpeaker, RestartFails, StartSpeaker, StartFails, NextPacket, Write,
         WriteFails, EndStream, Refuse, session
<1>4. \/ rpc = "receive" /\ s_rx_queue = <<>> /\ rpc' = rpc /\ ~dropping_stream'
      \/ rpc = "look" /\ rpc' \in {"receive", "start", "restart", "write"}
                       /\ (dropping_stream' => dropping_stream /\ rpc' = "receive")
      \/ rpc \in {"restart", "start"} /\ rpc' \in {"start", "write"}
                       /\ (dropping_stream' => dropping_stream)
      \/ rpc \in {"restart", "start"} /\ rpc' = "receive"
      \/ rpc = "write" /\ rpc' \in {"receive", "end", "write_error"}
                       /\ (dropping_stream' => dropping_stream)
      \/ rpc \in {"end", "write_error"} /\ rpc' = "receive"
                       /\ (dropping_stream' => dropping_stream)
  BY DEF TimedTask, RxTask, Silence, DropPacket, StartPacket, StrayPacket,
         RestartSpeaker, RestartFails, StartSpeaker, StartFails, NextPacket, Write,
         WriteFails, EndStream, Refuse, session
<1>5. dropping_stream => rpc \in {"receive", "look"}
  BY DEF TimedIInv, RxIInv, RxInv, DroppingIsSilent
<1>6. BusyMeansRecent'
  BY <1>1, <1>2, <1>3, <1>4 DEF TimedIInv, ClockOK, BusyMeansRecent, InHand
<1>7. DroppingIsRecent'
  <2>1. CASE rpc \in {"restart", "start"} /\ rpc' = "receive"
    BY <1>1, <1>2, <1>3, <2>1
       DEF TimedIInv, BusyMeansRecent, DroppingIsRecent, InHand
  <2>2. CASE dropping_stream' => dropping_stream /\ rpc = "look"
    BY <1>1, <1>2, <1>3, <2>2 DEF TimedIInv, DroppingIsRecent
  <2> QED BY <1>4, <1>5, <2>1, <2>2
<1>8. PauseFindsIdle'
  BY <1>2, <1>3, <1>4, EmptySeq DEF TimedIInv, PauseFindsIdle
<1>9. PauseEndsDropping'
  BY <1>3, <1>4 DEF TimedIInv, PauseEndsDropping
<1> QED BY <1>6, <1>7, <1>8, <1>9

\* A statement of the task, whichever it is.
LEMMA TaskTimed == ASSUME TimedIInv, TimedTask PROVE TimedIInv'
<1>1. RxIInv' BY TaskRx DEF TimedIInv, TimedTask
<1>2. ClockOK' BY TimedAssumption DEF TimedTask, TimedIInv, ClockOK
<1> QED BY <1>1, <1>2, ReceiveTimed, FollowTimed DEF TimedIInv

\* Main's use of the speaker and of the LED takes no time.
LEMMA MainTimed == ASSUME TimedIInv, MainUsesSpeaker PROVE TimedIInv'
<1>1. RxIInv' BY MainRx DEF TimedIInv, MainUsesSpeaker
<1>2. UNCHANGED <<s_rx_queue, dropping_stream, packet, rpc, waited, quiet>>
  BY DEF MainUsesSpeaker, MainPlays, MainEndsPlaying, MainDims, session
<1> QED
  BY <1>1, <1>2 DEF TimedIInv, ClockOK, BusyMeansRecent, DroppingIsRecent, InHand,
                    PauseFindsIdle, PauseEndsDropping

\* One step of the receiver and its clock, or none.
LEMMA StepTimed == ASSUME TimedIInv, [TimedNext]_timedVars PROVE TimedIInv'
<1>1. CASE UNCHANGED timedVars
  <2>1. RxIInv' BY <1>1, StepRx DEF timedVars, TimedIInv
  <2> QED
    BY <1>1, <2>1
       DEF timedVars, rxVars, session, TimedIInv, ClockOK, BusyMeansRecent,
           DroppingIsRecent, InHand, PauseFindsIdle, PauseEndsDropping
<1> QED BY <1>1, RecvTimed, TickTimed, TaskTimed, MainTimed DEF TimedNext

\* The clock only restricts when the task goes on: with it the receiver is the
\* receiver without it, and all that is proved of that one holds.
THEOREM ClockOnlyDelays == TimedSpec => RxSpec
<1>1. TimedInit => RxInit BY DEF TimedInit
<1>2. [TimedNext]_timedVars => [RxNext]_rxVars
  BY DEF TimedNext, RecvCb, Tick, TimedTask, MainUsesSpeaker, timedVars, RxNext,
         Receiver
<1> QED BY <1>1, <1>2, PTL DEF TimedSpec, RxSpec

\* So the receiver with its clock is safe too: the speaker and the LED in a session
\* only, and silence while a stream is being dropped.
THEOREM TimedReceiverIsSafe == TimedSpec => []RxInv
BY ClockOnlyDelays, ReceiverIsSafe

\* The first packet after a pause of 250 ms, and of what the queue may still hold
\* when the last frame before it comes, is never dropped, whatever was lost before.
THEOREM PauseIsHeard == TimedSpec => []PauseEndsDropping
<1>1. TimedIInv => PauseEndsDropping BY DEF TimedIInv
<1> QED BY <1>1, InitTimed, StepTimed, PTL DEF TimedSpec

-----------------------------------------------------------------------------
(* What SpeakerComesBack rests on besides fairness: once no frame comes, the    *)
(* receive task has the speaker for a bounded number of ticks and statements.   *)

\* What the statement the task is at has left to do for the packet in hand, its
\* tick included; or, with nothing to play, the rest of the wait.
AtHand ==
    CASE rpc = "receive" /\ s_rx_queue = <<>> -> SilenceTicks - waited + 1
      [] rpc = "receive" /\ s_rx_queue # <<>> -> SilenceTicks + 1
      [] rpc = "look"                         -> SilenceTicks + 5
      [] rpc = "write"                        -> SilenceTicks + 4 - waited
      [] OTHER                                -> SilenceTicks + 2

\* A packet that waits in the queue is received, looked at, played for a tick,
\* written and, if it is the last of its stream, ended.
ToSilence == 5 * Len(s_rx_queue) + AtHand

\* What a step that is not the arrival of a frame does to a speaker that the task has.
TowardsSilence ==
    \/ spk' # "rx"
    \/ IF Tick \/ TimedTask THEN ToSilence' < ToSilence
                            ELSE ToSilence' = ToSilence

\* The number is in its range.
LEMMA SilenceBounded ==
    ASSUME TimedIInv
    PROVE  ToSilence \in 1..5 * QueueLen + SilenceTicks + 5
<1> USE RxAssumption, TimedAssumption
<1>1. Len(s_rx_queue) \in 0..QueueLen
  BY LenProperties DEF TimedIInv, RxIInv, RxInv, RxTypeOK
<1>2. AtHand \in 1..SilenceTicks + 5
  <2>1. waited \in 0..SilenceTicks /\ (rpc = "write" => waited <= 1)
    BY DEF TimedIInv, ClockOK
  <2>2. AtHand \in {SilenceTicks - waited + 1, SilenceTicks + 1, SilenceTicks + 2,
                   SilenceTicks + 5, SilenceTicks + 4 - waited}
    BY DEF AtHand
  <2> QED BY <2>1, <2>2
<1> HIDE DEF AtHand
<1> QED BY <1>1, <1>2 DEF ToSilence

\* A tick of the last wait, or of the packet that is being written.
LEMMA TickGetsOn ==
    ASSUME TimedIInv, Tick
    PROVE  ToSilence' < ToSilence
<1> USE TimedAssumption
<1>1. UNCHANGED <<s_rx_queue, rpc>> BY DEF Tick, rxVars
<1>2. waited \in Nat /\ waited' = waited + 1 BY DEF Tick, TimedIInv, ClockOK
<1>3. AtHand' = AtHand - 1 /\ AtHand \in Int
  <2>1. CASE rpc = "receive" /\ s_rx_queue = <<>>
    BY <1>1, <1>2, <2>1 DEF AtHand
  <2>2. CASE rpc = "write"
    BY <1>1, <1>2, <2>2 DEF AtHand
  <2> QED BY <2>1, <2>2 DEF Tick
<1>4. Len(s_rx_queue) \in Nat
  BY LenProperties DEF TimedIInv, RxIInv, RxInv, RxTypeOK
<1> QED BY <1>1, <1>3, <1>4 DEF ToSilence

\* A statement of the task that leaves it the speaker.
LEMMA TaskNearsSilence ==
    ASSUME TimedIInv, TimedTask, spk = "rx", spk' = "rx"
    PROVE  ToSilence' < ToSilence
<1> USE TimedAssumption
<1>1. s_rx_queue \in Seq(Packets) /\ Len(s_rx_queue) \in Nat
      /\ waited \in 0..SilenceTicks /\ (rpc = "write" => waited <= 1)
      /\ waited' = 0
  BY LenProperties DEF TimedTask, TimedIInv, ClockOK, RxIInv, RxInv, RxTypeOK
<1>2. speaker_started /\ ~dropping_stream /\ rpc # "start"
  BY DEF TimedIInv, RxIInv, RxInv, SpeakerOnlyInSession, DroppingIsSilent
<1>3. ~Stopped /\ ~StopFails BY DEF Stopped, StopFails
<1>4. CASE Receive
  <2>1. Len(s_rx_queue') = Len(s_rx_queue) - 1
    BY <1>1, <1>4, QueueTake DEF Receive
  <2>2. AtHand = SilenceTicks + 1 /\ AtHand' = SilenceTicks + 5
    BY <1>4 DEF Receive, AtHand
  <2> QED BY <1>1, <2>1, <2>2 DEF ToSilence
<1>5. CASE StartPacket \/ NextPacket
  <2>1. UNCHANGED s_rx_queue BY <1>5 DEF StartPacket, NextPacket
  <2>2. AtHand = SilenceTicks + 5 BY <1>5 DEF StartPacket, NextPacket, AtHand
  <2>3. AtHand' \in {SilenceTicks + 4, SilenceTicks + 2}
    BY <1>1, <1>2, <1>5 DEF StartPacket, NextPacket, AtHand
  <2> QED BY <1>1, <2>1, <2>2, <2>3 DEF ToSilence
<1>6. CASE Write \/ WriteFails
  <2>1. UNCHANGED s_rx_queue BY <1>6 DEF Write, WriteFails
  <2>2. AtHand = SilenceTicks + 4 - waited /\ waited \in {0, 1}
    BY <1>1, <1>6 DEF Write, WriteFails, AtHand
  <2>3. AtHand' \in {SilenceTicks + 1, SilenceTicks + 2}
    BY <1>1, <1>6 DEF Write, WriteFails, AtHand
  <2> QED BY <1>1, <2>1, <2>2, <2>3 DEF ToSilence
<1> QED
  BY <1>2, <1>3, <1>4, <1>5, <1>6
     DEF TimedTask, RxTask, Silence, DropPacket, StrayPacket, RestartSpeaker,
         RestartFails, StartSpeaker, StartFails, EndStream

\* Every step but an arrival; of Main only the LED concerns a board that receives.
LEMMA TowardsSilenceStep ==
    ASSUME TimedIInv, [TimedNext]_timedVars, spk = "rx", ~RecvCb
    PROVE  TowardsSilence
<1>1. CASE Tick BY <1>1, TickGetsOn DEF TowardsSilence
<1>2. CASE TimedTask BY <1>2, TaskNearsSilence DEF TowardsSilence
<1>3. ASSUME ~Tick, ~TimedTask, UNCHANGED <<s_rx_queue, rpc, waited>>
      PROVE  TowardsSilence
  <2>1. AtHand' = AtHand BY <1>3 DEF AtHand
  <2> QED BY <1>3, <2>1 DEF TowardsSilence, ToSilence
<1>4. CASE MainUsesSpeaker
  <2>1. UNCHANGED <<s_rx_queue, rpc, waited>>
    BY <1>4 DEF MainUsesSpeaker, MainPlays, MainEndsPlaying, MainDims
  <2> QED BY <1>1, <1>2, <1>3, <2>1
<1>5. CASE UNCHANGED timedVars
  <2>1. UNCHANGED <<s_rx_queue, rpc, waited>> BY <1>5 DEF timedVars, rxVars
  <2> QED BY <1>1, <1>2, <1>3, <2>1
<1> QED BY <1>1, <1>2, <1>4, <1>5 DEF TimedNext

\* Once no frame comes the receive task keeps the speaker for a bounded time, even
\* if every END was lost: what the queue still holds is played, and then the rest
\* of one silence passes. Every tick and every statement of the task brings that
\* nearer, and Main does not put it off.
THEOREM SilenceGetsOn ==
    TimedSpec =>
        /\ [](ToSilence \in 1..5 * QueueLen + SilenceTicks + 5)
        /\ [][spk = "rx" /\ ~RecvCb => TowardsSilence]_timedVars
<1>1. TimedIInv => ToSilence \in 1..5 * QueueLen + SilenceTicks + 5
  BY SilenceBounded
<1>2. TimedIInv /\ [TimedNext]_timedVars =>
        [spk = "rx" /\ ~RecvCb => TowardsSilence]_timedVars
  BY TowardsSilenceStep
<1> QED BY <1>1, <1>2, InitTimed, StepTimed, PTL DEF TimedSpec
==============================================================================
