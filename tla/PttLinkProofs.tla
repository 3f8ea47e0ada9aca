---------------------------- MODULE PttLinkProofs ----------------------------
(***************************************************************************)
(* The radio link, proved for every number of calls, packets and recordings,*)
(* every length of the queue and every range of the sequence number: first  *)
(* what its sending half puts on the air, then what is heard at the other   *)
(* end of a radio that may lose any packet.                                *)
(***************************************************************************)
EXTENDS PttLink, SequenceTheorems, FiniteSetTheorems, TLAPS

-----------------------------------------------------------------------------
(* The inductive invariant of the sender *)

\* A packet is under construction, with the driver or just reported.
Sending == tpc \in TxPcs \ {"idle", "record"}

\* The packets that the driver has and has not tried to transmit.
FirstWaiting == IF cb THEN 2 ELSE 1
Waiting == {driver[k] : k \in FirstWaiting..Len(driver)}

\* The packets made so far, but for those that the driver or the radio refused.
Made == sent \cup Waiting \cup (IF Sending THEN {out} ELSE {})

\* The variables of the call and the place Main is at.
CallOK ==
    /\ mic <=> s_streaming_tx
    /\ s_streaming_tx => s_streaming_tx_sequence = number % SeqMod
    /\ s_streaming_tx /\ (tpc = "idle" \/ op # "stop") =>
          (s_streaming_tx_first_packet <=> number = 0) /\ number <= MaxPackets
    /\ tpc # "idle" => (s_streaming_tx <=> op # "recording")
    /\ tpc = "record" => op = "recording" /\ number < length
    /\ Sending => out.stream = stream /\ number = out.number + 1

\* END is on the packet that its call means to be the last.
LastIsEnd ==
    Sending => /\ op = "next" => ~out.end
               /\ op \in {"next_end", "stop"} => out.end
               /\ op = "recording" => number <= length /\ (out.end <=> number = length)

CallInv == TxTypeOK /\ CallOK /\ LastIsEnd /\ (cb => driver # <<>>)

\* How a packet's fields follow from its place in its stream.
Numbered ==
    \A p \in Made : /\ p \in TxPackets /\ p.stream <= stream
                    /\ p.stream = stream => p.number < number
                    /\ p.start <=> p.number = 0
                    /\ p.sequence = p.number % SeqMod

\* After an END nothing but an END is made; Main has been told to stop.
EndIsLast ==
    /\ \A p, q \in Made : p.stream = q.stream /\ p.number < q.number /\ p.end => q.end
    /\ \A p \in Made : p.stream = stream /\ p.end =>
          /\ tpc # "record"
          /\ tpc = "idle" /\ s_streaming_tx => tret # "OK"
          /\ Sending => out.end

\* Packets are transmitted in the order in which they were made.
InOrder ==
    /\ \A j, k \in FirstWaiting..Len(driver) : j < k => Before(driver[j], driver[k])
    /\ \A p \in sent : \A q \in Waiting : Before(p, q)
    /\ tpc \in {"drain", "reset", "submit"} =>
          \A p \in sent \cup Waiting : Before(p, out)

\* As long as no callback is late, status and semaphore are those of the packet in
\* hand: the driver has no other, and a full semaphore means that it is done.
Reported == s_last_send_status = "SUCCESS" => out \in sent
OneAtATime ==
    ~late =>
        /\ tpc # "wait" => driver = <<>>
        /\ tpc \in {"reset", "submit", "status"} => ~s_send_done_sem
        /\ tpc = "wait" =>
              IF s_send_done_sem THEN driver = <<>>
                                 ELSE Len(driver) = 1 /\ driver[1] = out
        /\ tpc = "submit" => s_last_send_status = "FAIL"
        /\ tpc = "wait" /\ (s_send_done_sem \/ cb) => Reported
        /\ tpc = "status" => Reported
        /\ tpc = "ok" => out \in confirmed

\* The first part of ConfirmedWasSent; the second has an invariant of its own below.
ConfirmedInTime == ~late => confirmed \subseteq sent

TxIInv ==
    /\ CallInv
    /\ Numbered /\ EndIsLast /\ InOrder
    /\ OneAtATime /\ ConfirmedInTime

-----------------------------------------------------------------------------
(* Arithmetic and queues *)

\* Division with remainder.
LEMMA DivMod ==
    ASSUME NEW m \in Nat \ {0}, NEW n \in Nat
    PROVE  n \div m \in Nat /\ n % m \in 0..m - 1 /\ n = m * (n \div m) + (n % m)
OBVIOUS

LEMMA ModOfSum ==
    ASSUME NEW m \in Nat \ {0}, NEW q \in Nat, NEW r \in 0..m - 1
    PROVE  (m * q + r) % m = r
OBVIOUS

\* A sequence number that is counted up with wrap-around is the packet's number,
\* wrapped around.
LEMMA ModSucc ==
    ASSUME NEW m \in Nat \ {0}, NEW n \in Nat
    PROVE  ((n % m) + 1) % m = (n + 1) % m
<1> DEFINE q == n \div m
           r == n % m
<1>1. q \in Nat /\ r \in 0..m - 1 /\ n = m * q + r BY DivMod
<1> HIDE DEF q, r
<1>2. CASE r + 1 < m
  <2>1. r + 1 \in 0..m - 1 /\ r + 1 = m * 0 + (r + 1) BY <1>1, <1>2
  <2>2. (r + 1) % m = r + 1 BY <1>2, <2>1, ModOfSum
  <2>3. n + 1 = m * q + (r + 1) BY <1>1
  <2>4. (n + 1) % m = r + 1 BY <1>1, <2>1, <2>3, ModOfSum
  <2> QED BY <2>2, <2>4 DEF r
<1>3. CASE r + 1 = m
  <2>1. (r + 1) % m = 0 BY <1>3
  <2>2. n + 1 = m * (q + 1) + 0 BY <1>1, <1>3
  <2>3. q + 1 \in Nat /\ 0 \in 0..m - 1 BY <1>1
  <2>4. (n + 1) % m = 0 BY <2>2, <2>3, ModOfSum
  <2> QED BY <2>1, <2>4 DEF r
<1> QED BY <1>1, <1>2, <1>3

\* What Append does to a queue, element by element.
LEMMA QueueAppend ==
    ASSUME NEW S, NEW q \in Seq(S), NEW p \in S
    PROVE  /\ Append(q, p) \in Seq(S)
           /\ Len(q) \in Nat /\ Len(Append(q, p)) = Len(q) + 1
           /\ \A k \in 1..Len(q) : Append(q, p)[k] = q[k]
           /\ Append(q, p)[Len(q) + 1] = p
           /\ Append(q, p) # <<>>
BY AppendProperties, LenProperties

\* What taking the head off a queue leaves, element by element.
LEMMA QueueTake ==
    ASSUME NEW S, NEW q \in Seq(S), q # <<>>
    PROVE  /\ Head(q) = q[1] /\ Head(q) \in S
           /\ Tail(q) \in Seq(S)
           /\ Len(q) \in Nat \ {0} /\ Len(Tail(q)) = Len(q) - 1
           /\ \A k \in 1..Len(q) - 1 : Tail(q)[k] = q[k + 1]
BY HeadTailProperties, EmptySeq, LenProperties

-----------------------------------------------------------------------------
(* The sender: types and the state of the call *)

\* The packet a call makes next, its flags and its sequence number.
LEMMA MakePacketOK ==
    ASSUME TxTypeOK, CallOK, s_streaming_tx, tpc = "idle",
           NEW end \in BOOLEAN, MakePacket(end)
    PROVE  /\ out' \in TxPackets
           /\ out'.stream = stream /\ out'.number = number /\ out'.end = end
           /\ out'.start <=> number = 0
           /\ out'.sequence = number % SeqMod
           /\ number' = number + 1 /\ number' \in 0..MaxPackets + 1
           /\ s_streaming_tx_sequence' = number' % SeqMod
           /\ s_streaming_tx_sequence' \in 0..SeqMod - 1
<1> USE TxAssumption
<1>1. number \in 0..MaxPackets /\ stream \in 0..MaxStreams
  BY DEF TxTypeOK, CallOK
<1>2. s_streaming_tx_sequence = number % SeqMod BY DEF CallOK
<1>3. /\ ((number % SeqMod) + 1) % SeqMod = (number + 1) % SeqMod
      /\ (number + 1) % SeqMod \in 0..SeqMod - 1
      /\ number % SeqMod \in 0..SeqMod - 1
  <2>1. SeqMod \in Nat \ {0} /\ number \in Nat /\ number + 1 \in Nat
    BY <1>1, TxAssumption
  <2> HIDE TxAssumption
  <2>2. ((number % SeqMod) + 1) % SeqMod = (number + 1) % SeqMod
    BY <2>1, ModSucc
  <2>3. (number + 1) % SeqMod \in 0..SeqMod - 1 /\ number % SeqMod \in 0..SeqMod - 1
    BY <2>1, DivMod
  <2> QED BY <2>2, <2>3
<1>4. s_streaming_tx_first_packet \in BOOLEAN BY DEF TxTypeOK
<1>5. out' = [stream |-> stream, number |-> number, sequence |-> number % SeqMod,
              start |-> s_streaming_tx_first_packet, end |-> end]
  BY <1>2 DEF MakePacket
<1>6. out' \in TxPackets BY <1>1, <1>3, <1>4, <1>5 DEF TxPackets, Numbers
<1>7. s_streaming_tx_first_packet <=> number = 0 BY DEF CallOK
<1>8. out'.start = s_streaming_tx_first_packet BY <1>5
<1>9. /\ number' = number + 1
      /\ s_streaming_tx_sequence' = (number + 1) % SeqMod
  BY <1>2, <1>3 DEF MakePacket
<1> HIDE TxAssumption
<1>10. out'.start <=> number = 0 BY <1>7, <1>8
<1>11. /\ out'.stream = stream /\ out'.number = number /\ out'.end = end
       /\ out'.sequence = number % SeqMod
  BY <1>5
<1>12. number' \in 0..MaxPackets + 1 BY <1>1, <1>9, TxAssumption
<1> QED BY <1>3, <1>6, <1>9, <1>10, <1>11, <1>12

\* Between calls, and at the beginning and the end of one.
LEMMA CallOutside ==
    ASSUME CallInv,
           \/ StreamStart \/ StreamStartFails \/ ReadFails \/ SendNextRefused
           \/ (\E n \in Recordings : SendRecording(n)) \/ RecordFails
           \/ ReturnFromCall \/ ReturnFromPacket \/ ReturnFromRecording
           \/ NextRecorded
    PROVE  CallInv'
<1> USE TxAssumption
    DEF CallInv, TxTypeOK, CallOK, LastIsEnd, Sending, TxPcs, call, live, signal,
        place, radio
<1>1. CASE StreamStart
  <2>1. CASE s_streaming_tx BY <1>1, <2>1 DEF StreamStart
  <2>2. CASE ~s_streaming_tx
    <3>1. 0 = 0 % SeqMod /\ 0 \in 0..SeqMod - 1 OBVIOUS
    <3> QED BY <1>1, <2>2, <3>1 DEF StreamStart
  <2> QED BY <2>1, <2>2
<1>2. CASE StreamStartFails BY <1>2 DEF StreamStartFails
<1>3. CASE ReadFails BY <1>3 DEF ReadFails
<1>4. CASE SendNextRefused BY <1>4 DEF SendNextRefused
<1>5. ASSUME NEW n \in Recordings, SendRecording(n) PROVE CallInv'
  BY <1>5 DEF SendRecording
<1>6. CASE RecordFails
  <2>1. s_tx_active' \in BOOLEAN BY <1>6 DEF RecordFails
  <2> QED BY <1>6, <2>1 DEF RecordFails
<1>7. CASE ReturnFromCall
  BY <1>7 DEF ReturnFromCall, Returned, EndsCall, Outcome
<1>8. CASE ReturnFromPacket
  BY <1>8 DEF ReturnFromPacket, Returned, EndsCall, Outcome
<1>9. CASE ReturnFromRecording
  BY <1>9 DEF ReturnFromRecording, Returned, EndsRecording, Outcome
<1>10. CASE NextRecorded
  BY <1>10 DEF NextRecorded, Returned, EndsRecording
<1> QED BY <1>1, <1>2, <1>3, <1>4, <1>5, <1>6, <1>7, <1>8, <1>9, <1>10

\* A packet is made.
LEMMA CallMakes ==
    ASSUME CallInv,
           (\E end \in EndFlags : SendNext(end)) \/ StreamStop \/ RecordedPacket
    PROVE  CallInv'
<1> USE DEF CallInv
<1>1. ASSUME NEW end \in EndFlags, SendNext(end) PROVE CallInv'
  <2>1. end \in BOOLEAN /\ MakePacket(end) /\ s_streaming_tx /\ tpc = "idle"
    BY <1>1, TxAssumption DEF SendNext
  <2>2. /\ out' \in TxPackets /\ out'.stream = stream /\ out'.number = number
        /\ out'.end = end
        /\ number' = number + 1 /\ number' \in 0..MaxPackets + 1
        /\ s_streaming_tx_sequence' = number' % SeqMod
        /\ s_streaming_tx_sequence' \in 0..SeqMod - 1
    BY <2>1, MakePacketOK
  <2>3. number \in Nat /\ number < MaxPackets /\ MaxPackets \in Nat
    BY <1>1, TxAssumption DEF SendNext, TxTypeOK
  <2>4. /\ tpc' = "drain" /\ op' = IF end THEN "next_end" ELSE "next"
        /\ ~s_streaming_tx_first_packet' /\ s_streaming_tx_first_packet' \in BOOLEAN
        /\ UNCHANGED <<s_streaming_tx, mic, s_tx_active, length, stream, signal,
                       tret, radio, confirmed, late>>
    BY <1>1 DEF SendNext
  <2>5. TxTypeOK' BY <2>2, <2>4 DEF TxTypeOK, TxPcs, signal, radio
  <2>6. CallOK' BY <2>1, <2>2, <2>3, <2>4 DEF CallOK, Sending, TxPcs
  <2>7. LastIsEnd' BY <2>1, <2>2, <2>4 DEF LastIsEnd
  <2>8. cb' => driver' # <<>> BY <2>4 DEF radio
  <2> QED BY <2>5, <2>6, <2>7, <2>8
<1>2. CASE StreamStop /\ s_streaming_tx
  <2>1. MakePacket(TRUE) /\ tpc = "idle" BY <1>2 DEF StreamStop
  <2> QED
    BY <1>2, <2>1, MakePacketOK
       DEF StreamStop, TxTypeOK, CallOK, LastIsEnd, Sending, TxPcs, signal, radio
<1>3. CASE StreamStop /\ ~s_streaming_tx
  BY <1>3 DEF StreamStop, TxTypeOK, CallOK, LastIsEnd, Sending, TxPcs, signal, radio
<1>4. CASE RecordedPacket
  <2>1. /\ number \in Nat /\ length \in Nat /\ MaxPackets \in Nat
        /\ number < length /\ length <= MaxPackets
    <3>1. number < length BY <1>4 DEF RecordedPacket, CallOK
    <3>2. number \in Nat /\ length \in Recordings \cup {0} BY DEF TxTypeOK
    <3> QED BY <3>1, <3>2, TxAssumption
  <2>2. number % SeqMod \in 0..SeqMod - 1
    BY <2>1, TxAssumption, DivMod
  <2>3. out' \in TxPackets
    BY <1>4, <2>1, <2>2 DEF RecordedPacket, TxTypeOK, TxPackets, Numbers
  <2>4. /\ out'.stream = stream /\ out'.number = number
        /\ out'.end <=> number + 1 >= length
        /\ number' = number + 1 /\ tpc = "record" /\ tpc' = "drain"
        /\ UNCHANGED <<live, s_tx_active, length, stream, signal, op, tret, radio,
                       confirmed, late>>
    BY <1>4 DEF RecordedPacket
  <2>5. TxTypeOK' BY <2>1, <2>3, <2>4 DEF TxTypeOK, TxPcs, live, signal, radio
  <2>6. CallOK' BY <2>1, <2>4 DEF CallOK, Sending, TxPcs, live
  <2>7. op = "recording" BY <2>4 DEF CallOK
  <2>8. LastIsEnd' BY <2>1, <2>4, <2>7 DEF LastIsEnd
  <2>9. cb' => driver' # <<>> BY <2>4 DEF radio
  <2> QED BY <2>5, <2>6, <2>8, <2>9
<1> QED BY <1>1, <1>2, <1>3, <1>4

\* network_audio_send_packet, the driver and the radio.
LEMMA CallSends ==
    ASSUME CallInv,
           \/ Drain \/ Reset \/ Submit \/ WaitDone \/ WaitTimesOut \/ Status
           \/ SendCb \/ SendCbGives \/ Lose
    PROVE  CallInv'
<1> USE DEF CallInv, TxTypeOK, CallOK, LastIsEnd, Sending, TxPcs, call, live, signal,
        place, radio, Step
<1>1. CASE Drain
  <2>1. /\ tpc = "drain" /\ tpc' = "reset" /\ s_send_done_sem' \in BOOLEAN
        /\ UNCHANGED <<call, s_last_send_status, op, out, tret, radio, confirmed, late>>
    BY <1>1 DEF Drain
  <2> QED BY <2>1
<1>2. CASE Reset BY <1>2 DEF Reset
<1>3. CASE Submit
  <2>1. driver' \in Seq(TxPackets)
    BY <1>3, QueueAppend DEF Submit
  <2>2. driver' # <<>> \/ driver' = driver BY <1>3, QueueAppend DEF Submit
  <2>3. /\ tpc = "submit" /\ tpc' \in {"wait", "failed"}
        /\ UNCHANGED <<call, signal, op, out, tret, cb, air, sent, confirmed, late>>
    BY <1>3 DEF Submit
  <2> QED BY <2>1, <2>2, <2>3
<1>4. CASE WaitDone
  <2>1. /\ tpc = "wait" /\ tpc' = "status" /\ s_send_done_sem' \in BOOLEAN
        /\ UNCHANGED <<call, s_last_send_status, op, out, tret, radio, confirmed, late>>
    BY <1>4 DEF WaitDone
  <2> QED BY <2>1
<1>5. CASE WaitTimesOut BY <1>5 DEF WaitTimesOut
<1>6. CASE Status BY <1>6 DEF Status
<1>7. CASE SendCb
  <2>1. Head(driver) \in TxPackets BY <1>7, QueueTake DEF SendCb
  <2>2. /\ air' \in Seq(TxPackets) /\ sent' \subseteq TxPackets
        /\ s_last_send_status' \in {"SUCCESS", "FAIL"}
    <3>1. /\ air \in Seq(TxPackets) /\ sent \subseteq TxPackets OBVIOUS
    <3>2. \/ s_last_send_status' = "FAIL" /\ air' = air /\ sent' = sent
          \/ /\ s_last_send_status' = "SUCCESS"
             /\ air' = Append(air, Head(driver)) /\ sent' = sent \cup {Head(driver)}
      BY <1>7 DEF SendCb
    <3> HIDE DEF CallInv, TxTypeOK, CallOK, LastIsEnd
    <3> QED BY <2>1, <3>1, <3>2, QueueAppend
  <2>3. /\ driver # <<>> /\ cb' = TRUE
        /\ UNCHANGED <<call, s_send_done_sem, place, driver, confirmed, late>>
    BY <1>7 DEF SendCb
  <2> QED BY <2>2, <2>3
<1>8. CASE SendCbGives
  <2>1. driver # <<>> BY <1>8 DEF SendCbGives
  <2>2. driver' \in Seq(TxPackets) BY <1>8, <2>1, QueueTake DEF SendCbGives
  <2>3. /\ s_send_done_sem' \in BOOLEAN /\ cb' \in BOOLEAN /\ ~cb'
        /\ UNCHANGED <<call, s_last_send_status, place, air, sent, confirmed, late>>
    BY <1>8 DEF SendCbGives
  <2> QED BY <2>2, <2>3
<1>9. CASE Lose
  BY <1>9, QueueTake DEF Lose
<1> QED BY <1>1, <1>2, <1>3, <1>4, <1>5, <1>6, <1>7, <1>8, <1>9

-----------------------------------------------------------------------------
(* The sender: its packets *)

PacketInv == Numbered /\ EndIsLast /\ InOrder /\ OneAtATime /\ ConfirmedInTime

\* Packets stay as they are when no packet is made, nothing is transmitted and no
\* callback comes; a new call has none yet.
LEMMA PacketsOutside ==
    ASSUME TxIInv,
           \/ StreamStart \/ StreamStartFails \/ ReadFails \/ SendNextRefused
           \/ (\E n \in Recordings : SendRecording(n)) \/ RecordFails
           \/ ReturnFromCall \/ ReturnFromPacket \/ ReturnFromRecording
           \/ NextRecorded \/ (StreamStop /\ ~s_streaming_tx)
    PROVE  PacketInv'
<1>1. /\ tpc \in {"idle", "ok", "failed"} /\ tpc' \in {"idle", "record"}
      /\ UNCHANGED <<driver, cb, sent, out, confirmed, late>>
  BY DEF StreamStart, StreamStartFails, ReadFails, SendNextRefused, SendRecording,
         RecordFails, ReturnFromCall, ReturnFromPacket, ReturnFromRecording,
         NextRecorded, StreamStop, Returned, call, live, signal, place, radio
<1>2. Waiting' = Waiting /\ FirstWaiting' = FirstWaiting
  BY <1>1 DEF Waiting, FirstWaiting
<1>3. Made' \subseteq Made
  BY <1>1, <1>2 DEF Made, Sending
<1>4. stream \in Nat /\ number \in Nat BY DEF TxIInv, CallInv, TxTypeOK
<1>5. (stream' = stream /\ number' = number) \/ stream' = stream + 1
  BY DEF StreamStart, StreamStartFails, ReadFails, SendNextRefused, SendRecording,
         RecordFails, ReturnFromCall, ReturnFromPacket, ReturnFromRecording,
         NextRecorded, StreamStop, Returned, call, live, signal, place, radio
<1>6. Numbered'
  BY <1>3, <1>4, <1>5 DEF TxIInv, Numbered, TxPackets, Numbers
<1>7. EndIsLast'
  <2>1. \A p, q \in Made' : p.stream = q.stream /\ p.number < q.number /\ p.end => q.end
    BY <1>3 DEF TxIInv, EndIsLast
  <2>2. SUFFICES ASSUME NEW p \in Made', p.stream = stream', p.end
                 PROVE  /\ tpc' # "record"
                        /\ tpc' = "idle" /\ s_streaming_tx' => tret' # "OK"
    BY <1>1, <2>1 DEF EndIsLast, Sending
  <2>3. p \in Made /\ p.stream <= stream /\ p.stream = stream
    BY <1>3, <1>4, <1>5, <2>2 DEF TxIInv, Numbered, TxPackets
  <2>4. /\ tpc = "idle" /\ s_streaming_tx => tret # "OK"
        /\ tpc \in {"ok", "failed"} => out.end
    BY <2>2, <2>3 DEF TxIInv, EndIsLast, Sending, TxPcs
  <2>5. stream' = stream BY <2>2, <2>3
  <2>6. CASE StreamStart
    <3>1. tret' = "INVALID_STATE" /\ tpc' = "idle"
      BY <1>4, <2>5, <2>6 DEF StreamStart
    <3> QED BY <3>1
  <2>11. CASE StreamStartFails \/ ReadFails \/ SendNextRefused \/ RecordFails
    <3>1. tret' \in {"FAIL", "INVALID_STATE"} /\ tpc' = "idle"
      BY <2>11 DEF StreamStartFails, ReadFails, SendNextRefused, RecordFails
    <3> QED BY <3>1
  <2>12. CASE \E n \in Recordings : SendRecording(n)
    BY <1>4, <2>5, <2>12 DEF SendRecording
  <2>13. CASE StreamStop /\ ~s_streaming_tx
    BY <2>13 DEF StreamStop
  <2>7. CASE ReturnFromCall BY <2>7 DEF ReturnFromCall
  <2>8. CASE ReturnFromPacket
    BY <2>4, <2>8
       DEF ReturnFromPacket, Returned, EndsCall, Outcome, TxIInv, CallInv,
           LastIsEnd, Sending, TxPcs, TxTypeOK
  <2>9. CASE ReturnFromRecording
    BY <2>9 DEF ReturnFromRecording, EndsRecording, TxIInv, CallInv, CallOK, live,
                Returned
  <2>10. CASE NextRecorded
    BY <2>4, <2>10
       DEF NextRecorded, Returned, EndsRecording, TxIInv, CallInv, LastIsEnd,
           Sending, TxPcs
  <2> QED BY <2>6, <2>7, <2>8, <2>9, <2>10, <2>11, <2>12, <2>13
<1>8. InOrder'
  BY <1>1, <1>2 DEF TxIInv, InOrder, Before
<1>9. OneAtATime' /\ ConfirmedInTime'
  BY <1>1 DEF TxIInv, OneAtATime, ConfirmedInTime, Reported
<1> QED BY <1>6, <1>7, <1>8, <1>9 DEF PacketInv

\* What the three places that make a packet have in common: it is the next of its
\* stream, START is on the first, and it is an END if the stream has had one.
LEMMA MakesNext ==
    ASSUME TxIInv,
           \/ \E end \in EndFlags : SendNext(end)
           \/ StreamStop /\ s_streaming_tx
           \/ RecordedPacket
    PROVE  /\ tpc \in {"idle", "record"} /\ tpc' = "drain"
           /\ stream' = stream /\ number' = number + 1
           /\ UNCHANGED <<signal, radio, confirmed, late>>
           /\ out' \in TxPackets /\ out'.stream = stream /\ out'.number = number
           /\ out'.start <=> number = 0
           /\ out'.sequence = number % SeqMod
           /\ \A p \in Made : p.stream = stream /\ p.end => out'.end
<1>0. CallInv /\ TxTypeOK /\ CallOK BY DEF TxIInv, CallInv
<1>1. ASSUME NEW end \in EndFlags, SendNext(end)
      PROVE  /\ MakePacket(end) /\ end \in BOOLEAN
             /\ tpc = "idle" /\ s_streaming_tx /\ tret = "OK" /\ tpc' = "drain"
             /\ UNCHANGED <<signal, radio, confirmed, late, stream>>
  BY <1>1, TxAssumption DEF SendNext
<1>2. ASSUME StreamStop, s_streaming_tx
      PROVE  /\ MakePacket(TRUE)
             /\ tpc = "idle" /\ tpc' = "drain"
             /\ UNCHANGED <<signal, radio, confirmed, late, stream>>
  BY <1>2 DEF StreamStop
<1>3. CASE \E end \in EndFlags : SendNext(end)
  <2>1. PICK end \in EndFlags : SendNext(end) BY <1>3
  <2>2. \A p \in Made : p.stream = stream => ~p.end
    BY <1>1, <2>1 DEF TxIInv, EndIsLast
  <2> QED BY <1>0, <1>1, <2>1, <2>2, MakePacketOK
<1>4. CASE StreamStop /\ s_streaming_tx
  <2>1. out'.end BY <1>0, <1>2, <1>4, MakePacketOK
  <2> QED BY <1>0, <1>2, <1>4, <2>1, MakePacketOK
<1>5. CASE RecordedPacket
  <2>1. out' \in TxPackets
    BY <1>0, <1>5, CallMakes DEF CallInv, TxTypeOK
  <2>2. \A p \in Made : p.stream = stream => ~p.end
    BY <1>5 DEF RecordedPacket, TxIInv, EndIsLast
  <2> QED BY <1>5, <2>1, <2>2 DEF RecordedPacket
<1> QED BY <1>3, <1>4, <1>5

LEMMA PacketsMakes ==
    ASSUME TxIInv,
           \/ \E end \in EndFlags : SendNext(end)
           \/ StreamStop /\ s_streaming_tx
           \/ RecordedPacket
    PROVE  PacketInv'
<1>1. /\ tpc \in {"idle", "record"} /\ tpc' = "drain"
      /\ stream' = stream /\ number' = number + 1
      /\ UNCHANGED <<signal, radio, confirmed, late>>
      /\ out' \in TxPackets /\ out'.stream = stream /\ out'.number = number
      /\ out'.start <=> number = 0
      /\ out'.sequence = number % SeqMod
      /\ \A p \in Made : p.stream = stream /\ p.end => out'.end
  BY MakesNext
<1>2. Waiting' = Waiting /\ FirstWaiting' = FirstWaiting
  BY <1>1 DEF Waiting, FirstWaiting, radio
<1>3. Made = sent \cup Waiting /\ Made' = Made \cup {out'}
  BY <1>1, <1>2 DEF Made, Sending, TxPcs, radio
<1>4. stream \in Nat /\ number \in Nat BY DEF TxIInv, CallInv, TxTypeOK
<1>5. \A p \in Made : Before(p, out') /\ p.number \in Nat /\ p.stream \in Nat
  BY <1>1, <1>4 DEF TxIInv, Numbered, Before, TxPackets, Numbers
<1>6. Numbered'
  <2>1. SUFFICES ASSUME NEW p \in Made'
                 PROVE  /\ p \in TxPackets /\ p.stream <= stream
                        /\ p.stream = stream => p.number < number + 1
                        /\ p.start <=> p.number = 0
                        /\ p.sequence = p.number % SeqMod
    BY <1>1 DEF Numbered
  <2>2. CASE p \in Made BY <1>4, <1>5, <2>2 DEF TxIInv, Numbered
  <2>3. CASE p = out'
    <3>1. p.number < number + 1 /\ p.stream <= stream BY <1>1, <1>4, <2>3
    <3> QED BY <1>1, <2>3, <3>1
  <2> QED BY <1>3, <2>1, <2>2, <2>3
<1>7. EndIsLast'
  <2>1. ASSUME NEW p \in Made', NEW q \in Made', p.stream = q.stream,
               p.number < q.number, p.end
        PROVE  q.end
    <3>1. CASE p \in Made /\ q \in Made BY <2>1, <3>1 DEF TxIInv, EndIsLast
    <3>2. CASE p \in Made /\ q = out' BY <1>1, <2>1, <3>2
    <3>3. CASE p = out' /\ q \in Made
      BY <1>1, <1>4, <1>5, <2>1, <3>3 DEF Before
    <3>4. CASE p = out' /\ q = out' BY <1>1, <1>4, <2>1, <3>4
    <3> QED BY <1>3, <2>1, <3>1, <3>2, <3>3, <3>4
  <2>2. ASSUME NEW p \in Made', p.stream = stream, p.end PROVE out'.end
    BY <1>1, <1>3, <2>2
  <2> QED BY <1>1, <2>1, <2>2 DEF EndIsLast
<1>8. InOrder'
  <2>1. \A p \in sent' \cup Waiting' : Before(p, out')
    BY <1>1, <1>2, <1>3, <1>5 DEF radio
  <2> QED BY <1>1, <1>2, <2>1 DEF TxIInv, InOrder, radio
<1>9. OneAtATime' /\ ConfirmedInTime'
  BY <1>1 DEF TxIInv, OneAtATime, ConfirmedInTime, radio, signal
<1> QED BY <1>6, <1>7, <1>8, <1>9 DEF PacketInv

\* send_packet changes nothing about the packets; it hands the last to the driver.
LEMMA PacketsSends ==
    ASSUME TxIInv,
           Drain \/ Reset \/ Submit \/ WaitDone \/ WaitTimesOut \/ Status
    PROVE  PacketInv'
<1>1. /\ tpc \in {"drain", "reset", "submit", "wait", "status"}
      /\ tpc' \in {"reset", "submit", "wait", "status", "ok", "failed"}
      /\ (tpc' = "reset" => tpc = "drain") /\ (tpc' = "submit" => tpc = "reset")
      /\ UNCHANGED <<cb, sent, out, call, op>>
  BY DEF Drain, Reset, Submit, WaitDone, WaitTimesOut, Status, Step, radio, place
<1>2. FirstWaiting' = FirstWaiting /\ Sending /\ Sending'
  BY <1>1 DEF FirstWaiting, Sending, TxPcs
<1>3. driver \in Seq(TxPackets) /\ out \in TxPackets /\ Len(driver) \in Nat
  BY LenProperties DEF TxIInv, CallInv, TxTypeOK
<1>4. driver' = driver \/ (tpc = "submit" /\ tpc' = "wait" /\ driver' = Append(driver, out))
  BY DEF Drain, Reset, Submit, WaitDone, WaitTimesOut, Status, Step, radio, place
<1>5. Waiting' \subseteq Waiting \cup {out}
  <2>1. CASE driver' = driver BY <1>2, <2>1 DEF Waiting
  <2>2. CASE driver' = Append(driver, out)
    BY <1>2, <1>3, <2>2, QueueAppend DEF Waiting, FirstWaiting
  <2> QED BY <1>4, <2>1, <2>2
<1>6. Made' \subseteq Made BY <1>1, <1>2, <1>5 DEF Made
<1>7. Numbered' BY <1>1, <1>6 DEF TxIInv, Numbered, call
<1>8. EndIsLast'
  <2>1. \A p, q \in Made' : p.stream = q.stream /\ p.number < q.number /\ p.end => q.end
    BY <1>6 DEF TxIInv, EndIsLast
  <2>2. \A p \in Made' : p.stream = stream /\ p.end => out.end
    BY <1>2, <1>6 DEF TxIInv, EndIsLast
  <2>3. tpc' # "record" /\ tpc' # "idle" /\ stream' = stream /\ out' = out
    BY <1>1 DEF call
  <2> QED BY <2>1, <2>2, <2>3 DEF EndIsLast
<1>9. InOrder'
  <2>1. CASE driver' = driver
    BY <1>1, <1>2, <2>1 DEF TxIInv, InOrder, Waiting
  <2>2. CASE tpc = "submit" /\ tpc' = "wait" /\ driver' = Append(driver, out)
    <3>1. ASSUME NEW j \in FirstWaiting..Len(driver'),
                 NEW k \in FirstWaiting..Len(driver'), j < k
          PROVE  Before(driver'[j], driver'[k])
      <4>1. CASE k \in FirstWaiting..Len(driver)
        <5>1. /\ j \in FirstWaiting..Len(driver) /\ driver'[j] = driver[j]
              /\ driver'[k] = driver[k]
          BY <1>3, <2>2, <3>1, <4>1, QueueAppend DEF FirstWaiting
        <5> QED BY <3>1, <4>1, <5>1 DEF TxIInv, InOrder
      <4>2. CASE k = Len(driver) + 1
        <5>1. /\ j \in FirstWaiting..Len(driver) /\ driver'[j] = driver[j]
              /\ driver'[k] = out
          BY <1>3, <2>2, <3>1, <4>2, QueueAppend DEF FirstWaiting
        <5>2. driver[j] \in Waiting BY <5>1 DEF Waiting
        <5> QED BY <2>2, <5>1, <5>2 DEF TxIInv, InOrder
      <4> QED BY <1>3, <2>2, <3>1, <4>1, <4>2, QueueAppend DEF FirstWaiting
    <3>2. \A p \in sent : \A q \in Waiting' : Before(p, q)
      BY <1>5, <2>2 DEF TxIInv, InOrder
    <3> QED BY <1>1, <1>2, <2>2, <3>1, <3>2 DEF InOrder
  <2> QED BY <1>4, <2>1, <2>2
<1>10. OneAtATime' /\ ConfirmedInTime'
  <2> USE DEF TxIInv, CallInv, TxTypeOK, OneAtATime, ConfirmedInTime, Reported,
              Step, call, signal, place, radio
  <2>1. CASE Drain BY <2>1 DEF Drain
  <2>2. CASE Reset BY <2>2 DEF Reset
  <2>3. CASE Submit
    <3>1. ASSUME ~late PROVE driver = <<>> /\ ~cb /\ s_last_send_status = "FAIL"
      BY <2>3, <3>1 DEF Submit
    <3>2. ASSUME ~late, driver' = Append(driver, out)
          PROVE  Len(driver') = 1 /\ driver'[1] = out
      BY <1>3, <3>1, <3>2, QueueAppend, EmptySeq
    <3>3. CASE tpc' = "wait"
      BY <2>3, <3>1, <3>2, <3>3 DEF Submit
    <3>4. CASE tpc' = "failed" /\ driver' = driver
      BY <2>3, <3>1, <3>4 DEF Submit
    <3> QED BY <2>3, <3>3, <3>4 DEF Submit
  <2>4. CASE WaitDone BY <2>4 DEF WaitDone
  <2>5. CASE WaitTimesOut BY <2>5 DEF WaitTimesOut
  <2>6. CASE Status BY <2>6 DEF Status
  <2> QED BY <2>1, <2>2, <2>3, <2>4, <2>5, <2>6
<1> QED BY <1>7, <1>8, <1>9, <1>10 DEF PacketInv

\* The packet at the head of the driver's queue is transmitted or not.
LEMMA SendCbPackets == ASSUME TxIInv, SendCb PROVE PacketInv'
<1>1. /\ driver # <<>> /\ ~cb /\ cb' /\ driver' = driver
      /\ UNCHANGED <<call, s_send_done_sem, place, confirmed, late>>
      /\ sent \subseteq sent' /\ sent' \subseteq sent \cup {Head(driver)}
      /\ s_last_send_status' = "SUCCESS" => Head(driver) \in sent'
  BY DEF SendCb
<1>2. driver \in Seq(TxPackets) BY DEF TxIInv, CallInv, TxTypeOK
<1>3. Head(driver) = driver[1] /\ Len(driver) \in Nat \ {0} BY <1>1, <1>2, QueueTake
<1>4. FirstWaiting = 1 /\ FirstWaiting' = 2 BY <1>1 DEF FirstWaiting
<1>5. Waiting' \subseteq Waiting /\ driver[1] \in Waiting
  BY <1>1, <1>3, <1>4 DEF Waiting
<1>6. Made' \subseteq Made
  BY <1>1, <1>3, <1>5 DEF Made, Sending, place
<1>7. Numbered' BY <1>1, <1>6 DEF TxIInv, Numbered, call
<1>8. EndIsLast' BY <1>1, <1>6 DEF TxIInv, EndIsLast, Sending, call, place
<1>9. InOrder'
  <2>1. \A j, k \in FirstWaiting'..Len(driver') : j < k => Before(driver'[j], driver'[k])
    BY <1>1, <1>3, <1>4 DEF TxIInv, InOrder
  <2>2. ASSUME NEW p \in sent', NEW q \in Waiting' PROVE Before(p, q)
    <3>1. PICK k \in 2..Len(driver) : q = driver[k]
      BY <1>1, <1>4, <2>2 DEF Waiting
    <3>2. CASE p \in sent BY <1>5, <2>2, <3>2 DEF TxIInv, InOrder
    <3>3. CASE p = driver[1] BY <1>3, <1>4, <3>1, <3>3 DEF TxIInv, InOrder
    <3> QED BY <1>1, <1>3, <2>2, <3>2, <3>3
  <2>3. tpc' \in {"drain", "reset", "submit"} =>
          \A p \in sent' \cup Waiting' : Before(p, out')
    BY <1>1, <1>3, <1>5 DEF TxIInv, InOrder, place
  <2> QED BY <2>1, <2>2, <2>3 DEF InOrder
<1>10. OneAtATime'
  <2>1. SUFFICES ASSUME ~late PROVE OneAtATime'
    BY <1>1 DEF OneAtATime
  <2>2. tpc = "wait" /\ ~s_send_done_sem /\ Len(driver) = 1 /\ driver[1] = out
    BY <1>1, <2>1 DEF TxIInv, OneAtATime
  <2>3. Reported' BY <1>1, <1>3, <2>2 DEF Reported, place
  <2>4. tpc' = "wait" /\ s_send_done_sem' = s_send_done_sem /\ out' = out
    BY <1>1, <2>2 DEF place
  <2> QED BY <1>1, <2>2, <2>3, <2>4 DEF OneAtATime
<1>11. ConfirmedInTime' BY <1>1 DEF TxIInv, ConfirmedInTime
<1> QED BY <1>7, <1>8, <1>9, <1>10, <1>11 DEF PacketInv

\* The driver forgets that packet and wakes who waits for it.
LEMMA SendCbGivesPackets == ASSUME TxIInv, SendCbGives PROVE PacketInv'
<1>1. /\ cb /\ ~cb' /\ driver' = Tail(driver) /\ s_send_done_sem' /\ driver # <<>>
      /\ UNCHANGED <<call, s_last_send_status, place, air, sent, confirmed, late>>
  BY DEF SendCbGives, TxIInv, CallInv
<1>2. driver \in Seq(TxPackets) BY DEF TxIInv, CallInv, TxTypeOK
<1>3. /\ Len(driver) \in Nat \ {0} /\ Len(driver') = Len(driver) - 1
      /\ \A k \in 1..Len(driver) - 1 : driver'[k] = driver[k + 1]
  BY <1>1, <1>2, QueueTake
<1>4. FirstWaiting = 2 /\ FirstWaiting' = 1 BY <1>1 DEF FirstWaiting
<1>5. Waiting' \subseteq Waiting
  <2>1. SUFFICES ASSUME NEW k \in 1..Len(driver) - 1 PROVE driver'[k] \in Waiting
    BY <1>3, <1>4 DEF Waiting
  <2>2. k + 1 \in 2..Len(driver) /\ driver'[k] = driver[k + 1] BY <1>3
  <2> QED BY <1>4, <2>2 DEF Waiting
<1>6. Made' \subseteq Made BY <1>1, <1>5 DEF Made, Sending, place
<1>7. Numbered' BY <1>1, <1>6 DEF TxIInv, Numbered, call
<1>8. EndIsLast' BY <1>1, <1>6 DEF TxIInv, EndIsLast, Sending, call, place
<1>9. InOrder'
  <2>1. ASSUME NEW j \in FirstWaiting'..Len(driver'),
               NEW k \in FirstWaiting'..Len(driver'), j < k
        PROVE  Before(driver'[j], driver'[k])
    <3>1. /\ j + 1 \in 2..Len(driver) /\ k + 1 \in 2..Len(driver) /\ j + 1 < k + 1
          /\ driver'[j] = driver[j + 1] /\ driver'[k] = driver[k + 1]
      BY <1>3, <1>4, <2>1
    <3> QED BY <1>4, <3>1 DEF TxIInv, InOrder
  <2>2. \A p \in sent' : \A q \in Waiting' : Before(p, q)
    BY <1>1, <1>5 DEF TxIInv, InOrder
  <2>3. tpc' \in {"drain", "reset", "submit"} =>
          \A p \in sent' \cup Waiting' : Before(p, out')
    BY <1>1, <1>5 DEF TxIInv, InOrder, place
  <2> QED BY <2>1, <2>2, <2>3 DEF InOrder
<1>10. OneAtATime'
  <2>1. SUFFICES ASSUME ~late PROVE OneAtATime'
    BY <1>1 DEF OneAtATime
  <2>2. tpc = "wait" /\ ~s_send_done_sem /\ Len(driver) = 1 /\ Reported
    BY <1>1, <2>1 DEF TxIInv, OneAtATime
  <2>3. driver' = <<>> BY <1>1, <1>2, <1>3, <2>2, QueueTake, EmptySeq
  <2>4. tpc' = "wait" /\ Reported' BY <1>1, <2>2 DEF place, Reported
  <2> QED BY <1>1, <2>3, <2>4 DEF OneAtATime
<1>11. ConfirmedInTime' BY <1>1 DEF TxIInv, ConfirmedInTime
<1> QED BY <1>7, <1>8, <1>9, <1>10, <1>11 DEF PacketInv

\* What the sender is left with does not depend on the air.
LEMMA LosePackets ==
    ASSUME TxIInv, UNCHANGED <<call, signal, place, driver, cb, sent, confirmed, late>>
    PROVE  PacketInv'
<1>1. Waiting' = Waiting /\ FirstWaiting' = FirstWaiting BY DEF Waiting, FirstWaiting
<1>2. Sending' = Sending /\ Made' = Made BY <1>1 DEF Made, Sending, place
<1>3. Numbered' BY <1>2 DEF TxIInv, Numbered, call
<1>4. EndIsLast' BY <1>2 DEF TxIInv, EndIsLast, call, place
<1>5. InOrder' BY <1>1 DEF TxIInv, InOrder, place
<1>6. OneAtATime' /\ ConfirmedInTime'
  BY DEF TxIInv, OneAtATime, ConfirmedInTime, Reported, place, signal
<1> QED BY <1>3, <1>4, <1>5, <1>6 DEF PacketInv

LEMMA InitTx == ASSUME TxInit PROVE TxIInv
<1> USE TxAssumption
<1>1. out \in TxPackets
  <2>1. [stream |-> 0, number |-> 0, sequence |-> 0, start |-> FALSE, end |-> FALSE]
          \in TxPackets
    BY DEF TxPackets, Numbers
  <2> QED BY <2>1 DEF TxInit
<1>2. /\ driver \in Seq(TxPackets) /\ air \in Seq(TxPackets) /\ Len(driver) = 0
  BY EmptySeq DEF TxInit
<1>3. Waiting = {} /\ Made = {}
  BY <1>2 DEF TxInit, Waiting, FirstWaiting, Made, Sending, TxPcs
<1>4. s_streaming_tx_sequence \in 0..SeqMod - 1 BY DEF TxInit
<1>5. TxTypeOK
  <2>1. stream \in 0..MaxStreams /\ number \in 0..MaxPackets + 1 BY DEF TxInit
  <2>2. /\ s_streaming_tx \in BOOLEAN /\ s_streaming_tx_first_packet \in BOOLEAN
        /\ mic \in BOOLEAN /\ s_tx_active \in BOOLEAN /\ s_send_done_sem \in BOOLEAN
        /\ cb \in BOOLEAN /\ late \in BOOLEAN
    BY DEF TxInit
  <2>3. length \in Recordings \cup {0} /\ confirmed = {} /\ sent = {} BY DEF TxInit
  <2>4. /\ s_last_send_status = "SUCCESS" /\ tpc = "idle" /\ op = "stop"
        /\ tret = "OK"
    BY DEF TxInit
  <2> HIDE TxAssumption
  <2> QED BY <1>1, <1>2, <1>4, <2>1, <2>2, <2>3, <2>4 DEF TxTypeOK, TxPcs
<1>6. CallOK /\ LastIsEnd BY DEF TxInit, CallOK, LastIsEnd, Sending, TxPcs
<1>7. Numbered /\ EndIsLast BY <1>3 DEF Numbered, EndIsLast
<1>8. InOrder /\ OneAtATime /\ ConfirmedInTime
  BY <1>2, <1>3 DEF TxInit, InOrder, OneAtATime, ConfirmedInTime, FirstWaiting
<1> QED BY <1>5, <1>6, <1>7, <1>8 DEF TxInit, TxIInv, CallInv

LEMMA MainTx == ASSUME TxIInv, Main PROVE TxIInv'
<1>1. CallInv' BY CallOutside, CallMakes, CallSends DEF TxIInv, Main
<1>2. PacketInv' BY PacketsOutside, PacketsMakes, PacketsSends DEF Main
<1> QED BY <1>1, <1>2 DEF TxIInv, PacketInv

LEMMA WifiTx == ASSUME TxIInv, Wifi PROVE TxIInv'
BY CallSends, SendCbPackets, SendCbGivesPackets DEF TxIInv, PacketInv, Wifi

\* The radio takes a packet from the air, whether it arrives somewhere or not.
LEMMA AirTx ==
    ASSUME TxIInv, air # <<>>, air' = Tail(air),
           UNCHANGED <<call, signal, place, driver, cb, sent, confirmed, late>>
    PROVE  TxIInv'
BY CallSends, LosePackets DEF TxIInv, PacketInv, Lose

LEMMA StutterTx == ASSUME TxIInv, UNCHANGED txVars PROVE TxIInv'
<1>1. CallInv'
  BY DEF TxIInv, CallInv, TxTypeOK, CallOK, LastIsEnd, Sending, txVars, call, signal,
         place, radio
<1>2. PacketInv' BY LosePackets DEF txVars, radio
<1> QED BY <1>1, <1>2 DEF TxIInv, PacketInv

LEMMA TxInvariance == TxSpec => []TxIInv
<1>1. TxIInv /\ [TxNext]_txVars => TxIInv'
  BY MainTx, WifiTx, AirTx, StutterTx DEF TxNext, Lose
<1> QED BY <1>1, InitTx, PTL DEF TxSpec

\* Whatever Main calls and whatever fails, streams are well formed on the air: one
\* START, numbered without a gap or a repetition, and nothing after an END but ENDs.
THEOREM StreamsAreWellFormed == TxSpec => []StreamGrammar
<1>1. TxIInv => StreamGrammar
  <2>1. ASSUME TxIInv, NEW p \in sent, NEW q \in sent, p.stream = q.stream,
               Before(p, q)
        PROVE  ~q.start /\ (p.end => q.end)
    <3>1. p \in Made /\ q \in Made BY DEF Made
    <3>2. p \in TxPackets /\ q \in TxPackets BY <2>1, <3>1 DEF TxIInv, Numbered
    <3>3. p.number < q.number /\ q.number # 0
      BY <2>1, <3>2 DEF Before, TxPackets, Numbers
    <3> QED BY <2>1, <3>1, <3>3 DEF TxIInv, Numbered, EndIsLast
  <2>2. ASSUME TxIInv, NEW p \in sent PROVE p.sequence = p.number % SeqMod
    BY <2>2 DEF TxIInv, Numbered, Made
  <2> QED BY <2>1, <2>2 DEF StreamGrammar
<1> QED BY <1>1, TxInvariance, PTL

-----------------------------------------------------------------------------
(* The sender: what its caller is told, callbacks late or not *)

\* send_packet, once it has cleared the status, finds in it the success of a packet
\* that was transmitted since, and that nothing has been reported for.
Uncounted == tpc \in {"submit", "wait", "status"} /\ s_last_send_status = "SUCCESS"

ReportsCounted ==
    /\ IsFiniteSet(sent) /\ IsFiniteSet(confirmed)
    /\ Cardinality(confirmed) <= Cardinality(sent)
    /\ Uncounted => Cardinality(confirmed) < Cardinality(sent)

\* A transmission: the driver's packets come in order, so it was not sent before.
LEMMA SendCbCounted == ASSUME TxIInv, ReportsCounted, SendCb PROVE ReportsCounted'
<1>1. driver # <<>> /\ ~cb /\ tpc' = tpc /\ confirmed' = confirmed
  BY DEF SendCb, place
<1>2. \/ sent' = sent \cup {Head(driver)}
      \/ sent' = sent /\ s_last_send_status' = "FAIL"
  BY DEF SendCb
<1>3. Cardinality(confirmed) \in Nat /\ Cardinality(sent) \in Nat
  BY FS_CardinalityType DEF ReportsCounted
<1>4. CASE sent' = sent \cup {Head(driver)}
  <2>1. driver \in Seq(TxPackets) BY DEF TxIInv, CallInv, TxTypeOK
  <2>2. Head(driver) = driver[1] /\ Len(driver) \in Nat \ {0}
    BY <1>1, <2>1, QueueTake
  <2>3. driver[1] \in Waiting BY <1>1, <2>2 DEF Waiting, FirstWaiting
  <2>4. driver[1] \in TxPackets BY <2>1, <2>2
  <2>5. Head(driver) \notin sent
    <3>1. ~Before(driver[1], driver[1])
      BY <2>4 DEF Before, TxPackets, Numbers
    <3> QED BY <2>2, <2>3, <3>1 DEF TxIInv, InOrder
  <2>6. IsFiniteSet(sent') /\ Cardinality(sent') = Cardinality(sent) + 1
    BY <1>4, <2>5, FS_AddElement DEF ReportsCounted
  <2> QED BY <1>1, <1>3, <2>6 DEF ReportsCounted
<1>5. CASE sent' = sent /\ s_last_send_status' = "FAIL"
  BY <1>1, <1>5 DEF ReportsCounted, Uncounted
<1> QED BY <1>2, <1>4, <1>5

\* A report: the status was that of a packet transmitted since it was cleared.
LEMMA StatusCounted == ASSUME ReportsCounted, Status PROVE ReportsCounted'
<1>1. tpc = "status" /\ tpc' \in {"ok", "failed"} /\ sent' = sent
  BY DEF Status, Step, radio
<1>2. ~Uncounted' BY <1>1 DEF Uncounted
<1>3. Cardinality(confirmed) \in Nat /\ Cardinality(sent) \in Nat
  BY FS_CardinalityType DEF ReportsCounted
<1>4. CASE s_last_send_status = "SUCCESS"
  <2>1. confirmed' = confirmed \cup {out} BY <1>4 DEF Status
  <2>2. Cardinality(confirmed) < Cardinality(sent)
    BY <1>1, <1>4 DEF ReportsCounted, Uncounted
  <2>3. /\ IsFiniteSet(confirmed')
        /\ \/ Cardinality(confirmed') = Cardinality(confirmed)
           \/ Cardinality(confirmed') = Cardinality(confirmed) + 1
    BY <2>1, FS_AddElement DEF ReportsCounted
  <2>4. Cardinality(confirmed') <= Cardinality(sent) BY <1>3, <2>2, <2>3
  <2> QED BY <1>1, <1>2, <2>3, <2>4 DEF ReportsCounted
<1>5. CASE s_last_send_status # "SUCCESS"
  <2>1. confirmed' = confirmed BY <1>5 DEF Status
  <2> QED BY <1>1, <1>2, <2>1 DEF ReportsCounted
<1> QED BY <1>4, <1>5

\* Whatever else happens, nothing is transmitted or reported, and send_packet does
\* not find a success that it did not find before.
LEMMA OthersCounted ==
    ASSUME ReportsCounted, UNCHANGED <<sent, confirmed>>, Uncounted' => Uncounted
    PROVE  ReportsCounted'
BY DEF ReportsCounted

LEMMA MainCounted == ASSUME ReportsCounted, Main PROVE ReportsCounted'
<1>1. CASE Drain \/ Reset \/ Submit \/ WaitDone \/ WaitTimesOut
  <2>1. UNCHANGED <<sent, confirmed>>
    BY <1>1 DEF Drain, Reset, Submit, WaitDone, WaitTimesOut, radio
  <2>2. /\ tpc' \in {"submit", "wait", "status"} => tpc \in {"reset", "submit", "wait"}
        /\ s_last_send_status' = "SUCCESS" =>
              tpc # "reset" /\ s_last_send_status = "SUCCESS"
    BY <1>1 DEF Drain, Reset, Submit, WaitDone, WaitTimesOut, Step, signal
  <2> QED BY <2>1, <2>2, OthersCounted DEF Uncounted
<1>2. CASE Status BY <1>2, StatusCounted
<1>3. ASSUME Main, ~(Drain \/ Reset \/ Submit \/ WaitDone \/ WaitTimesOut \/ Status)
      PROVE  /\ UNCHANGED <<sent, confirmed>>
             /\ tpc' \in {"idle", "record", "drain"}
  BY <1>3 DEF Main, StreamStart, StreamStartFails, SendNext, ReadFails,
              SendNextRefused, StreamStop, SendRecording, RecordFails, RecordedPacket,
              ReturnFromCall, ReturnFromPacket, ReturnFromRecording, NextRecorded,
              radio
<1> QED BY <1>1, <1>2, <1>3, OthersCounted DEF Uncounted

LEMMA ReportsInvariance == TxSpec => []ReportsCounted
<1>1. TxInit => ReportsCounted
  <2>1. ASSUME TxInit PROVE sent = {} /\ confirmed = {} /\ ~Uncounted
    BY <2>1 DEF TxInit, Uncounted
  <2> QED BY <2>1, FS_EmptySet DEF ReportsCounted
<1>2. TxIInv /\ ReportsCounted /\ [TxNext]_txVars => ReportsCounted'
  <2>1. CASE SendCbGives \/ Lose \/ UNCHANGED txVars
    <3>1. UNCHANGED <<sent, confirmed>> /\ UNCHANGED <<tpc, s_last_send_status>>
      BY <2>1 DEF SendCbGives, Lose, txVars, place, signal, radio
    <3> QED BY <3>1, OthersCounted DEF Uncounted
  <2> QED BY <2>1, MainCounted, SendCbCounted DEF TxNext, Wifi
<1> QED BY <1>1, <1>2, TxInvariance, PTL DEF TxSpec

\* Unless a callback comes later than the 100 ms, what a caller is told was sent was
\* transmitted: the semaphore that is given belongs to the packet that is waited for.
\* However late they come, a transmission is reported once at most: the status that
\* send_packet reads was stored since it cleared it.
THEOREM ReportsAreTrue == TxSpec => []ConfirmedWasSent
<1>1. TxIInv /\ ReportsCounted => ConfirmedWasSent
  BY DEF TxIInv, ReportsCounted, ConfirmedInTime, ConfirmedWasSent
<1> QED BY <1>1, TxInvariance, ReportsInvariance, PTL

-----------------------------------------------------------------------------
(* The inductive invariant of the link *)

Members(q) == {q[k] : k \in 1..Len(q)}
Sorted(q)  == \A j, k \in 1..Len(q) : j < k => Before(q[j], q[k])

OnAir  == Members(air)
Queued == Members(s_rx_queue)
Heard  == Members(heard)

\* The packet that the receive task has, may still play, or has played last.
Hand  == IF rpc \in {"look", "restart", "start", "write"} THEN {packet} ELSE {}
Taken == IF rpc # "receive" \/ spk = "rx" THEN {packet} ELSE {}

\* The receive task by itself: a session is opened by a START and when none is open.
RxOK ==
    /\ Rx!RxInv
    /\ rpc = "start" => ~speaker_started
    /\ rpc \in {"restart", "start"} => packet.start

\* The packets that were sent pass the air, the queue and the task in their order.
ArrivalOrder ==
    /\ OnAir \cup Queued \cup Taken \cup Heard \subseteq sent
    /\ Sorted(air) /\ Sorted(s_rx_queue) /\ Sorted(heard)
    /\ \A p \in Queued : \A q \in OnAir : Before(p, q)
    /\ \A p \in Taken \cup Heard : \A q \in Queued \cup OnAir : Before(p, q)
    /\ \A p \in Heard : \A q \in Hand : Before(p, q)

\* The START of a stream that was turned away is past, and the speaker was started
\* for a later stream.
RefusedIsPast ==
    \A x \in refused : \E s \in sent :
        /\ s.stream = x /\ s.start
        /\ \A q \in Queued \cup OnAir : Before(s, q)
        /\ rpc # "receive" => Before(s, packet)
        /\ spk = "rx" => s.stream < packet.stream

\* What the receive task expects next is what follows the packet heard last, unless
\* there was another packet since then.
ExpectsNext ==
    /\ rpc = "write" /\ packet.start => expected_sequence = packet.sequence
    /\ \A p \in Heard :
          \/ expected_sequence = (p.sequence + 1) % SeqMod
          \/ \E f \in sent : /\ Before(p, f)
                            /\ \A q \in Hand \cup Queued \cup OnAir : Before(f, q)
          \/ rpc = "write" /\ packet.start

OrderInv == ArrivalOrder /\ RefusedIsPast /\ ExpectsNext

Precedes(p, q) == p.stream = q.stream /\ p.number + 1 = q.number /\ ~p.end

\* The packet before the n-th of this stream was sent, and was not the last.
SentBefore(n) ==
    n > 0 => \E p \in sent : p.stream = stream /\ p.number + 1 = n /\ ~p.end

\* As long as nothing goes wrong every packet is sent after the one before it.
CleanSender ==
    clean =>
        /\ ~late /\ tpc # "failed"
        /\ Sending => SentBefore(out.number)
        /\ (tpc = "idle" /\ s_streaming_tx) \/ tpc = "record" => SentBefore(number)
        /\ \A q \in sent : q.start \/ \E p \in sent : Precedes(p, q)

\* As long as nothing goes wrong a stream that was begun and not ended has a session.
CleanReceiver ==
    clean =>
        /\ ~dropping_stream /\ rpc # "write_error"
        /\ rpc = "end" => heard # <<>> /\ heard[Len(heard)] = packet /\ packet.end
        /\ rpc # "start" /\ heard # <<>> => heard[Len(heard)].end \/ speaker_started

LinkIInv ==
    /\ TxIInv /\ LinkTypeOK /\ RxOK
    /\ OrderInv
    /\ CleanSender /\ CleanReceiver /\ CleanLosesNothing

-----------------------------------------------------------------------------
(* The order of packets *)

LEMMA BeforeIsOrder ==
    ASSUME NEW p \in TxPackets, NEW q \in TxPackets, NEW r \in TxPackets, Before(p, q)
    PROVE  ~Before(q, p) /\ p # q /\ (Before(q, r) => Before(p, r))
BY DEF Before, TxPackets, Numbers

\* A packet that comes after all of a queue is put at its end.
LEMMA SortedAppend ==
    ASSUME NEW q \in Seq(TxPackets), NEW p \in TxPackets,
           Sorted(q), \A e \in Members(q) : Before(e, p)
    PROVE  /\ Sorted(Append(q, p))
           /\ Members(Append(q, p)) = Members(q) \cup {p}
<1>1. /\ Len(q) \in Nat /\ Len(Append(q, p)) = Len(q) + 1
      /\ \A k \in 1..Len(q) : Append(q, p)[k] = q[k]
      /\ Append(q, p)[Len(q) + 1] = p
  BY QueueAppend
<1>2. ASSUME NEW j \in 1..Len(q) + 1, NEW k \in 1..Len(q) + 1, j < k
      PROVE  Before(Append(q, p)[j], Append(q, p)[k])
  <2>1. CASE k \in 1..Len(q) BY <1>1, <1>2, <2>1 DEF Sorted
  <2>2. CASE k = Len(q) + 1
    <3>1. j \in 1..Len(q) BY <1>1, <1>2, <2>2
    <3>2. Before(q[j], p) BY <3>1 DEF Members
    <3> QED BY <1>1, <2>2, <3>1, <3>2
  <2> QED BY <1>1, <1>2, <2>1, <2>2
<1>3. Members(Append(q, p)) = Members(q) \cup {p}
  <2>1. 1..Len(q) + 1 = 1..Len(q) \cup {Len(q) + 1} BY <1>1
  <2> QED BY <1>1, <2>1 DEF Members
<1> QED BY <1>1, <1>2, <1>3 DEF Sorted

\* The head of a sorted queue comes before the rest of it.
LEMMA SortedTake ==
    ASSUME NEW q \in Seq(TxPackets), q # <<>>, Sorted(q)
    PROVE  /\ Sorted(Tail(q))
           /\ Head(q) \in Members(q)
           /\ Members(q) = Members(Tail(q)) \cup {Head(q)}
           /\ \A e \in Members(Tail(q)) : Before(Head(q), e)
<1>1. /\ Head(q) = q[1]
      /\ Len(q) \in Nat \ {0} /\ Len(Tail(q)) = Len(q) - 1
      /\ \A k \in 1..Len(q) - 1 : Tail(q)[k] = q[k + 1]
  BY QueueTake
<1>2. Sorted(Tail(q)) BY <1>1 DEF Sorted
<1>3. ASSUME NEW e \in Members(Tail(q)) PROVE e \in Members(q) /\ Before(Head(q), e)
  <2>1. PICK k \in 1..Len(q) - 1 : e = Tail(q)[k] BY <1>1, <1>3 DEF Members
  <2>2. k + 1 \in 1..Len(q) /\ 1 \in 1..Len(q) /\ 1 < k + 1 BY <1>1, <2>1
  <2> QED BY <1>1, <2>1, <2>2 DEF Members, Sorted
<1>4. ASSUME NEW e \in Members(q) PROVE e \in Members(Tail(q)) \cup {Head(q)}
  <2>1. PICK k \in 1..Len(q) : e = q[k] BY <1>4 DEF Members
  <2>2. CASE k = 1 BY <1>1, <2>1, <2>2
  <2>3. CASE k # 1
    <3>1. k - 1 \in 1..Len(q) - 1 /\ (k - 1) + 1 = k BY <1>1, <2>1, <2>3
    <3> QED BY <1>1, <2>1, <3>1 DEF Members
  <2> QED BY <2>2, <2>3
<1>5. Head(q) \in Members(q)
  <2>1. 1 \in 1..Len(q) BY <1>1
  <2> QED BY <1>1, <2>1 DEF Members
<1> QED BY <1>2, <1>3, <1>4, <1>5

-----------------------------------------------------------------------------
(* The receive task *)

\* What every listing of the receiver's definitions below says of its packets.
LEMMA SamePackets == Rx!Packets = TxPackets
BY DEF Rx!Packets, TxPackets

\* A frame that arrives lengthens the queue up to its limit and does nothing else.
LEMMA ArrivesOK ==
    ASSUME RxOK, NEW p \in TxPackets, Rx!Arrives(p)
    PROVE  RxOK'
<1>1. s_rx_queue \in Seq(TxPackets) /\ Len(s_rx_queue) <= QueueLen
  BY SamePackets DEF RxOK, Rx!RxInv, Rx!RxTypeOK
<1>2. s_rx_queue' \in Seq(TxPackets) /\ Len(s_rx_queue') <= QueueLen
  BY <1>1, QueueAppend, LinkAssumption DEF Rx!Arrives
<1> QED
  BY <1>2, SamePackets
     DEF Rx!Arrives, Rx!session, RxOK, Rx!RxInv, Rx!RxTypeOK, Rx!SpeakerOnlyInSession,
         Rx!DroppingIsSilent

\* Each statement of network_audio_rx_task keeps the receiver's invariant.
LEMMA RxTaskOK ==
    ASSUME RxOK, Rx!RxTask
    PROVE  RxOK'
<1> USE DEF RxOK, Rx!RxInv, Rx!RxTypeOK, Rx!RxPcs, Rx!SpeakerOnlyInSession,
            Rx!DroppingIsSilent, Rx!session
<1>1. CASE Rx!Receive
  <2>1. s_rx_queue \in Seq(Rx!Packets) /\ s_rx_queue # <<>>
    BY <1>1 DEF Rx!Receive
  <2>2. /\ Head(s_rx_queue) \in Rx!Packets /\ Tail(s_rx_queue) \in Seq(Rx!Packets)
        /\ Len(Tail(s_rx_queue)) <= QueueLen
    BY <2>1, QueueTake, LinkAssumption
  <2> QED BY <1>1, <2>2 DEF Rx!Receive
<1>2. CASE Rx!Silence
  <2>1. CASE speaker_started /\ Rx!Stopped BY <1>2, <2>1 DEF Rx!Silence, Rx!Stopped
  <2>2. CASE speaker_started /\ Rx!StopFails
    BY <1>2, <2>2 DEF Rx!Silence, Rx!StopFails
  <2>3. CASE ~speaker_started /\ UNCHANGED <<speaker_started, spk, s_rx_active>>
    BY <1>2, <2>3 DEF Rx!Silence
  <2> QED BY <1>2, <2>1, <2>2, <2>3 DEF Rx!Silence
<1>3. CASE Rx!DropPacket BY <1>3 DEF Rx!DropPacket, Rx!Packets
<1>4. CASE Rx!StartPacket BY <1>4 DEF Rx!StartPacket
<1>5. CASE Rx!StrayPacket BY <1>5 DEF Rx!StrayPacket
<1>6. CASE Rx!RestartSpeaker BY <1>6 DEF Rx!RestartSpeaker, Rx!Stopped
<1>7. CASE Rx!RestartFails BY <1>7 DEF Rx!RestartFails, Rx!Refuse, Rx!StopFails
<1>8. CASE Rx!StartSpeaker BY <1>8 DEF Rx!StartSpeaker, Rx!Packets
<1>9. CASE Rx!StartFails BY <1>9 DEF Rx!StartFails, Rx!Refuse
<1>10. CASE Rx!NextPacket BY <1>10 DEF Rx!NextPacket
<1>11. ASSUME Rx!CheckSequence PROVE expected_sequence' \in 0..SeqMod - 1
  BY <1>11, TxAssumption DEF Rx!CheckSequence, Rx!Packets
<1>12. CASE Rx!Write BY <1>11, <1>12 DEF Rx!Write
<1>13. CASE Rx!WriteFails BY <1>11, <1>13 DEF Rx!WriteFails
<1>14. CASE Rx!EndStream
  <2>1. CASE Rx!Stopped BY <1>14, <2>1 DEF Rx!EndStream, Rx!Stopped
  <2>2. CASE Rx!StopFails BY <1>14, <2>2 DEF Rx!EndStream, Rx!StopFails
  <2> QED BY <1>14, <2>1, <2>2 DEF Rx!EndStream
<1> QED
  BY <1>1, <1>2, <1>3, <1>4, <1>5, <1>6, <1>7, <1>8, <1>9, <1>10, <1>12, <1>13,
     <1>14 DEF Rx!RxTask

\* Main's use of the speaker and of the LED keeps it too.
LEMMA RxMainOK ==
    ASSUME RxOK, Rx!MainPlays \/ Rx!MainEndsPlaying \/ Rx!MainDims
    PROVE  RxOK'
<1> USE DEF RxOK, Rx!RxInv, Rx!RxTypeOK, Rx!SpeakerOnlyInSession, Rx!DroppingIsSilent,
            Rx!session
<1>1. CASE Rx!MainPlays BY <1>1 DEF Rx!MainPlays
<1>2. CASE Rx!MainEndsPlaying BY <1>2 DEF Rx!MainEndsPlaying
<1>3. CASE Rx!MainDims BY <1>3 DEF Rx!MainDims
<1> QED BY <1>1, <1>2, <1>3

\* What happens to the receiver and its history in any step of the link.
LEMMA RxSame == ASSUME RxOK, UNCHANGED rx PROVE RxOK'
BY DEF rx, RxOK, Rx!RxInv, Rx!RxTypeOK, Rx!SpeakerOnlyInSession, Rx!DroppingIsSilent

LEMMA ListenerIsTask == ASSUME Listener PROVE Rx!RxTask
BY DEF Listener, Play, TurnAway, Fault, Follow, Rx!RxTask

LEMMA TypesStep ==
    ASSUME LinkTypeOK, TxIInv, RxOK, LinkNext
    PROVE  TxIInv' /\ RxOK' /\ LinkTypeOK'
<1>1. CASE Sender
  <2>1. TxIInv' BY <1>1, MainTx, WifiTx DEF Sender
  <2>2. RxOK' BY <1>1, RxSame DEF Sender
  <2>3. clean' \in BOOLEAN BY <1>1 DEF Sender
  <2> QED
    BY <1>1, <2>1, <2>2, <2>3 DEF Sender, LinkTypeOK, TxIInv, CallInv, RxOK, Rx!RxInv
<1>2. CASE LostOnAir
  <2>1. TxIInv' BY <1>2, AirTx DEF LostOnAir, Lose
  <2>2. RxOK' BY <1>2, RxSame DEF LostOnAir
  <2> QED
    BY <1>2, <2>1, <2>2 DEF LostOnAir, LinkTypeOK, TxIInv, CallInv, RxOK, Rx!RxInv
<1>3. CASE Deliver
  <2>1. TxIInv' BY <1>3, AirTx DEF Deliver
  <2>2. Head(air) \in TxPackets
    BY <1>3, QueueTake DEF Deliver, LinkTypeOK, TxTypeOK
  <2>3. RxOK' BY <1>3, <2>2, ArrivesOK DEF Deliver
  <2>4. clean' \in BOOLEAN BY <1>3 DEF Deliver
  <2> QED
    BY <1>3, <2>1, <2>3, <2>4 DEF Deliver, LinkTypeOK, TxIInv, CallInv, RxOK, Rx!RxInv
<1>4. CASE Listener
  <2>1. TxIInv'
    BY <1>4, StutterTx DEF Listener, Play, TurnAway, Fault, Follow
  <2>2. RxOK' BY <1>4, RxTaskOK, ListenerIsTask
  <2>3. clean' \in BOOLEAN
    BY <1>4 DEF Listener, Play, TurnAway, Fault, Follow, LinkTypeOK
  <2>4. packet \in TxPackets BY SamePackets DEF RxOK, Rx!RxInv, Rx!RxTypeOK
  <2>5. heard' \in Seq(TxPackets)
    BY <1>4, <2>4, QueueAppend DEF Listener, Play, TurnAway, Fault, Follow, LinkTypeOK
  <2>6. refused' \subseteq 0..MaxStreams
    BY <1>4, <2>4
       DEF Listener, Play, TurnAway, Fault, Follow, LinkTypeOK, TxPackets
  <2> QED
    BY <2>1, <2>2, <2>3, <2>5, <2>6 DEF LinkTypeOK, TxIInv, CallInv, RxOK, Rx!RxInv
<1>5. CASE OtherUsers
  <2>1. TxIInv' BY <1>5, StutterTx DEF OtherUsers
  <2>2. RxOK' BY <1>5, RxMainOK DEF OtherUsers
  <2> QED
    BY <1>5, <2>1, <2>2 DEF OtherUsers, LinkTypeOK, TxIInv, CallInv, RxOK, Rx!RxInv
<1> QED BY <1>1, <1>2, <1>3, <1>4, <1>5 DEF LinkNext

-----------------------------------------------------------------------------
(* The order in which packets arrive *)

\* What the lemmas below need of the types and of the sender's invariant.
LEMMA LinkTypes ==
    ASSUME LinkIInv
    PROVE  /\ air \in Seq(TxPackets) /\ s_rx_queue \in Seq(TxPackets)
           /\ heard \in Seq(TxPackets) /\ packet \in TxPackets
           /\ sent \subseteq TxPackets
           /\ \A p \in sent : /\ p.start <=> p.number = 0
                              /\ p.sequence = p.number % SeqMod
<1>1. ASSUME NEW p \in sent
      PROVE  /\ p \in TxPackets /\ (p.start <=> p.number = 0)
             /\ p.sequence = p.number % SeqMod
  <2>1. p \in Made BY DEF Made
  <2> QED BY <2>1 DEF LinkIInv, TxIInv, Numbered
<1> QED
  BY <1>1, SamePackets DEF LinkIInv, LinkTypeOK, TxTypeOK, RxOK, Rx!RxInv, Rx!RxTypeOK

\* The sender puts on the air what comes after all that was sent, or nothing.
LEMMA AirGrows ==
    ASSUME TxIInv, Main \/ Wifi
    PROVE  \/ sent' = sent /\ air' = air
           \/ \E h \in TxPackets : /\ air' = Append(air, h) /\ sent' = sent \cup {h}
                                   /\ \A p \in sent : Before(p, h)
<1>1. CASE Main
  BY <1>1 DEF Main, StreamStart, StreamStartFails, SendNext, ReadFails, SendNextRefused,
              StreamStop, SendRecording, RecordFails, RecordedPacket, Drain, Reset,
              Submit, WaitDone, WaitTimesOut, Status, ReturnFromCall, ReturnFromPacket,
              ReturnFromRecording, NextRecorded, radio
<1>2. CASE SendCb
  <2>1. driver \in Seq(TxPackets) /\ driver # <<>> /\ FirstWaiting = 1
    BY <1>2 DEF SendCb, TxIInv, CallInv, TxTypeOK, FirstWaiting
  <2>2. Head(driver) \in TxPackets /\ Head(driver) \in Waiting
    <3>1. Head(driver) = driver[1] /\ Len(driver) \in Nat \ {0} BY <2>1, QueueTake
    <3>2. 1 \in FirstWaiting..Len(driver) BY <2>1, <3>1
    <3> QED BY <2>1, <3>1, <3>2, QueueTake DEF Waiting
  <2>3. \A p \in sent : Before(p, Head(driver)) BY <2>2 DEF TxIInv, InOrder
  <2> QED BY <1>2, <2>2, <2>3 DEF SendCb
<1>3. CASE SendCbGives BY <1>3 DEF SendCbGives
<1> QED BY <1>1, <1>2, <1>3 DEF Wifi

LEMMA SenderOrder == ASSUME LinkIInv, Sender PROVE OrderInv'
<1> USE DEF Hand, Taken
<1>1. /\ UNCHANGED <<s_rx_queue, expected_sequence, packet, rpc, spk, heard, refused>>
      /\ Main \/ Wifi
  BY DEF Sender, rx
<1>2. Queued' = Queued /\ Heard' = Heard BY <1>1 DEF Queued, Heard, Members
<1>3. CASE sent' = sent /\ air' = air
  BY <1>1, <1>2, <1>3
     DEF LinkIInv, OrderInv, ArrivalOrder, RefusedIsPast, ExpectsNext, OnAir, Members,
         Sorted
<1>4. ASSUME NEW h \in TxPackets, air' = Append(air, h), sent' = sent \cup {h},
             \A p \in sent : Before(p, h)
      PROVE  OrderInv'
  <2>1. OnAir' = OnAir \cup {h} /\ Sorted(air')
    <3>1. air \in Seq(TxPackets) /\ Sorted(air) /\ OnAir \subseteq sent
      BY LinkTypes DEF LinkIInv, OrderInv, ArrivalOrder
    <3>2. \A e \in Members(air) : Before(e, h) BY <1>4, <3>1 DEF OnAir
    <3> QED BY <1>4, <3>1, <3>2, SortedAppend DEF OnAir, Members
  <2>2. Sorted(s_rx_queue') /\ Sorted(heard')
    BY <1>1 DEF LinkIInv, OrderInv, ArrivalOrder, Sorted
  <2>3. ArrivalOrder'
    BY <1>1, <1>2, <1>4, <2>1, <2>2 DEF LinkIInv, OrderInv, ArrivalOrder, Sorted
  <2>4. RefusedIsPast'
    BY <1>1, <1>2, <1>4, <2>1 DEF LinkIInv, OrderInv, RefusedIsPast
  <2>5. ExpectsNext'
    BY <1>1, <1>2, <1>4, <2>1 DEF LinkIInv, OrderInv, ExpectsNext
  <2> QED BY <2>3, <2>4, <2>5 DEF OrderInv
<1> QED BY <1>1, <1>3, <1>4, AirGrows DEF LinkIInv

\* A packet leaves the air, for the queue or for good.
LEMMA AirOrder == ASSUME LinkIInv, LostOnAir \/ Deliver PROVE OrderInv'
<1> USE DEF Hand, Taken
<1>1. /\ UNCHANGED <<expected_sequence, packet, rpc, spk, heard, refused, sent>>
      /\ air # <<>> /\ air' = Tail(air)
      /\ s_rx_queue' \in {s_rx_queue, Append(s_rx_queue, Head(air))}
  BY DEF LostOnAir, Deliver, Lose, rx, Rx!Arrives, Rx!session
<1>2. Heard' = Heard BY <1>1 DEF Heard, Members
<1>3. /\ Sorted(air') /\ OnAir = OnAir' \cup {Head(air)}
      /\ \A e \in OnAir' : Before(Head(air), e)
  <2>1. air \in Seq(TxPackets) /\ air # <<>> /\ Sorted(air)
    BY <1>1, LinkTypes DEF LinkIInv, OrderInv, ArrivalOrder
  <2>2. /\ Sorted(Tail(air))
        /\ Members(air) = Members(Tail(air)) \cup {Head(air)}
        /\ \A e \in Members(Tail(air)) : Before(Head(air), e)
    BY <2>1, SortedTake
  <2>3. OnAir' = Members(Tail(air)) /\ (Sorted(Tail(air)) => Sorted(air'))
    BY <1>1 DEF OnAir, Members, Sorted
  <2> QED BY <2>2, <2>3 DEF OnAir
<1>4. /\ Sorted(s_rx_queue') /\ Queued \subseteq Queued'
      /\ Queued' \subseteq Queued \cup {Head(air)}
  <2>1. CASE s_rx_queue' = s_rx_queue
    BY <2>1 DEF LinkIInv, OrderInv, ArrivalOrder, Queued, Members, Sorted
  <2>2. CASE s_rx_queue' = Append(s_rx_queue, Head(air))
    <3>1. /\ s_rx_queue \in Seq(TxPackets) /\ Sorted(s_rx_queue)
          /\ Head(air) \in TxPackets
          /\ \A e \in Members(s_rx_queue) : Before(e, Head(air))
      BY <1>1, <1>3, LinkTypes, QueueTake
         DEF LinkIInv, OrderInv, ArrivalOrder, Queued
    <3> QED BY <2>2, <3>1, SortedAppend DEF Queued, Members, Sorted
  <2> QED BY <1>1, <2>1, <2>2
<1>5. Sorted(heard') BY <1>1 DEF LinkIInv, OrderInv, ArrivalOrder, Sorted
<1>6. Queued' \cup OnAir' \subseteq Queued \cup OnAir BY <1>3, <1>4
<1>7. ArrivalOrder'
  BY <1>1, <1>2, <1>3, <1>4, <1>5, <1>6 DEF LinkIInv, OrderInv, ArrivalOrder
<1>8. RefusedIsPast' BY <1>1, <1>6 DEF LinkIInv, OrderInv, RefusedIsPast
<1>9. ExpectsNext' BY <1>1, <1>2, <1>6 DEF LinkIInv, OrderInv, ExpectsNext
<1> QED BY <1>7, <1>8, <1>9 DEF OrderInv

LEMMA ReceiveOrder ==
    ASSUME LinkIInv, Rx!Receive, UNCHANGED <<txVars, heard, refused>>
    PROVE  OrderInv'
<1> USE DEF Hand, Taken
<1>1. /\ UNCHANGED <<expected_sequence, spk, heard, refused, sent, air>>
      /\ rpc = "receive" /\ rpc' = "look" /\ s_rx_queue # <<>>
      /\ packet' = Head(s_rx_queue) /\ s_rx_queue' = Tail(s_rx_queue)
  BY DEF Rx!Receive, txVars, radio
<1>2. Heard' = Heard /\ OnAir' = OnAir BY <1>1 DEF Heard, OnAir, Members
<1>3. /\ Sorted(s_rx_queue') /\ Queued = Queued' \cup {packet'}
      /\ \A e \in Queued' : Before(packet', e)
  <2>1. s_rx_queue \in Seq(TxPackets) /\ s_rx_queue # <<>> /\ Sorted(s_rx_queue)
    BY <1>1, LinkTypes DEF LinkIInv, OrderInv, ArrivalOrder
  <2>2. /\ Sorted(Tail(s_rx_queue))
        /\ Members(s_rx_queue) = Members(Tail(s_rx_queue)) \cup {packet'}
        /\ \A e \in Members(Tail(s_rx_queue)) : Before(packet', e)
    BY <1>1, <2>1, SortedTake
  <2>3. /\ Queued' = Members(Tail(s_rx_queue))
        /\ Sorted(Tail(s_rx_queue)) => Sorted(s_rx_queue')
    BY <1>1 DEF Queued, Members, Sorted
  <2> QED BY <2>2, <2>3 DEF Queued
<1>4. Sorted(heard') /\ Sorted(air')
  BY <1>1 DEF LinkIInv, OrderInv, ArrivalOrder, Sorted
<1>5. ArrivalOrder' BY <1>1, <1>2, <1>3, <1>4 DEF LinkIInv, OrderInv, ArrivalOrder
<1>6. RefusedIsPast'
  <2>1. SUFFICES ASSUME NEW x \in refused
                 PROVE  \E s \in sent :
                           /\ s.stream = x /\ s.start
                           /\ \A q \in Queued' \cup OnAir : Before(s, q)
                           /\ Before(s, packet')
                           /\ spk = "rx" => s.stream < packet'.stream
    BY <1>1, <1>2 DEF RefusedIsPast
  <2>2. PICK s \in sent : /\ s.stream = x /\ s.start
                          /\ \A q \in Queued \cup OnAir : Before(s, q)
                          /\ spk = "rx" => s.stream < packet.stream
    BY DEF LinkIInv, OrderInv, RefusedIsPast
  <2>3. ASSUME spk = "rx" PROVE s.stream < packet'.stream
    <3>1. Before(packet, packet')
      BY <1>3, <2>3 DEF LinkIInv, OrderInv, ArrivalOrder
    <3>2. packet \in TxPackets /\ packet' \in TxPackets /\ s \in TxPackets
      BY <1>1, LinkTypes, QueueTake
    <3> QED BY <2>2, <2>3, <3>1, <3>2 DEF Before, TxPackets, Numbers
  <2> QED BY <1>3, <2>2, <2>3
<1>7. ExpectsNext' BY <1>1, <1>2, <1>3 DEF LinkIInv, OrderInv, ExpectsNext
<1> QED BY <1>5, <1>6, <1>7 DEF OrderInv

\* A packet is written to the speaker.
LEMMA PlayOrder == ASSUME LinkIInv, Play PROVE OrderInv'
<1> USE DEF Hand, Taken
<1>1. /\ UNCHANGED <<s_rx_queue, packet, spk, refused, sent, air>>
      /\ rpc = "write" /\ spk = "rx" /\ rpc' \in {"end", "receive"}
      /\ heard' = Append(heard, packet)
      /\ expected_sequence' = (packet.sequence + 1) % SeqMod
  BY DEF Play, Rx!Write, Rx!CheckSequence, txVars, radio
<1>2. Queued' = Queued /\ OnAir' = OnAir BY <1>1 DEF Queued, OnAir, Members
<1>3. Heard' = Heard \cup {packet} /\ Sorted(heard')
  <2>1. /\ heard \in Seq(TxPackets) /\ packet \in TxPackets /\ Sorted(heard)
        /\ \A e \in Members(heard) : Before(e, packet)
    BY <1>1, LinkTypes DEF LinkIInv, OrderInv, ArrivalOrder, Heard
  <2>2. /\ Sorted(Append(heard, packet))
        /\ Members(Append(heard, packet)) = Members(heard) \cup {packet}
    BY <2>1, SortedAppend
  <2> QED BY <1>1, <2>2 DEF Heard, Members, Sorted
<1>4. Sorted(s_rx_queue') /\ Sorted(air')
  BY <1>1 DEF LinkIInv, OrderInv, ArrivalOrder, Sorted
<1>5. ArrivalOrder' BY <1>1, <1>2, <1>3, <1>4 DEF LinkIInv, OrderInv, ArrivalOrder
<1>6. RefusedIsPast' BY <1>1, <1>2 DEF LinkIInv, OrderInv, RefusedIsPast
<1>7. ExpectsNext'
  <2>1. packet \in sent /\ \A q \in Queued' \cup OnAir' : Before(packet, q)
    BY <1>1, <1>2 DEF LinkIInv, OrderInv, ArrivalOrder
  <2>2. \A p \in Heard : Before(p, packet)
    BY <1>1 DEF LinkIInv, OrderInv, ArrivalOrder
  <2> QED BY <1>1, <1>3, <2>1, <2>2 DEF ExpectsNext
<1> QED BY <1>5, <1>6, <1>7 DEF OrderInv

\* A stream is turned away at its START.
LEMMA TurnAwayOrder == ASSUME LinkIInv, TurnAway PROVE OrderInv'
<1> USE DEF Hand, Taken
<1>1. /\ UNCHANGED <<s_rx_queue, packet, expected_sequence, heard, sent, air>>
      /\ rpc \in {"restart", "start"} /\ rpc' = "receive" /\ spk' # "rx"
      /\ refused' = refused \cup {packet.stream}
  BY DEF TurnAway, Rx!RestartFails, Rx!StartFails, Rx!Refuse, Rx!StopFails, txVars,
         radio, LinkIInv, RxOK, Rx!RxInv, Rx!SpeakerOnlyInSession
<1>2. Queued' = Queued /\ OnAir' = OnAir /\ Heard' = Heard
  BY <1>1 DEF Queued, OnAir, Heard, Members
<1>3. /\ packet \in sent /\ packet.start
      /\ \A q \in Queued \cup OnAir : Before(packet, q)
  BY <1>1 DEF LinkIInv, OrderInv, ArrivalOrder, RxOK
<1>4. Sorted(s_rx_queue') /\ Sorted(air') /\ Sorted(heard')
  BY <1>1 DEF LinkIInv, OrderInv, ArrivalOrder, Sorted
<1>5. ArrivalOrder' BY <1>1, <1>2, <1>4 DEF LinkIInv, OrderInv, ArrivalOrder
<1>6. RefusedIsPast' BY <1>1, <1>2, <1>3 DEF LinkIInv, OrderInv, RefusedIsPast
<1>7. ExpectsNext' BY <1>1, <1>2 DEF LinkIInv, OrderInv, ExpectsNext
<1> QED BY <1>5, <1>6, <1>7 DEF OrderInv

\* The speaker is started for a stream, or a packet cannot be written.
LEMMA StartOrder ==
    ASSUME LinkIInv, Rx!StartSpeaker \/ Rx!WriteFails,
           UNCHANGED <<txVars, heard, refused>>
    PROVE  OrderInv'
<1> USE DEF Hand, Taken
<1>1. UNCHANGED <<s_rx_queue, packet, heard, refused, sent, air>>
  BY DEF Rx!StartSpeaker, Rx!WriteFails, txVars, radio
<1>2. \/ /\ rpc = "start" /\ rpc' = "write" /\ spk' = "rx"
         /\ expected_sequence' = packet.sequence
      \/ rpc = "write" /\ rpc' = "write_error" /\ spk' = spk
  BY DEF Rx!StartSpeaker, Rx!WriteFails
<1>3. Queued' = Queued /\ OnAir' = OnAir /\ Heard' = Heard
  BY <1>1 DEF Queued, OnAir, Heard, Members
<1>4. Sorted(s_rx_queue') /\ Sorted(air') /\ Sorted(heard')
  BY <1>1 DEF LinkIInv, OrderInv, ArrivalOrder, Sorted
<1>5. ArrivalOrder' BY <1>1, <1>2, <1>3, <1>4 DEF LinkIInv, OrderInv, ArrivalOrder
<1>6. RefusedIsPast'
  <2>1. ASSUME NEW s \in sent, s.start, Before(s, packet), rpc = "start"
        PROVE  s.stream < packet.stream
    <3>1. packet \in sent /\ packet.start
      BY <2>1 DEF LinkIInv, OrderInv, ArrivalOrder, RxOK
    <3>2. s \in TxPackets /\ packet \in TxPackets /\ s.number = 0 /\ packet.number = 0
      BY <2>1, <3>1, LinkTypes
    <3> QED BY <2>1, <3>2 DEF Before, TxPackets, Numbers
  <2> QED BY <1>1, <1>2, <1>3, <2>1 DEF LinkIInv, OrderInv, RefusedIsPast
<1>7. ExpectsNext'
  <2>1. CASE rpc = "start"
    <3>1. packet.start BY <2>1 DEF LinkIInv, RxOK
    <3> QED BY <1>1, <1>2, <2>1, <3>1 DEF ExpectsNext
  <2>2. CASE rpc = "write"
    <3>1. /\ packet \in sent /\ \A p \in Heard : Before(p, packet)
          /\ \A q \in Queued \cup OnAir : Before(packet, q)
      BY <2>2 DEF LinkIInv, OrderInv, ArrivalOrder
    <3> QED BY <1>1, <1>2, <1>3, <2>2, <3>1 DEF ExpectsNext
  <2> QED BY <1>2, <2>1, <2>2
<1> QED BY <1>5, <1>6, <1>7 DEF OrderInv

\* The statements that neither take, play nor refuse a packet, and Main.
LEMMA OtherOrder ==
    ASSUME LinkIInv,
           \/ Rx!Silence \/ Rx!DropPacket \/ Rx!StartPacket \/ Rx!StrayPacket
           \/ Rx!RestartSpeaker \/ Rx!NextPacket \/ Rx!EndStream
           \/ Rx!MainPlays \/ Rx!MainEndsPlaying \/ Rx!MainDims,
           UNCHANGED <<txVars, heard, refused>>
    PROVE  OrderInv'
<1> USE DEF Hand, Taken
<1>1. UNCHANGED <<s_rx_queue, packet, expected_sequence, heard, refused, sent, air>>
  BY DEF Rx!Silence, Rx!DropPacket, Rx!StartPacket, Rx!StrayPacket, Rx!RestartSpeaker,
         Rx!NextPacket, Rx!EndStream, Rx!MainPlays, Rx!MainEndsPlaying, Rx!MainDims,
         Rx!session, txVars, radio
<1>2. /\ spk' = "rx" => spk = "rx"
      /\ rpc' # "receive" => rpc # "receive"
      /\ rpc' \in {"look", "restart", "start", "write"} =>
            rpc \in {"look", "restart", "start", "write"}
      /\ rpc' = "write" => rpc = "write" \/ ~packet.start
      /\ rpc = "write" => rpc' = "write"
  BY DEF Rx!Silence, Rx!DropPacket, Rx!StartPacket, Rx!StrayPacket, Rx!RestartSpeaker,
         Rx!NextPacket, Rx!EndStream, Rx!MainPlays, Rx!MainEndsPlaying, Rx!MainDims,
         Rx!session, Rx!Stopped, Rx!StopFails
<1>3. Queued' = Queued /\ OnAir' = OnAir /\ Heard' = Heard
  BY <1>1 DEF Queued, OnAir, Heard, Members
<1>4. Sorted(s_rx_queue') /\ Sorted(air') /\ Sorted(heard')
  BY <1>1 DEF LinkIInv, OrderInv, ArrivalOrder, Sorted
<1>5. ArrivalOrder' BY <1>1, <1>2, <1>3, <1>4 DEF LinkIInv, OrderInv, ArrivalOrder
<1>6. RefusedIsPast' BY <1>1, <1>2, <1>3 DEF LinkIInv, OrderInv, RefusedIsPast
<1>7. ExpectsNext' BY <1>1, <1>2, <1>3 DEF LinkIInv, OrderInv, ExpectsNext
<1> QED BY <1>5, <1>6, <1>7 DEF OrderInv

\* Whatever the next step of the link is.
LEMMA OrderStep == ASSUME LinkIInv, LinkNext PROVE OrderInv'
BY SenderOrder, AirOrder, ReceiveOrder, PlayOrder, TurnAwayOrder, StartOrder, OtherOrder
   DEF LinkNext, Listener, Fault, Follow, OtherUsers

-----------------------------------------------------------------------------
(* When nothing goes wrong *)

\* The first packets, and those that do not follow a packet, need none before them.
LEMMA CleanMain == ASSUME LinkIInv, Main, clean, tpc' # "failed" PROVE CleanSender'
<1>1. /\ TxTypeOK /\ CallOK /\ LastIsEnd /\ OneAtATime /\ ConfirmedInTime
      /\ ~late /\ tpc # "failed"
      /\ Sending => SentBefore(out.number)
      /\ (tpc = "idle" /\ s_streaming_tx) \/ tpc = "record" => SentBefore(number)
      /\ \A q \in sent : q.start \/ \E p \in sent : Precedes(p, q)
  BY DEF LinkIInv, TxIInv, CallInv, CleanSender
<1>2. sent' = sent
  BY DEF Main, StreamStart, StreamStartFails, SendNext, ReadFails, SendNextRefused,
         StreamStop, SendRecording, RecordFails, RecordedPacket, Drain, Reset, Submit,
         WaitDone, WaitTimesOut, Status, ReturnFromCall, ReturnFromPacket,
         ReturnFromRecording, NextRecorded, radio
<1>3. ~late'
  BY <1>1 DEF Main, StreamStart, StreamStartFails, SendNext, ReadFails, SendNextRefused,
         StreamStop, SendRecording, RecordFails, RecordedPacket, Drain, Reset, Submit,
         WaitDone, WaitTimesOut, Status, ReturnFromCall, ReturnFromPacket,
         ReturnFromRecording, NextRecorded, Step
<1>4. SUFFICES /\ Sending' => SentBefore(out.number)'
               /\ (tpc' = "idle" /\ s_streaming_tx') \/ tpc' = "record" =>
                     SentBefore(number)'
  BY <1>1, <1>2, <1>3 DEF CleanSender
<1>5. ASSUME number' = 0, ~Sending' PROVE SentBefore(number)' /\ ~Sending'
  BY <1>5 DEF SentBefore
<1>6. ASSUME stream' = stream, number' = number, SentBefore(number)
      PROVE  SentBefore(number)'
  BY <1>2, <1>6 DEF SentBefore
<1>7. CASE \/ StreamStart /\ ~s_streaming_tx
           \/ \E n \in Recordings : SendRecording(n)
  BY <1>5, <1>7 DEF StreamStart, SendRecording, Sending, TxPcs
<1>8. CASE \/ StreamStart /\ s_streaming_tx
           \/ StreamStartFails \/ ReadFails \/ SendNextRefused \/ RecordFails
           \/ StreamStop /\ ~s_streaming_tx
  <2>1. tpc = "idle" /\ tpc' = tpc /\ stream' = stream /\ number' = number
    BY <1>8 DEF StreamStart, StreamStartFails, ReadFails, SendNextRefused, RecordFails,
                StreamStop, call
  <2>2. s_streaming_tx' => s_streaming_tx
    BY <1>8 DEF StreamStart, StreamStartFails, ReadFails, SendNextRefused, RecordFails,
                StreamStop, call, live
  <2>3. ~Sending' BY <2>1 DEF Sending, TxPcs
  <2> QED BY <1>1, <1>6, <2>1, <2>2, <2>3
<1>9. CASE \/ \E end \in EndFlags : SendNext(end)
           \/ StreamStop /\ s_streaming_tx
           \/ RecordedPacket
  <2>1. /\ SentBefore(number) /\ tpc' = "drain"
        /\ out'.number = number /\ stream' = stream
    BY <1>1, <1>9 DEF SendNext, StreamStop, RecordedPacket, MakePacket
  <2> QED BY <1>2, <2>1 DEF SentBefore
<1>10. CASE Drain \/ Reset \/ Submit \/ WaitDone \/ WaitTimesOut \/ Status
  <2>1. /\ Sending /\ tpc' \notin {"idle", "record"}
        /\ stream' = stream /\ out' = out
    BY <1>10 DEF Drain, Reset, Submit, WaitDone, WaitTimesOut, Status, Step, call,
                 Sending, TxPcs
  <2> QED BY <1>1, <1>2, <2>1 DEF SentBefore
<1>11. CASE ReturnFromCall \/ ReturnFromRecording
  <2>1. tpc' = "idle" /\ ~s_streaming_tx'
    BY <1>1, <1>11 DEF ReturnFromCall, ReturnFromRecording, Returned, EndsRecording,
                       CallOK, live
  <2> QED BY <2>1 DEF Sending, TxPcs
<1>12. CASE ReturnFromPacket \/ NextRecorded
  <2>1. /\ tpc = "ok" /\ tpc' \in {"idle", "record"}
        /\ stream' = stream /\ number' = number
        /\ op = "recording" => number # length
        /\ op # "recording" => op \notin {"stop", "next_end"}
    BY <1>1, <1>12 DEF ReturnFromPacket, NextRecorded, Returned, EndsCall,
                       EndsRecording, call
  <2>2. Sending BY <2>1 DEF Sending, TxPcs
  <2>3. out \in sent
    BY <1>1, <2>1 DEF OneAtATime, ConfirmedInTime
  <2>4. ~out.end /\ out.stream = stream /\ number = out.number + 1
    <3>1. op \in {"next", "next_end", "stop", "recording"} BY <1>1 DEF TxTypeOK
    <3>2. op = "next" \/ op = "recording" BY <2>1, <3>1
    <3>3. out.stream = stream /\ number = out.number + 1
      BY <1>1, <2>2 DEF CallOK
    <3>4. ~out.end BY <1>1, <2>1, <2>2, <3>2 DEF LastIsEnd
    <3> QED BY <3>3, <3>4
  <2>5. SentBefore(number) BY <2>3, <2>4 DEF SentBefore
  <2>6. ~Sending' BY <2>1 DEF Sending
  <2> QED BY <1>6, <2>1, <2>5, <2>6
<1> QED BY <1>7, <1>8, <1>9, <1>10, <1>11, <1>12 DEF Main

\* The packet that goes out is the one in hand, and the one before it went out before.
LEMMA CleanWifi ==
    ASSUME LinkIInv, Wifi, clean, ~cb /\ cb' => air' # air
    PROVE  CleanSender'
<1>1. /\ TxTypeOK /\ CallOK /\ OneAtATime
      /\ ~late /\ tpc # "failed"
      /\ Sending => SentBefore(out.number)
      /\ (tpc = "idle" /\ s_streaming_tx) \/ tpc = "record" => SentBefore(number)
      /\ \A q \in sent : q.start \/ \E p \in sent : Precedes(p, q)
  BY DEF LinkIInv, TxIInv, CallInv, CleanSender
<1>2. UNCHANGED <<tpc, out, stream, number, late>> /\ (s_streaming_tx' => s_streaming_tx)
  BY DEF Wifi, SendCb, SendCbGives, call, place
<1>3. Sending' <=> Sending BY <1>2 DEF Sending
<1>4. CASE SendCb
  <2>1. sent' = sent \cup {Head(driver)} /\ driver # <<>> /\ driver \in Seq(TxPackets)
    BY <1>1, <1>4 DEF SendCb, TxTypeOK
  <2>2. Head(driver) = out /\ Sending
    <3>1. tpc = "wait" /\ Len(driver) = 1 /\ driver[1] = out
      BY <1>1, <2>1 DEF OneAtATime
    <3> QED BY <2>1, <3>1, QueueTake DEF Sending, TxPcs
  <2>3. out.start <=> out.number = 0
    BY <2>2 DEF LinkIInv, TxIInv, Numbered, Made
  <2>4. out.start \/ \E p \in sent : Precedes(p, out)
    <3>1. out.number \in Nat /\ out.stream = stream
      BY <1>1, <2>2 DEF TxTypeOK, TxPackets, Numbers, CallOK
    <3> QED BY <1>1, <2>2, <2>3, <3>1 DEF SentBefore, Precedes
  <2>5. \A q \in sent' : q.start \/ \E p \in sent' : Precedes(p, q)
    BY <1>1, <2>1, <2>2, <2>4
  <2>6. SentBefore(out.number)' BY <1>1, <1>2, <2>1, <2>2 DEF SentBefore
  <2>7. tpc' \notin {"idle", "record"} BY <1>2, <2>2 DEF Sending
  <2> QED BY <1>1, <1>2, <2>5, <2>6, <2>7 DEF CleanSender
<1>5. CASE SendCbGives
  <2>1. sent' = sent BY <1>5 DEF SendCbGives
  <2>2. /\ Sending' => SentBefore(out.number)'
        /\ (tpc' = "idle" /\ s_streaming_tx') \/ tpc' = "record" => SentBefore(number)'
    BY <1>1, <1>2, <1>3, <2>1 DEF SentBefore
  <2> QED BY <1>1, <1>2, <2>1, <2>2 DEF CleanSender
<1> QED BY <1>4, <1>5 DEF Wifi

LEMMA CleanSenderStep == ASSUME LinkIInv, LinkNext PROVE CleanSender'
<1>1. CASE Sender BY <1>1, CleanMain, CleanWifi DEF Sender, CleanSender
<1>2. CASE ~Sender
  <2>1. UNCHANGED <<tpc, out, stream, number, s_streaming_tx, sent, late>>
    <3>1. CASE LostOnAir \/ Deliver
      BY <3>1 DEF LostOnAir, Deliver, Lose, call, place
    <3>2. CASE UNCHANGED txVars BY <3>2 DEF txVars, call, place, radio
    <3> QED
      BY <1>2, <3>1, <3>2
         DEF LinkNext, Listener, Play, TurnAway, Fault, Follow, OtherUsers
  <2>2. clean' => clean
    BY <1>2 DEF LinkNext, LostOnAir, Deliver, Listener, Play, TurnAway, Fault, Follow,
                OtherUsers
  <2>3. Sending' <=> Sending BY <2>1 DEF Sending
  <2>4. CleanSender BY DEF LinkIInv
  <2> QED BY <2>1, <2>2, <2>3, <2>4 DEF CleanSender, SentBefore
<1> QED BY <1>1, <1>2

\* A packet in the middle of a stream finds a session: the one before it was heard.
LEMMA NoStray ==
    ASSUME LinkIInv, clean, rpc = "look", ~packet.start
    PROVE  speaker_started
<1>1. /\ packet \in sent /\ packet \in Hand
      /\ \A q \in Queued \cup OnAir : Before(packet, q)
      /\ \A p \in Heard : Before(p, packet)
      /\ Sorted(heard)
  BY DEF LinkIInv, OrderInv, ArrivalOrder, Taken, Hand
<1>2. PICK p \in sent : Precedes(p, packet) BY <1>1 DEF LinkIInv, CleanSender
<1>3. p \in TxPackets /\ packet \in TxPackets BY LinkTypes
<1>4. Before(p, packet) BY <1>2, <1>3 DEF Precedes, Before, TxPackets, Numbers
<1>5. ASSUME NEW q \in TxPackets, Before(p, q) PROVE ~Before(q, packet)
  BY <1>2, <1>3, <1>5 DEF Precedes, Before, TxPackets, Numbers
<1>6. PICK i \in 1..Len(heard) : heard[i] = p
  <2>1. ~\E k \in 1..Len(air) : air[k] = p
    BY <1>1, <1>3, <1>4, BeforeIsOrder DEF OnAir, Members
  <2>2. ~\E k \in 1..Len(s_rx_queue) : s_rx_queue[k] = p
    BY <1>1, <1>3, <1>4, BeforeIsOrder DEF Queued, Members
  <2>3. packet # p BY <1>3, <1>4, BeforeIsOrder
  <2> QED BY <2>1, <2>2, <2>3 DEF LinkIInv, CleanLosesNothing
<1>7. heard \in Seq(TxPackets) /\ Len(heard) \in Nat BY LinkTypes, LenProperties
<1>8. i = Len(heard)
  <2>1. SUFFICES ASSUME i < Len(heard) PROVE FALSE BY <1>6, <1>7
  <2>2. Len(heard) \in 1..Len(heard) BY <1>6, <1>7
  <2>3. Before(p, heard[Len(heard)]) BY <1>1, <1>6, <2>1, <2>2 DEF Sorted
  <2>4. Before(heard[Len(heard)], packet) BY <1>1, <2>2 DEF Heard, Members
  <2>5. heard[Len(heard)] \in TxPackets BY <1>7, <2>2, ElementOfSeq
  <2> QED BY <1>5, <2>3, <2>4, <2>5
<1>9. heard # <<>> /\ ~heard[Len(heard)].end
  BY <1>2, <1>6, <1>7, <1>8, EmptySeq DEF Precedes
<1> QED BY <1>9 DEF LinkIInv, CleanReceiver

\* What becomes of the session in a step in which nothing goes wrong.
LEMMA CleanReceiverStep == ASSUME LinkIInv, LinkNext PROVE CleanReceiver'
<1>1. SUFFICES ASSUME clean'
               PROVE  /\ ~dropping_stream' /\ rpc' # "write_error"
                      /\ rpc' = "end" => /\ heard' # <<>>
                                         /\ heard'[Len(heard')] = packet' /\ packet'.end
                      /\ rpc' # "start" /\ heard' # <<>> =>
                            heard'[Len(heard')].end \/ speaker_started'
  BY DEF CleanReceiver
<1>2. clean
  BY <1>1 DEF LinkNext, Sender, LostOnAir, Deliver, Listener, Play, TurnAway, Fault,
              Follow, OtherUsers
<1>3. /\ ~dropping_stream /\ rpc # "write_error"
      /\ rpc = "end" => heard # <<>> /\ heard[Len(heard)] = packet /\ packet.end
      /\ rpc # "start" /\ heard # <<>> => heard[Len(heard)].end \/ speaker_started
  BY <1>2 DEF LinkIInv, CleanReceiver
<1>4. heard \in Seq(TxPackets) /\ packet \in TxPackets /\ Len(heard) \in Nat
  BY LinkTypes, LenProperties
<1>5. RxOK BY DEF LinkIInv
<1>6. CASE Sender \/ LostOnAir \/ Deliver \/ OtherUsers
  <2>1. UNCHANGED <<heard, packet, rpc, dropping_stream, speaker_started>>
    BY <1>6 DEF Sender, LostOnAir, Deliver, OtherUsers, rx, Rx!Arrives, Rx!MainPlays,
                Rx!MainEndsPlaying, Rx!MainDims, Rx!session
  <2> QED BY <1>3, <2>1
<1>7. CASE Play
  <2>1. /\ heard' = Append(heard, packet) /\ spk = "rx"
        /\ UNCHANGED <<packet, dropping_stream, speaker_started>>
        /\ rpc' = IF packet.end THEN "end" ELSE "receive"
    BY <1>7 DEF Play, Rx!Write
  <2>2. heard' # <<>> /\ heard'[Len(heard')] = packet BY <1>4, <2>1, QueueAppend
  <2>3. speaker_started
    BY <1>5, <2>1 DEF RxOK, Rx!RxInv, Rx!SpeakerOnlyInSession
  <2> QED BY <1>3, <2>1, <2>2, <2>3
<1>8. CASE Follow
  <2>1. heard' = heard /\ (speaker_started' => spk' = "rx") BY <1>1, <1>8 DEF Follow
  <2>2. CASE Rx!Receive BY <1>3, <2>1, <2>2 DEF Rx!Receive
  <2>3. CASE Rx!StartPacket
    <3>1. /\ UNCHANGED <<packet, dropping_stream, speaker_started>>
          /\ rpc = "look" /\ rpc' \in {"restart", "start"}
      BY <2>3 DEF Rx!StartPacket, Rx!session
    <3> QED BY <1>3, <2>1, <3>1
  <2>4. CASE Rx!RestartSpeaker
    BY <1>3, <2>1, <2>4 DEF Rx!RestartSpeaker
  <2>5. CASE Rx!StartSpeaker
    BY <1>3, <2>1, <2>5 DEF Rx!StartSpeaker
  <2>6. CASE Rx!NextPacket
    <3>1. UNCHANGED <<packet, dropping_stream, speaker_started>> /\ rpc' = "write"
          /\ speaker_started
      BY <2>6 DEF Rx!NextPacket, Rx!session
    <3> QED BY <1>3, <2>1, <3>1
  <2>7. CASE Rx!EndStream
    <3>1. dropping_stream' = dropping_stream /\ rpc' = "receive" /\ rpc = "end"
      BY <1>3, <2>7 DEF Rx!EndStream
    <3>2. heard # <<>> /\ heard[Len(heard)].end BY <1>3, <3>1
    <3> QED BY <1>3, <2>1, <3>1, <3>2
  <2>8. CASE Rx!Silence /\ ~speaker_started
    <3>1. ~dropping_stream' /\ rpc' = "receive" /\ rpc = "receive"
      BY <2>8 DEF Rx!Silence
    <3>2. heard # <<>> => heard[Len(heard)].end BY <1>3, <2>8, <3>1
    <3> QED BY <2>1, <3>1, <3>2
  <2>9. CASE Rx!StrayPacket
    BY <1>2, <2>9, NoStray DEF Rx!StrayPacket
  <2>10. ~Rx!DropPacket BY <1>3 DEF Rx!DropPacket
  <2> QED
    BY <1>8, <2>2, <2>3, <2>4, <2>5, <2>6, <2>7, <2>8, <2>9, <2>10 DEF Follow
<1> QED
  BY <1>1, <1>6, <1>7, <1>8 DEF LinkNext, Listener, TurnAway, Fault

\* Every packet that left the antenna is somewhere, after a step in which nothing
\* goes wrong.
LEMMA CleanLosesNothingStep == ASSUME LinkIInv, LinkNext PROVE CleanLosesNothing'
<1> DEFINE Kept == IF rpc \in {"receive", "end"} THEN {} ELSE {packet}
           Everywhere == OnAir \cup Queued \cup Kept \cup Heard
<1>1. CleanLosesNothing <=> (clean => sent \subseteq Everywhere)
  BY DEF CleanLosesNothing, OnAir, Queued, Heard, Members
<1>2. CleanLosesNothing' <=> (clean' => sent' \subseteq Everywhere')
  BY DEF CleanLosesNothing, OnAir, Queued, Heard, Members
<1>3. SUFFICES ASSUME clean' PROVE sent' \subseteq Everywhere' BY <1>2
<1>4. clean
  BY <1>3 DEF LinkNext, Sender, LostOnAir, Deliver, Listener, Play, TurnAway, Fault,
              Follow, OtherUsers
<1>5. sent \subseteq Everywhere BY <1>1, <1>4 DEF LinkIInv
<1>6. /\ air \in Seq(TxPackets) /\ s_rx_queue \in Seq(TxPackets)
      /\ heard \in Seq(TxPackets) /\ packet \in TxPackets
      /\ Sorted(air) /\ Sorted(s_rx_queue) /\ Sorted(heard)
  BY LinkTypes DEF LinkIInv, OrderInv, ArrivalOrder
<1>7. CASE Sender
  <2>1. UNCHANGED <<s_rx_queue, heard, packet, rpc>> BY <1>7 DEF Sender, rx
  <2>2. Queued' = Queued /\ Heard' = Heard /\ Kept' = Kept
    BY <2>1 DEF Queued, Heard, Members
  <2>3. CASE sent' = sent /\ air' = air
    <3>1. OnAir' = OnAir BY <2>3 DEF OnAir, Members
    <3> QED BY <1>5, <2>2, <2>3, <3>1
  <2>4. ASSUME NEW h \in TxPackets, air' = Append(air, h), sent' = sent \cup {h},
               \A p \in sent : Before(p, h)
        PROVE  sent' \subseteq Everywhere'
    <3>1. \A e \in Members(air) : Before(e, h)
      BY <2>4 DEF LinkIInv, OrderInv, ArrivalOrder, OnAir
    <3>2. Members(Append(air, h)) = Members(air) \cup {h}
      BY <1>6, <2>4, <3>1, SortedAppend
    <3>3. OnAir' = OnAir \cup {h} BY <2>4, <3>2 DEF OnAir, Members
    <3> QED BY <1>5, <2>2, <2>4, <3>3
  <2> QED BY <1>7, <2>3, <2>4, AirGrows DEF Sender, LinkIInv
<1>8. CASE Deliver
  <2>1. /\ UNCHANGED <<heard, packet, rpc, sent>>
        /\ air # <<>> /\ air' = Tail(air)
        /\ s_rx_queue' = Append(s_rx_queue, Head(air))
    BY <1>3, <1>8 DEF Deliver, Rx!Arrives, Rx!session
  <2>2. Heard' = Heard /\ Kept' = Kept BY <2>1 DEF Heard, Members
  <2>3. OnAir \subseteq OnAir' \cup {Head(air)}
    <3>1. Members(air) = Members(Tail(air)) \cup {Head(air)} BY <1>6, <2>1, SortedTake
    <3> QED BY <2>1, <3>1 DEF OnAir, Members
  <2>4. Queued' = Queued \cup {Head(air)}
    <3>1. Head(air) \in OnAir /\ Head(air) \in TxPackets
      BY <1>6, <2>1, SortedTake, QueueTake DEF OnAir
    <3>2. \A e \in Members(s_rx_queue) : Before(e, Head(air))
      BY <3>1 DEF LinkIInv, OrderInv, ArrivalOrder, Queued
    <3>3. Members(Append(s_rx_queue, Head(air))) = Members(s_rx_queue) \cup {Head(air)}
      BY <1>6, <3>1, <3>2, SortedAppend
    <3> QED BY <2>1, <3>3 DEF Queued, Members
  <2> QED BY <1>5, <2>1, <2>2, <2>3, <2>4
<1>9. CASE Play
  <2>1. /\ UNCHANGED <<air, s_rx_queue, packet, sent>>
        /\ heard' = Append(heard, packet) /\ rpc = "write"
    BY <1>9 DEF Play, Rx!Write, txVars, radio
  <2>2. OnAir' = OnAir /\ Queued' = Queued BY <2>1 DEF OnAir, Queued, Members
  <2>3. Heard' = Heard \cup {packet}
    <3>1. \A e \in Members(heard) : Before(e, packet)
      BY <2>1 DEF LinkIInv, OrderInv, ArrivalOrder, Heard, Hand
    <3>2. Members(Append(heard, packet)) = Members(heard) \cup {packet}
      BY <1>6, <3>1, SortedAppend
    <3> QED BY <2>1, <3>2 DEF Heard, Members
  <2> QED BY <1>5, <2>1, <2>2, <2>3
<1>10. CASE Follow /\ Rx!Receive
  <2>1. /\ UNCHANGED <<air, heard, sent>> /\ s_rx_queue # <<>>
        /\ packet' = Head(s_rx_queue) /\ s_rx_queue' = Tail(s_rx_queue)
        /\ rpc = "receive" /\ rpc' = "look"
    BY <1>10 DEF Follow, Rx!Receive, txVars, radio
  <2>2. OnAir' = OnAir /\ Heard' = Heard BY <2>1 DEF OnAir, Heard, Members
  <2>3. Queued \subseteq Queued' \cup {packet'}
    <3>1. Members(s_rx_queue) = Members(Tail(s_rx_queue)) \cup {Head(s_rx_queue)}
      BY <1>6, <2>1, SortedTake
    <3> QED BY <2>1, <3>1 DEF Queued, Members
  <2> QED BY <1>5, <2>1, <2>2, <2>3
<1>11. CASE OtherUsers \/ (Follow /\ ~Rx!Receive)
  <2>1. UNCHANGED <<air, s_rx_queue, heard, packet, sent>>
    BY <1>11 DEF OtherUsers, Follow, Rx!DropPacket, Rx!StartPacket, Rx!StrayPacket,
                 Rx!RestartSpeaker, Rx!StartSpeaker, Rx!NextPacket, Rx!EndStream,
                 Rx!Silence, Rx!MainPlays, Rx!MainEndsPlaying, Rx!MainDims, Rx!session,
                 txVars, radio
  <2>2. rpc' \in {"receive", "end"} => rpc \in {"receive", "end"}
    <3>1. ~dropping_stream /\ rpc # "write_error" BY <1>4 DEF LinkIInv, CleanReceiver
    <3>2. ~Rx!DropPacket BY <3>1 DEF Rx!DropPacket
    <3>3. ~Rx!StrayPacket BY <1>4, NoStray DEF Rx!StrayPacket
    <3> QED
      BY <1>11, <3>1, <3>2, <3>3
         DEF OtherUsers, Follow, Rx!StartPacket, Rx!RestartSpeaker, Rx!StartSpeaker,
             Rx!NextPacket, Rx!EndStream, Rx!Silence, Rx!MainPlays, Rx!MainEndsPlaying,
             Rx!MainDims
  <2>3. OnAir' = OnAir /\ Queued' = Queued /\ Heard' = Heard
    BY <2>1 DEF OnAir, Queued, Heard, Members
  <2>4. Kept \subseteq Kept' BY <2>1, <2>2
  <2> QED BY <1>5, <2>1, <2>3, <2>4
<1>12. ~LostOnAir /\ ~TurnAway /\ ~Fault BY <1>3 DEF LostOnAir, TurnAway, Fault
<1> HIDE DEF Everywhere
<1> QED BY <1>7, <1>8, <1>9, <1>10, <1>11, <1>12 DEF LinkNext, Listener

-----------------------------------------------------------------------------
(* The theorems about the link *)

\* Two boards that have been switched on, and nothing between them.
LEMMA InitLink == ASSUME LinkInit PROVE LinkIInv
<1>1. TxIInv BY InitTx DEF LinkInit
<1>2. /\ Len(air) = 0 /\ Len(s_rx_queue) = 0 /\ Len(heard) = 0
      /\ s_rx_queue \in Seq(TxPackets) /\ heard \in Seq(TxPackets)
      /\ Len(s_rx_queue) <= QueueLen
  BY EmptySeq, LinkAssumption DEF LinkInit, TxInit, Rx!RxInit
<1>3. packet \in TxPackets
  <2>1. out \in TxPackets BY <1>1 DEF TxIInv, CallInv, TxTypeOK
  <2> QED BY <2>1, SamePackets DEF LinkInit, Rx!RxInit
<1>4. expected_sequence \in 0..SeqMod - 1 BY TxAssumption DEF LinkInit, Rx!RxInit
<1>5. Rx!RxTypeOK
  BY <1>2, <1>3, <1>4, SamePackets DEF LinkInit, Rx!RxInit, Rx!RxTypeOK, Rx!RxPcs
<1>6. RxOK
  BY <1>5 DEF LinkInit, Rx!RxInit, RxOK, Rx!RxInv, Rx!SpeakerOnlyInSession,
              Rx!DroppingIsSilent
<1>7. LinkTypeOK
  BY <1>1, <1>2, <1>5 DEF LinkInit, LinkTypeOK, TxIInv, CallInv
<1>8. OnAir = {} /\ Queued = {} /\ Heard = {} /\ Hand = {} /\ Taken = {}
  BY <1>2 DEF LinkInit, Rx!RxInit, OnAir, Queued, Heard, Hand, Taken, Members
<1>9. OrderInv
  BY <1>2, <1>8 DEF LinkInit, Rx!RxInit, OrderInv, ArrivalOrder, RefusedIsPast,
                    ExpectsNext, Sorted
<1>10. CleanSender BY DEF LinkInit, TxInit, CleanSender, Sending, TxPcs
<1>11. CleanReceiver BY DEF LinkInit, Rx!RxInit, CleanReceiver
<1>12. CleanLosesNothing BY DEF LinkInit, TxInit, CleanLosesNothing
<1> QED BY <1>1, <1>6, <1>7, <1>9, <1>10, <1>11, <1>12 DEF LinkIInv

\* No step of either board, of the radio or of nothing at all breaks the invariant.
LEMMA StepLink == ASSUME LinkIInv, [LinkNext]_linkVars PROVE LinkIInv'
<1>1. CASE LinkNext
  <2>1. TxIInv' /\ RxOK' /\ LinkTypeOK' BY <1>1, TypesStep DEF LinkIInv
  <2>2. OrderInv' /\ CleanSender' /\ CleanReceiver' /\ CleanLosesNothing'
    BY <1>1, OrderStep, CleanSenderStep, CleanReceiverStep, CleanLosesNothingStep
  <2> QED BY <2>1, <2>2 DEF LinkIInv
<1>2. CASE UNCHANGED linkVars
  <2>1. UNCHANGED <<txVars, rx, heard, refused, clean>> BY <1>2 DEF linkVars
  <2>2. TxIInv' BY <2>1, StutterTx DEF LinkIInv
  <2>3. RxOK' BY <2>1, RxSame DEF LinkIInv
  <2>4. LinkTypeOK'
    BY <2>1, <2>2, <2>3 DEF LinkIInv, LinkTypeOK, TxIInv, CallInv, RxOK, Rx!RxInv
  <2>5. UNCHANGED <<air, sent, late, tpc, out, stream, number, s_streaming_tx,
                    s_rx_queue, packet, rpc, spk, expected_sequence, speaker_started,
                    dropping_stream>>
    BY <2>1 DEF txVars, call, place, radio, rx
  <2>6. UNCHANGED <<OnAir, Queued, Heard, Hand, Taken>>
    BY <2>1, <2>5 DEF OnAir, Queued, Heard, Hand, Taken, Members
  <2>7. OrderInv'
    BY <2>1, <2>5, <2>6 DEF LinkIInv, OrderInv, ArrivalOrder, RefusedIsPast,
                            ExpectsNext, Sorted
  <2>8. CleanSender'
    BY <2>1, <2>5 DEF LinkIInv, CleanSender, SentBefore, Sending
  <2>9. CleanReceiver' /\ CleanLosesNothing'
    BY <2>1, <2>5 DEF LinkIInv, CleanReceiver, CleanLosesNothing
  <2> QED BY <2>2, <2>3, <2>4, <2>7, <2>8, <2>9 DEF LinkIInv
<1> QED BY <1>1, <1>2

LEMMA LinkInvariance == LinkSpec => []LinkIInv
BY InitLink, StepLink, PTL DEF LinkSpec

\* What is heard was said, in that order, and no part of it twice, whatever the
\* radio loses and whatever either board refuses, cuts off or restarts.
THEOREM SpeechKeepsOrder == LinkSpec => []LinkInv
<1>1. LinkIInv => LinkInv
  <2>1. ASSUME LinkIInv, NEW i \in 1..Len(heard) PROVE heard[i] \in sent
    BY <2>1 DEF LinkIInv, OrderInv, ArrivalOrder, Heard, Members
  <2> QED
    BY <2>1 DEF LinkIInv, LinkInv, HeardInOrder, OrderInv, ArrivalOrder, Sorted
<1> QED BY <1>1, LinkInvariance, PTL

\* The middle of a stream is never played when its START was turned away.
THEOREM NoStreamIsJoined == LinkSpec => []RefusedIsSilent
<1>1. LinkIInv => RefusedIsSilent
  <2>1. SUFFICES ASSUME LinkIInv, spk = "rx", packet.stream \in refused PROVE FALSE
    BY DEF RefusedIsSilent
  <2>2. PICK s \in sent : s.stream = packet.stream /\ s.stream < packet.stream
    BY <2>1 DEF LinkIInv, OrderInv, RefusedIsPast
  <2>3. s \in TxPackets BY <2>1, LinkTypes
  <2> QED BY <2>2, <2>3, TxAssumption DEF TxPackets
<1> QED BY <1>1, LinkInvariance, PTL

\* A gap in the sequence numbers is logged only when the packet before was not heard,
\* for every range of the numbers: also where they wrap around.
THEOREM GapsAreReal == LinkSpec => []GapMeansLoss
<1>1. LinkIInv => GapMeansLoss
  <2>1. SUFFICES ASSUME LinkIInv, rpc = "write", packet.sequence # expected_sequence
                 PROVE  \E n \in 0..packet.number - 1 : \A i \in 1..Len(heard) :
                           heard[i].stream = packet.stream => heard[i].number # n
    BY DEF GapMeansLoss, Rx!SequenceGap
  <2>2. /\ packet \in sent /\ packet \in TxPackets /\ sent \subseteq TxPackets
        /\ packet.start <=> packet.number = 0
        /\ packet.sequence = packet.number % SeqMod
    BY <2>1, LinkTypes DEF LinkIInv, OrderInv, ArrivalOrder, Taken
  <2>3. ~packet.start BY <2>1 DEF LinkIInv, OrderInv, ExpectsNext
  <2>4. packet.number \in Nat \ {0}
    BY <2>2, <2>3, TxAssumption DEF TxPackets, Numbers
  <2>5. ASSUME NEW i \in 1..Len(heard),
               heard[i].stream = packet.stream, heard[i].number = packet.number - 1
        PROVE  FALSE
    <3>1. heard[i] \in Heard /\ heard[i] \in sent
      BY <2>1 DEF LinkIInv, OrderInv, ArrivalOrder, Heard, Members
    <3>2. heard[i] \in TxPackets /\ heard[i].sequence = heard[i].number % SeqMod
      BY <2>1, <3>1, LinkTypes
    <3>3. expected_sequence # (heard[i].sequence + 1) % SeqMod
      <4>1. SeqMod \in Nat \ {0} /\ packet.number - 1 \in Nat BY <2>4, TxAssumption
      <4>2. (((packet.number - 1) % SeqMod) + 1) % SeqMod
               = (packet.number - 1 + 1) % SeqMod
        BY <4>1, ModSucc
      <4>3. packet.number - 1 + 1 = packet.number BY <2>4
      <4> QED BY <2>1, <2>2, <2>5, <3>2, <4>2, <4>3
    <3>4. PICK f \in sent : Before(heard[i], f) /\ Before(f, packet)
      BY <2>1, <2>3, <3>1, <3>3 DEF LinkIInv, OrderInv, ExpectsNext, Hand
    <3>5. f \in TxPackets BY <2>2
    <3> QED BY <2>2, <2>5, <3>2, <3>4, <3>5 DEF Before, TxPackets, Numbers
  <2>6. packet.number - 1 \in 0..packet.number - 1 BY <2>4
  <2> QED BY <2>5, <2>6
<1> QED BY <1>1, LinkInvariance, PTL

\* As long as no board fails and the radio loses nothing, every packet that was sent
\* is heard, or is on its way to be.
THEOREM NothingIsLost == LinkSpec => []CleanLosesNothing
<1>1. LinkIInv => CleanLosesNothing BY DEF LinkIInv
<1> QED BY <1>1, LinkInvariance, PTL

-----------------------------------------------------------------------------
(* The link has its two halves *)

\* With a receiver in reach a sender is the sender it is alone: to it, what arrives is
\* what the radio takes off the air.  So its streams are well formed there too.
THEOREM LinkHasSender == LinkSpec => TxSpec
<1>1. LinkInit => TxInit BY DEF LinkInit
<1>2. [LinkNext]_linkVars => [TxNext]_txVars
  <2>1. CASE Sender BY <2>1 DEF Sender, TxNext
  <2>2. CASE LostOnAir BY <2>2 DEF LostOnAir, TxNext
  <2>3. CASE Deliver BY <2>3 DEF Deliver, TxNext, Lose
  <2>4. CASE Listener
    BY <2>4 DEF Listener, Play, TurnAway, Fault, Follow
  <2>5. CASE OtherUsers BY <2>5 DEF OtherUsers
  <2>6. CASE UNCHANGED linkVars BY <2>6 DEF linkVars
  <2> QED BY <2>1, <2>2, <2>3, <2>4, <2>5, <2>6 DEF LinkNext
<1> QED BY <1>1, <1>2, PTL DEF LinkSpec, TxSpec

\* What a sender puts on the air is among the packets that EspNowRx expects of it: all
\* that ReceiverIsSafe says of the receiver holds at the other end of a call.
THEOREM LinkHasReceiver == LinkSpec => Rx!RxSpec
<1>1. LinkInit => Rx!RxInit BY DEF LinkInit
<1>2. LinkIInv /\ [LinkNext]_linkVars => [Rx!RxNext]_(Rx!rxVars)
  <2> SUFFICES ASSUME LinkIInv, [LinkNext]_linkVars PROVE Rx!RxNext \/ UNCHANGED rx
    BY DEF rx, Rx!rxVars, Rx!session
  <2>1. CASE Sender BY <2>1 DEF Sender
  <2>2. CASE LostOnAir BY <2>2 DEF LostOnAir
  <2>3. CASE Deliver
    <3>1. air \in Seq(TxPackets) /\ air # <<>> /\ Rx!Arrives(Head(air))
      BY <2>3 DEF Deliver, LinkIInv, LinkTypeOK, TxTypeOK
    <3>2. Head(air) \in Rx!Packets BY <3>1, SamePackets, HeadTailProperties
    <3> QED BY <3>1, <3>2 DEF Rx!RxNext
  <2>4. CASE Listener BY <2>4, ListenerIsTask DEF Rx!RxNext, Rx!Receiver
  <2>5. CASE OtherUsers BY <2>5 DEF OtherUsers, Rx!RxNext, Rx!Receiver
  <2>6. CASE UNCHANGED linkVars BY <2>6 DEF linkVars
  <2> QED BY <2>1, <2>2, <2>3, <2>4, <2>5, <2>6 DEF LinkNext
<1> QED BY <1>1, <1>2, LinkInvariance, PTL DEF LinkSpec, Rx!RxSpec
=============================================================================
