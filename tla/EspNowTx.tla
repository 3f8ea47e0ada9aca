------------------------------- MODULE EspNowTx -------------------------------
(***************************************************************************)
(* The sending half of components/network_audio: network_audio_stream_start, *)
(* _send_next, _stop and network_audio_send_recording, called by Main, with  *)
(* network_audio_send_packet below them and, beside them,                    *)
(* network_audio_send_cb, which the Wi-Fi task calls for each packet the     *)
(* driver is done with, early or long after send_packet has stopped waiting  *)
(* for it.                                                                   *)
(*                                                                         *)
(* s_stream_mutex, s_tx_mutex and s_streaming_tx_owner are left out: every   *)
(* caller is app_main's task, so they are always free and always its own.    *)
(* A caller that got an error calls _stop next, as app_main does.            *)
(***************************************************************************)
EXTENDS Integers, Sequences, FiniteSets

CONSTANTS
    SeqMod,      \* 2^16: values of packet.sequence
    EndFlags,    \* values of end_after_packet that callers pass
    Recordings,  \* packets that a recording of network_audio_send_recording fills
    MaxStreams,  \* bound: live calls
    MaxPackets   \* bound: packets of one call, the one of _stop not counted

ASSUME TxAssumption ==
    /\ SeqMod \in Nat \ {0}
    /\ EndFlags \subseteq BOOLEAN
    /\ MaxStreams \in Nat
    /\ MaxPackets \in Nat
    /\ Recordings \subseteq 1..MaxPackets

VARIABLES
    s_streaming_tx, s_streaming_tx_first_packet, s_streaming_tx_sequence,
    mic,                 \* the live call holds the microphone
    s_tx_active,         \* status_leds.c: the transmit half of the red LED
    length,              \* packets of the recording being sent, a local
    s_send_done_sem,     \* the binary semaphore is full
    s_last_send_status,  \* "SUCCESS" or "FAIL"
    tpc,      \* where Main is
    op,       \* the call it is in: "next", "next_end" or "stop"
    out,      \* the packet under construction
    tret,     \* the result of Main's last call
    driver,   \* packets given to the driver and not yet reported by send_cb
    cb,       \* send_cb has stored the status and not yet given the semaphore
    air,      \* packets that were transmitted and have not arrived anywhere
    stream,   \* history: calls begun
    number,   \* history: packets made in this call
    confirmed, \* history: the packets reported sent to the caller
    sent,     \* history: the packets transmitted
    late      \* history: a wait for the semaphore has timed out

call    == <<s_streaming_tx, s_streaming_tx_first_packet,
             s_streaming_tx_sequence, mic, s_tx_active, length, stream, number>>
live    == <<s_streaming_tx, s_streaming_tx_first_packet,
             s_streaming_tx_sequence, mic>>  \* what a recording leaves alone
signal  == <<s_send_done_sem, s_last_send_status>>
place   == <<tpc, op, out, tret>>
radio   == <<driver, cb, air, sent>>
txVars  == <<call, signal, place, radio, confirmed, late>>

Numbers == 0..MaxPackets
TxPackets == [stream : 0..MaxStreams, number : Numbers,
              sequence : 0..SeqMod - 1, start : BOOLEAN, end : BOOLEAN]
TxPcs == {"idle", "record", "drain", "reset", "submit", "wait", "status", "failed", "ok"}

TxInit ==
    /\ s_streaming_tx = FALSE /\ s_streaming_tx_first_packet = FALSE
    /\ s_streaming_tx_sequence = 0
    /\ mic = FALSE /\ s_tx_active = FALSE /\ length = 0
    /\ s_send_done_sem = FALSE /\ s_last_send_status = "SUCCESS"
    /\ tpc = "idle" /\ op = "stop" /\ tret = "OK"
    /\ out = CHOOSE p \in TxPackets : TRUE
    /\ driver = <<>> /\ cb = FALSE /\ air = <<>>
    /\ stream = 0 /\ number = 0 /\ confirmed = {} /\ sent = {} /\ late = FALSE

-----------------------------------------------------------------------------
(* network_audio_stream_start *)

StreamStart ==
    /\ tpc = "idle" /\ stream < MaxStreams
    /\ IF s_streaming_tx
       THEN tret' = "INVALID_STATE" /\ UNCHANGED call
       ELSE /\ tret' = "OK"
            /\ mic' = TRUE /\ s_tx_active' = TRUE
            /\ s_streaming_tx' = TRUE
            /\ s_streaming_tx_first_packet' = TRUE
            /\ s_streaming_tx_sequence' = 0
            /\ stream' = stream + 1 /\ number' = 0
            /\ UNCHANGED length
    /\ UNCHANGED <<signal, tpc, op, out, radio, confirmed, late>>

StreamStartFails ==  \* the microphone is busy or cannot be enabled
    /\ tpc = "idle" /\ ~s_streaming_tx
    /\ tret' = "FAIL"
    /\ UNCHANGED <<call, signal, tpc, op, out, radio, confirmed, late>>

-----------------------------------------------------------------------------
(* network_audio_stream_send_next and network_audio_stream_stop up to the      *)
(* packet: the flags and the sequence number are settled before it is sent.    *)

MakePacket(end) ==
    /\ out' = [stream |-> stream, number |-> number,
               sequence |-> s_streaming_tx_sequence,
               start |-> s_streaming_tx_first_packet, end |-> end]
    /\ number' = number + 1
    /\ s_streaming_tx_sequence' = (s_streaming_tx_sequence + 1) % SeqMod

\* Mutant: the START flag is cleared only once the packet is out.
SendNext_KeepsFirst(end) ==
    /\ tpc = "idle" /\ s_streaming_tx /\ tret = "OK" /\ number < MaxPackets
    /\ MakePacket(end)
    /\ tpc' = "drain" /\ op' = IF end THEN "next_end" ELSE "next"
    /\ UNCHANGED <<s_streaming_tx_first_packet, s_streaming_tx, mic, s_tx_active,
                   length, stream, signal, tret, radio, confirmed, late>>

SendNext(end) ==
    /\ tpc = "idle" /\ s_streaming_tx /\ tret = "OK" /\ number < MaxPackets
    /\ MakePacket(end)
    /\ s_streaming_tx_first_packet' = FALSE
    /\ tpc' = "drain" /\ op' = IF end THEN "next_end" ELSE "next"
    /\ UNCHANGED <<s_streaming_tx, mic, s_tx_active, length, stream, signal, tret,
                   radio, confirmed, late>>

ReadFails ==  \* audio_mic_read returns an error before a packet is made
    /\ tpc = "idle" /\ s_streaming_tx /\ tret = "OK"
    /\ tret' = "FAIL"
    /\ UNCHANGED <<call, signal, tpc, op, out, radio, confirmed, late>>

SendNextRefused ==
    /\ tpc = "idle" /\ ~s_streaming_tx
    /\ tret' = "INVALID_STATE"
    /\ UNCHANGED <<call, signal, tpc, op, out, radio, confirmed, late>>

StreamStop ==
    /\ tpc = "idle"
    /\ IF s_streaming_tx
       THEN MakePacket(TRUE) /\ tpc' = "drain" /\ op' = "stop" /\ UNCHANGED tret
       ELSE tret' = "OK" /\ UNCHANGED <<out, number, s_streaming_tx_sequence,
                                       tpc, op>>
    /\ UNCHANGED <<s_streaming_tx, s_streaming_tx_first_packet, mic, s_tx_active,
                   length, stream, signal, radio, confirmed, late>>

-----------------------------------------------------------------------------
(* network_audio_send_recording: a stream of its own, with its own sequence    *)
(* numbers, that leaves the variables of a live call alone.                    *)

SendRecording(n) ==  \* n is what duration_ms comes to; the samples are recorded
    /\ tpc = "idle" /\ ~mic /\ stream < MaxStreams
    /\ stream' = stream + 1 /\ number' = 0 /\ length' = n
    /\ s_tx_active' = TRUE
    /\ tpc' = "record" /\ op' = "recording"
    /\ UNCHANGED <<live, out, tret, signal, radio, confirmed, late>>

RecordFails ==  \* the microphone is busy, or fails; or there is no memory
    /\ tpc = "idle" /\ Recordings # {}
    /\ tret' = "FAIL"
    /\ s_tx_active' \in {s_tx_active, FALSE}
    /\ UNCHANGED <<live, length, stream, number, signal, tpc, op, out, radio,
                   confirmed, late>>

RecordedPacket ==
    /\ tpc = "record"
    /\ out' = [stream |-> stream, number |-> number, sequence |-> number % SeqMod,
               start |-> number = 0, end |-> number + 1 >= length]
    /\ number' = number + 1
    /\ tpc' = "drain"
    /\ UNCHANGED <<live, s_tx_active, length, stream, signal, op, tret, radio,
                   confirmed, late>>

-----------------------------------------------------------------------------
(* network_audio_send_packet *)

Step(pc) == tpc' = pc /\ UNCHANGED <<op, out, tret>>

Drain ==
    /\ tpc = "drain" /\ Step("reset")
    /\ s_send_done_sem' = FALSE
    /\ UNCHANGED <<call, s_last_send_status, radio, confirmed, late>>

\* Mutant: the status of the packet before is kept.
Reset_KeepsStatus ==
    /\ tpc = "reset" /\ Step("submit")
    /\ UNCHANGED <<call, signal, radio, confirmed, late>>

Reset ==
    /\ tpc = "reset" /\ Step("submit")
    /\ s_last_send_status' = "FAIL"
    /\ UNCHANGED <<call, s_send_done_sem, radio, confirmed, late>>

Submit ==
    /\ tpc = "submit"
    /\ \/ Step("wait") /\ driver' = Append(driver, out)
       \/ Step("failed") /\ UNCHANGED driver  \* esp_now_send refuses it
    /\ UNCHANGED <<call, signal, cb, air, sent, confirmed, late>>

WaitDone ==
    /\ tpc = "wait" /\ s_send_done_sem /\ Step("status")
    /\ s_send_done_sem' = FALSE
    /\ UNCHANGED <<call, s_last_send_status, radio, confirmed, late>>

WaitTimesOut ==  \* 100 ms
    /\ tpc = "wait" /\ ~s_send_done_sem /\ Step("failed")
    /\ late' = TRUE
    /\ UNCHANGED <<call, signal, radio, confirmed>>

Status ==
    /\ tpc = "status"
    /\ IF s_last_send_status = "SUCCESS"
       THEN Step("ok") /\ confirmed' = confirmed \cup {out}
       ELSE Step("failed") /\ UNCHANGED confirmed
    /\ UNCHANGED <<call, signal, radio, late>>

-----------------------------------------------------------------------------
(* What follows send_packet in its callers.  The last packet ends a live call,  *)
(* after _stop whether it was sent or not; the first that fails ends a          *)
(* recording.                                                                  *)

EndsCall      == op = "stop" \/ (op = "next_end" /\ tpc = "ok")
EndsRecording == op = "recording" /\ (tpc = "failed" \/ number = length)
Returned      == tpc \in {"ok", "failed"}
Outcome       == IF tpc = "ok" THEN "OK" ELSE "FAIL"

ReturnFromCall ==
    /\ Returned /\ EndsCall
    /\ tpc' = "idle"
    /\ s_streaming_tx' = FALSE /\ mic' = FALSE /\ s_tx_active' = FALSE
    /\ s_streaming_tx_first_packet' = FALSE
    /\ tret' \in {Outcome, "FAIL"}  \* audio_mic_stop may fail
    /\ UNCHANGED <<s_streaming_tx_sequence, length, stream, number, signal, op, out,
                   radio, confirmed, late>>

ReturnFromPacket ==
    /\ Returned /\ ~EndsCall /\ op # "recording"
    /\ tpc' = "idle"
    /\ tret' = Outcome
    /\ UNCHANGED <<call, signal, op, out, radio, confirmed, late>>

ReturnFromRecording ==
    /\ Returned /\ EndsRecording
    /\ tpc' = "idle"
    /\ s_tx_active' = FALSE
    /\ tret' = Outcome
    /\ UNCHANGED <<live, length, stream, number, signal, op, out, radio, confirmed,
                   late>>

NextRecorded ==
    /\ Returned /\ op = "recording" /\ ~EndsRecording
    /\ tpc' = "record"
    /\ UNCHANGED <<call, signal, op, out, tret, radio, confirmed, late>>

Main ==
    \/ StreamStart \/ StreamStartFails \/ (\E end \in EndFlags : SendNext(end))
    \/ ReadFails \/ SendNextRefused \/ StreamStop
    \/ (\E n \in Recordings : SendRecording(n)) \/ RecordFails \/ RecordedPacket
    \/ Drain \/ Reset \/ Submit \/ WaitDone \/ WaitTimesOut \/ Status
    \/ ReturnFromCall \/ ReturnFromPacket \/ ReturnFromRecording \/ NextRecorded

-----------------------------------------------------------------------------
(* The Wi-Fi task (external): it transmits in order, a broadcast is not        *)
(* acknowledged, and network_audio_send_cb is called once for each packet.     *)

SendCb ==
    /\ driver # <<>> /\ ~cb
    /\ cb' = TRUE
    /\ \/ s_last_send_status' = "SUCCESS"
          /\ air' = Append(air, Head(driver)) /\ sent' = sent \cup {Head(driver)}
       \/ s_last_send_status' = "FAIL" /\ UNCHANGED <<air, sent>>
    /\ UNCHANGED <<call, s_send_done_sem, place, driver, confirmed, late>>

SendCbGives ==
    /\ cb
    /\ s_send_done_sem' = TRUE
    /\ cb' = FALSE /\ driver' = Tail(driver)
    /\ UNCHANGED <<call, s_last_send_status, place, air, sent, confirmed, late>>

Wifi == SendCb \/ SendCbGives

Lose ==  \* out of range, collision
    /\ air # <<>>
    /\ air' = Tail(air)
    /\ UNCHANGED <<call, signal, place, driver, cb, sent, confirmed, late>>

TxNext == Main \/ Wifi \/ Lose

TxSpec == TxInit /\ [][TxNext]_txVars

-----------------------------------------------------------------------------
(* Properties *)

\* Every variable stays within its type: a sequence number in its 16 bits.
TxTypeOK ==
    /\ s_streaming_tx \in BOOLEAN /\ s_streaming_tx_first_packet \in BOOLEAN
    /\ s_streaming_tx_sequence \in 0..SeqMod - 1
    /\ mic \in BOOLEAN /\ s_tx_active \in BOOLEAN /\ s_send_done_sem \in BOOLEAN
    /\ length \in Recordings \cup {0}
    /\ s_last_send_status \in {"SUCCESS", "FAIL"}
    /\ tpc \in TxPcs /\ op \in {"next", "next_end", "stop", "recording"}
    /\ out \in TxPackets /\ tret \in {"OK", "FAIL", "INVALID_STATE"}
    /\ driver \in Seq(TxPackets) /\ air \in Seq(TxPackets) /\ cb \in BOOLEAN
    /\ stream \in 0..MaxStreams /\ number \in 0..MaxPackets + 1
    /\ confirmed \subseteq TxPackets /\ sent \subseteq TxPackets
    /\ late \in BOOLEAN

Before(p, q) == \/ p.stream < q.stream
                \/ p.stream = q.stream /\ p.number < q.number

\* What is on the air is a sequence of streams, live calls and recordings, whatever
\* fails: START is on a stream's first packet only, after an END the stream goes on
\* with nothing but a repeated END, and its packets are numbered from zero.
StreamGrammar ==
    /\ \A p, q \in sent : p.stream = q.stream /\ Before(p, q) =>
        ~q.start /\ (p.end => q.end)
    /\ \A p \in sent : p.sequence = p.number % SeqMod

\* As long as no callback came later than the 100 ms send_packet waits for it, a
\* packet that _send_next or _stop reports as sent was transmitted: status and
\* semaphore of one packet are never taken for those of another.  A callback that is
\* later may be counted for the next packet, but for one only: whatever is late,
\* callers are never told of more packets than were transmitted.
ConfirmedWasSent ==
    /\ ~late => confirmed \subseteq sent
    /\ Cardinality(confirmed) <= Cardinality(sent)
==============================================================================
