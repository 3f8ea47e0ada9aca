------------------------------- MODULE EspNowRx -------------------------------
(***************************************************************************)
(* The receiving half of components/network_audio: network_audio_recv_cb,   *)
(* which the Wi-Fi task calls for each frame, the queue s_rx_queue, and     *)
(* network_audio_rx_task, which plays what comes out of the queue.          *)
(*                                                                         *)
(* The radio is not assumed to keep order or to deliver everything: any     *)
(* packet may arrive at any time.  The speaker is the one of audio.c; Main  *)
(* takes it for playback, and in STATE_ERROR puts out the receive LED.      *)
(* A frame that recv_cb finds malformed never reaches the queue and is      *)
(* left out, as are the samples and the count of dropped packets.  A packet *)
(* without samples, which no sender makes, leaves the same state behind as  *)
(* one whose samples are written.                                          *)
(***************************************************************************)
EXTENDS Integers, Sequences

CONSTANTS
    Streams,          \* live calls, of any board
    Numbers,          \* a stream's packets, counted from 0
    SeqMod,           \* 2^16: values of packet.sequence
    QueueLen,         \* NETWORK_AUDIO_QUEUE_LEN
    DisableMayFail    \* whether i2s_channel_disable can return an error

ASSUME RxAssumption ==
    /\ Streams # {}
    /\ Numbers \subseteq Nat /\ Numbers # {}
    /\ SeqMod \in Nat \ {0}
    /\ QueueLen \in Nat \ {0}
    /\ DisableMayFail \in BOOLEAN

VARIABLES
    s_rx_queue,
    speaker_started, dropping_stream, expected_sequence, packet,  \* locals
    rpc,          \* the statement network_audio_rx_task is about to execute
    spk,          \* who has the speaker: "free", "rx" or "main"
    s_rx_active   \* the receive half of the red LED

session == <<speaker_started, dropping_stream, expected_sequence, packet>>
rxVars  == <<s_rx_queue, session, rpc, spk, s_rx_active>>

\* stream and number identify a packet; the firmware sees only the other fields.
Packets == [stream : Streams, number : Numbers, sequence : 0..SeqMod - 1,
            start : BOOLEAN, end : BOOLEAN]

RxPcs == {"receive", "look", "restart", "start", "write", "write_error", "end"}

RxInit ==
    /\ s_rx_queue = <<>>
    /\ speaker_started = FALSE /\ dropping_stream = FALSE
    /\ expected_sequence = 0
    /\ packet = CHOOSE p \in Packets : TRUE  \* not read before it is received
    /\ rpc = "receive"
    /\ spk = "free"
    /\ s_rx_active = FALSE

-----------------------------------------------------------------------------
(* network_audio_recv_cb *)

Arrives(p) ==  \* a packet that finds the queue full is dropped
    /\ s_rx_queue' = IF Len(s_rx_queue) < QueueLen THEN Append(s_rx_queue, p)
                                                   ELSE s_rx_queue
    /\ UNCHANGED <<session, rpc, spk, s_rx_active>>

-----------------------------------------------------------------------------
(* network_audio_stop_rx_speaker, for a speaker that was started: what it      *)
(* leaves of the session, of the speaker and of the LED.  audio_speaker_stop   *)
(* refuses who does not own the speaker, and lets go of it whatever the driver *)
(* answers.                                                                    *)

Stopped ==
    /\ spk = "rx" /\ spk' = "free"
    /\ speaker_started' = FALSE /\ s_rx_active' = FALSE

\* Mutant: the error is taken for a speaker that is gone.
StopFails_ForgetsLed ==
    /\ \/ spk = "rx" /\ DisableMayFail /\ spk' = "free"
       \/ spk # "rx" /\ spk' = spk
    /\ speaker_started' = FALSE /\ UNCHANGED s_rx_active

StopFails ==
    /\ \/ spk = "rx" /\ DisableMayFail /\ spk' = "free"
       \/ spk # "rx" /\ spk' = spk
    /\ UNCHANGED <<speaker_started, s_rx_active>>

-----------------------------------------------------------------------------
(* network_audio_rx_task *)

\* Mutant: xQueuePeek, the packet stays in the queue.
Receive_Peeks ==
    /\ rpc = "receive" /\ s_rx_queue # <<>>
    /\ packet' = Head(s_rx_queue)
    /\ rpc' = "look"
    /\ UNCHANGED <<s_rx_queue, speaker_started, dropping_stream,
                   expected_sequence, spk, s_rx_active>>

Receive ==
    /\ rpc = "receive" /\ s_rx_queue # <<>>
    /\ packet' = Head(s_rx_queue)
    /\ s_rx_queue' = Tail(s_rx_queue)
    /\ rpc' = "look"
    /\ UNCHANGED <<speaker_started, dropping_stream, expected_sequence, spk,
                   s_rx_active>>

\* Mutant: silence ends the dropping of a stream and nothing else.
Silence_KeepsSpeaker ==
    /\ rpc = "receive" /\ s_rx_queue = <<>>
    /\ dropping_stream' = FALSE
    /\ UNCHANGED <<s_rx_queue, speaker_started, expected_sequence, packet, rpc,
                   spk, s_rx_active>>

\* Mutant: a stream is dropped until its END comes.
Silence_KeepsDropping ==
    /\ rpc = "receive" /\ s_rx_queue = <<>>
    /\ \/ speaker_started /\ (Stopped \/ StopFails)
       \/ ~speaker_started /\ UNCHANGED <<speaker_started, spk, s_rx_active>>
    /\ UNCHANGED <<s_rx_queue, dropping_stream, expected_sequence, packet, rpc>>

Silence ==  \* nothing for 250 ms
    /\ rpc = "receive" /\ s_rx_queue = <<>>
    /\ \/ speaker_started /\ (Stopped \/ StopFails)
       \/ ~speaker_started /\ UNCHANGED <<speaker_started, spk, s_rx_active>>
    /\ dropping_stream' = FALSE
    /\ UNCHANGED <<s_rx_queue, expected_sequence, packet, rpc>>

DropPacket ==
    /\ rpc = "look" /\ dropping_stream
    /\ dropping_stream' = ~packet.end
    /\ rpc' = "receive"
    /\ UNCHANGED <<s_rx_queue, speaker_started, expected_sequence, packet, spk,
                   s_rx_active>>

StartPacket ==
    /\ rpc = "look" /\ ~dropping_stream /\ packet.start
    /\ rpc' = IF speaker_started THEN "restart" ELSE "start"
    /\ UNCHANGED <<s_rx_queue, session, spk, s_rx_active>>

\* Mutant: what belongs to no stream is played as soon as the speaker is free.
StrayPacket_Starts ==
    /\ rpc = "look" /\ ~dropping_stream /\ ~packet.start /\ ~speaker_started
    /\ rpc' = "start"
    /\ UNCHANGED <<s_rx_queue, session, spk, s_rx_active>>

StrayPacket ==  \* the middle of a stream whose START was not accepted
    /\ rpc = "look" /\ ~dropping_stream /\ ~packet.start /\ ~speaker_started
    /\ rpc' = "receive"
    /\ UNCHANGED <<s_rx_queue, session, spk, s_rx_active>>

Refuse ==
    /\ dropping_stream' = TRUE
    /\ rpc' = "receive"
    /\ UNCHANGED <<s_rx_queue, expected_sequence, packet>>

RestartSpeaker ==
    /\ rpc = "restart"
    /\ Stopped
    /\ rpc' = "start"
    /\ UNCHANGED <<s_rx_queue, dropping_stream, expected_sequence, packet>>

RestartFails ==
    /\ rpc = "restart"
    /\ StopFails
    /\ Refuse

\* Mutant: the samples of the START packet are not written.
StartSpeaker_Only ==
    /\ rpc = "start" /\ spk = "free"
    /\ spk' = "rx"
    /\ speaker_started' = TRUE
    /\ expected_sequence' = (packet.sequence + 1) % SeqMod
    /\ s_rx_active' = TRUE
    /\ rpc' = "receive"
    /\ UNCHANGED <<s_rx_queue, dropping_stream, packet>>

StartSpeaker ==
    /\ rpc = "start" /\ spk = "free"
    /\ spk' = "rx"
    /\ speaker_started' = TRUE
    /\ expected_sequence' = packet.sequence
    /\ s_rx_active' = TRUE
    /\ rpc' = "write"
    /\ UNCHANGED <<s_rx_queue, dropping_stream, packet>>

StartFails ==  \* the speaker is busy, or cannot be enabled
    /\ rpc = "start"
    /\ s_rx_active' = FALSE
    /\ Refuse
    /\ UNCHANGED <<speaker_started, spk>>

NextPacket ==
    /\ rpc = "look" /\ ~dropping_stream /\ ~packet.start /\ speaker_started
    /\ rpc' = "write"
    /\ UNCHANGED <<s_rx_queue, session, spk, s_rx_active>>

\* The sequence number is checked for the log only; then the samples are written.
SequenceGap == packet.sequence # expected_sequence

\* Mutant: the number expected next is wider than the 16 bits of the packet's.
CheckSequence_NoWrap == expected_sequence' = packet.sequence + 1

CheckSequence == expected_sequence' = (packet.sequence + 1) % SeqMod

Write ==
    /\ rpc = "write" /\ spk = "rx"
    /\ CheckSequence
    /\ rpc' = IF packet.end THEN "end" ELSE "receive"
    /\ UNCHANGED <<s_rx_queue, speaker_started, dropping_stream, packet, spk,
                   s_rx_active>>

WriteFails ==
    /\ rpc = "write"
    /\ CheckSequence
    /\ rpc' = "write_error"
    /\ UNCHANGED <<s_rx_queue, speaker_started, dropping_stream, packet, spk,
                   s_rx_active>>

EndStream ==  \* after the END packet or a write error
    /\ rpc \in {"end", "write_error"}
    /\ Stopped \/ StopFails
    /\ rpc' = "receive"
    /\ UNCHANGED <<s_rx_queue, dropping_stream, expected_sequence, packet>>

RxTask ==
    \/ Receive \/ Silence \/ DropPacket \/ StartPacket \/ StrayPacket
    \/ RestartSpeaker \/ RestartFails \/ StartSpeaker \/ StartFails
    \/ NextPacket \/ Write \/ WriteFails \/ EndStream

-----------------------------------------------------------------------------
(* Main *)

MainPlays ==
    /\ spk = "free" /\ spk' = "main"
    /\ UNCHANGED <<s_rx_queue, session, rpc, s_rx_active>>

MainEndsPlaying ==
    /\ spk = "main" /\ spk' = "free"
    /\ UNCHANGED <<s_rx_queue, session, rpc, s_rx_active>>

MainDims ==  \* STATE_ERROR
    /\ s_rx_active' = FALSE
    /\ UNCHANGED <<s_rx_queue, session, rpc, spk>>

Receiver == RxTask \/ MainPlays \/ MainEndsPlaying \/ MainDims

RxNext == Receiver \/ \E p \in Packets : Arrives(p)

RxSpec == RxInit /\ [][RxNext]_rxVars

-----------------------------------------------------------------------------
(* Properties *)

\* Every variable stays within its type: a sequence number in its 16 bits.
RxTypeOK ==
    /\ s_rx_queue \in Seq(Packets) /\ Len(s_rx_queue) <= QueueLen
    /\ speaker_started \in BOOLEAN /\ dropping_stream \in BOOLEAN
    /\ expected_sequence \in 0..SeqMod - 1
    /\ packet \in Packets
    /\ rpc \in RxPcs
    /\ spk \in {"free", "rx", "main"}
    /\ s_rx_active \in BOOLEAN

\* The receive task has the speaker only inside a session, so that Main can have
\* it whenever no stream is being played; and the LED is lit in a session only.
SpeakerOnlyInSession ==
    /\ spk = "rx" => speaker_started
    /\ s_rx_active => speaker_started

\* While a stream is being dropped nothing is heard of it, and no session is open
\* beside the one that could not be stopped.
DroppingIsSilent ==
    dropping_stream => spk # "rx" /\ rpc \in {"receive", "look"}

\* Types; the speaker and the LED in a session only, and silence while dropping.
RxInv == RxTypeOK /\ SpeakerOnlyInSession /\ DroppingIsSilent

\* Once the packets stop coming the speaker does not stay with the receive task,
\* even if the END packet was lost.
SpeakerComesBack ==
    spk = "rx" ~> spk # "rx"

\* (Refuted) Once the packets stop coming the board goes back to the green LED.
GreenAfterCall ==
    s_rx_active ~> ~s_rx_active
==============================================================================
