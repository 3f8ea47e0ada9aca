------------------------------- MODULE PttLink -------------------------------
(***************************************************************************)
(* Push-to-talk between two boards: the sending half of one (EspNowTx), the *)
(* radio, which keeps order and may lose any packet, and the receiving half *)
(* of the other (EspNowRx).                                                 *)
(***************************************************************************)
EXTENDS EspNowTx

CONSTANTS QueueLen, DisableMayFail  \* of EspNowRx

ASSUME LinkAssumption ==
    /\ QueueLen \in Nat \ {0}
    /\ DisableMayFail \in BOOLEAN

VARIABLES
    s_rx_queue, speaker_started, dropping_stream, expected_sequence, packet,
    rpc, spk, s_rx_active,  \* of EspNowRx
    heard,    \* history: the packets written to the speaker
    refused,  \* history: the streams whose START packet was turned away
    clean     \* history: nothing has gone wrong so far, on either board or between

Rx == INSTANCE EspNowRx WITH Streams <- 0..MaxStreams

rx == <<s_rx_queue, speaker_started, dropping_stream, expected_sequence, packet,
        rpc, spk, s_rx_active>>
linkVars == <<txVars, rx, heard, refused, clean>>

LinkInit ==
    /\ TxInit /\ Rx!RxInit
    /\ heard = <<>> /\ refused = {} /\ clean = TRUE

Sender ==  \* a refusal of the driver, a late or a failed callback is a fault
    /\ Main \/ Wifi
    /\ clean' = (clean /\ tpc' # "failed" /\ (~cb /\ cb' => air' # air))
    /\ UNCHANGED <<rx, heard, refused>>

LostOnAir ==
    /\ Lose
    /\ clean' = FALSE
    /\ UNCHANGED <<rx, heard, refused>>

Deliver ==  \* network_audio_recv_cb of the other board
    /\ air # <<>>
    /\ air' = Tail(air)
    /\ Rx!Arrives(Head(air))
    /\ clean' = (clean /\ s_rx_queue' # s_rx_queue)
    /\ UNCHANGED <<call, signal, place, driver, cb, sent, confirmed, late, heard,
                   refused>>

Play ==
    /\ Rx!Write
    /\ heard' = Append(heard, packet)
    /\ UNCHANGED <<txVars, refused, clean>>

TurnAway ==
    /\ Rx!RestartFails \/ Rx!StartFails
    /\ refused' = refused \cup {packet.stream}
    /\ clean' = FALSE
    /\ UNCHANGED <<txVars, heard>>

Fault ==  \* a pause of the sender that passes for its end, or a write error
    /\ \/ Rx!Silence /\ speaker_started
       \/ Rx!WriteFails
    /\ clean' = FALSE
    /\ UNCHANGED <<txVars, heard, refused>>

Follow ==
    /\ \/ Rx!Receive \/ Rx!DropPacket \/ Rx!StartPacket \/ Rx!StrayPacket
       \/ Rx!RestartSpeaker \/ Rx!StartSpeaker \/ Rx!NextPacket \/ Rx!EndStream
       \/ Rx!Silence /\ ~speaker_started
    /\ clean' = (clean /\ (speaker_started' => spk' = "rx"))
    /\ UNCHANGED <<txVars, heard, refused>>

OtherUsers ==
    /\ Rx!MainPlays \/ Rx!MainEndsPlaying \/ Rx!MainDims
    /\ UNCHANGED <<txVars, heard, refused, clean>>

Listener == Play \/ TurnAway \/ Fault \/ Follow

LinkNext == Sender \/ LostOnAir \/ Deliver \/ Listener \/ OtherUsers

LinkSpec == LinkInit /\ [][LinkNext]_linkVars

-----------------------------------------------------------------------------
(* Properties *)

\* Every variable stays within its type.
LinkTypeOK ==
    /\ TxTypeOK /\ Rx!RxTypeOK
    /\ heard \in Seq(TxPackets)
    /\ refused \subseteq 0..MaxStreams
    /\ clean \in BOOLEAN

\* What is heard was said, in that order, and no part of it twice, whatever is
\* lost, refused, cut off or restarted on the way.
HeardInOrder ==
    /\ \A i \in 1..Len(heard) : heard[i] \in sent
    /\ \A i, j \in 1..Len(heard) : i < j => Before(heard[i], heard[j])

\* Types of both ends, and speech that is heard as it was said.
LinkInv == LinkTypeOK /\ HeardInOrder

\* A stream that was turned away because the speaker was busy is not joined in
\* the middle when the speaker becomes free.
RefusedIsSilent ==
    rpc = "write" /\ spk = "rx" => packet.stream \notin refused

\* The log tells of a sequence gap only when a packet before this one was missed,
\* also where the 16-bit sequence number wraps.
GapMeansLoss ==
    rpc = "write" /\ Rx!SequenceGap =>
        \E n \in 0..packet.number - 1 : \A i \in 1..Len(heard) :
            heard[i].stream = packet.stream => heard[i].number # n

\* As long as nothing goes wrong every packet that left the antenna is on its way,
\* in the queue, in the receive task's hands or heard.
CleanLosesNothing ==
    clean => \A p \in sent :
        \/ \E i \in 1..Len(air) : air[i] = p
        \/ \E i \in 1..Len(s_rx_queue) : s_rx_queue[i] = p
        \/ packet = p /\ rpc \notin {"receive", "end"}
        \/ \E i \in 1..Len(heard) : heard[i] = p
==============================================================================
