---------------------------- MODULE EspNowRxTimed ----------------------------
(***************************************************************************)
(* EspNowRx with a clock: how long network_audio_rx_task has been waiting   *)
(* for a frame, and how long none has arrived.  Time passes while it waits  *)
(* and while audio_speaker_write plays a packet, which takes a tick at most *)
(* (96 samples are 6 ms); everything else the task does takes no time.      *)
(***************************************************************************)
EXTENDS EspNowRx

CONSTANTS
    SilenceTicks,  \* the 250 ms that xQueueReceive waits
    MaxArrivals    \* bound: frames that arrive

ASSUME TimedAssumption == SilenceTicks \in Nat \ {0} /\ MaxArrivals \in Nat

VARIABLES
    waited,   \* ticks spent in the present wait or write
    quiet,    \* ticks since a frame arrived, up to Pause
    arrivals

timedVars == <<rxVars, waited, quiet, arrivals>>

\* After a frame there may be QueueLen packets to play before one of them has its
\* stream refused and the 250 ms begin; and a frame may come just as they end.
Pause == SilenceTicks + QueueLen + 1

TimedInit == RxInit /\ waited = 0 /\ quiet = Pause /\ arrivals = 0

\* The number of a frame, which the firmware does not see, says here whether it came
\* after a pause.
RecvCb ==
    /\ arrivals < MaxArrivals /\ arrivals' = arrivals + 1
    /\ quiet' = 0
    /\ \E p \in Packets :
        /\ p.number = IF quiet = Pause THEN 1 ELSE 0
        /\ Arrives(p)
    /\ UNCHANGED waited

Tick ==
    /\ \/ rpc = "receive" /\ s_rx_queue = <<>> /\ waited < SilenceTicks
       \/ rpc = "write" /\ waited < 1
    /\ waited' = waited + 1
    /\ quiet' = IF quiet < Pause THEN quiet + 1 ELSE Pause
    /\ UNCHANGED <<rxVars, arrivals>>

TimedTask ==
    /\ RxTask
    /\ (rpc = "receive" /\ s_rx_queue = <<>>) => waited = SilenceTicks
    /\ waited' = 0
    /\ UNCHANGED <<quiet, arrivals>>

MainUsesSpeaker ==
    /\ MainPlays \/ MainEndsPlaying \/ MainDims
    /\ UNCHANGED <<waited, quiet, arrivals>>

TimedNext == RecvCb \/ Tick \/ TimedTask \/ MainUsesSpeaker

\* Time goes on, and the receive task is not starved.
TimedSpec ==
    /\ TimedInit /\ [][TimedNext]_timedVars
    /\ WF_timedVars(Tick) /\ WF_timedVars(TimedTask)

-----------------------------------------------------------------------------
(* Properties *)

\* A call that comes after a pause is looked at, whatever was lost of the calls
\* before it: the END of a refused stream may never arrive, silence ends the
\* dropping too (network_audio.c:191), and no START that comes later is dropped.
PauseEndsDropping ==
    rpc = "look" /\ packet.number = 1 => ~dropping_stream
==============================================================================
